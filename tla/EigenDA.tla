------------------------------- MODULE EigenDA ------------------------------
(***************************************************************************)
(* The state committer and the state listener of a deployment that posts   *)
(* to EigenDA.  The committer disperses the oldest fragment that has no    *)
(* submission, or only failed ones; the listener polls the status of the   *)
(* open submissions.  Both go through one throttler: a bucket of calls and *)
(* a bucket of bytes.                                                      *)
(***************************************************************************)
EXTENDS Naturals, FiniteSets

CONSTANTS
  NumFragments,  \* fragment f is the f-th in order of its bundle and index
  FragmentSize,  \* bytes of a fragment
  MaxBurst,      \* bytes the throughput limiter holds
  CallsPerSec,   \* calls the frequency limiter holds
  RetryLimit,    \* RETRY_LIMIT of a status check
  SlowPolling,   \* the bytes refill between two runs of the committer
  MaxBlobs,      \* bound on the blobs ever dispersed
  MaxFaults      \* bound on failures, crashes and submissions pruned early

ASSUME EigenAssumption ==
  /\ NumFragments \in Nat
  /\ FragmentSize \in Nat \ {0}
  /\ MaxBurst \in Nat
  /\ CallsPerSec \in Nat \ {0}
  /\ RetryLimit \in Nat \ {0}
  /\ SlowPolling \in BOOLEAN
  /\ MaxBlobs \in Nat
  /\ MaxFaults \in Nat

Fragments  == 1..NumFragments
RequestIds == 1..MaxBlobs

VARIABLES
  daStatus,     \* status of each blob at the disperser
  dispersed,    \* number of blobs dispersed; the last request id
  fragmentOf,   \* the fragment in each blob
  row,          \* eigen_submission: status by request id
  stored,       \* fragments in l1_fragments are 1..stored
  windowStart,  \* fragments below it are out of the lookback window
  committerAt, chosen, requestId,
  listenerAt, toCheck, changes, attempts,
  calls, bytes,  \* what the limiters hold
  faults

daVars        == <<daStatus, dispersed, fragmentOf>>
tableVars     == <<row, stored, windowStart>>
committerVars == <<committerAt, chosen, requestId>>
listenerVars  == <<listenerAt, toCheck, changes, attempts>>
throttleVars  == <<calls, bytes>>

vars == <<daVars, tableVars, committerVars, listenerVars, throttleVars, faults>>

Fault ==
  /\ faults < MaxFaults
  /\ faults' = faults + 1

CommitterReset == committerAt' = "idle" /\ chosen' = 0 /\ requestId' = 0

ListenerReset == listenerAt' = "idle" /\ toCheck' = {} /\ changes' = {} /\ attempts' = 0

Init ==
  /\ daStatus = [i \in RequestIds |-> "NotSent"]
  /\ dispersed = 0
  /\ fragmentOf = [i \in RequestIds |-> 0]
  /\ row = [i \in RequestIds |-> "None"]
  /\ stored = 0
  /\ windowStart = 1
  /\ committerAt = "idle" /\ chosen = 0 /\ requestId = 0
  /\ listenerAt = "idle" /\ toCheck = {} /\ changes = {} /\ attempts = 0
  /\ calls = CallsPerSec
  /\ bytes = MaxBurst
  /\ faults = 0

-----------------------------------------------------------------------------
(* The throttler.                                                          *)

RefillCalls ==
  /\ calls < CallsPerSec
  /\ calls' = calls + 1
  /\ UNCHANGED <<daVars, tableVars, committerVars, listenerVars, bytes, faults>>

RefillBytes ==
  /\ bytes < MaxBurst
  /\ bytes' = bytes + 1
  /\ UNCHANGED <<daVars, tableVars, committerVars, listenerVars, calls, faults>>

\* check_n takes what it checks for, from each limiter whatever the other says.
CanProceed == bytes >= FragmentSize /\ calls >= 1

TakeChecked ==
  /\ bytes' = IF bytes >= FragmentSize THEN bytes - FragmentSize ELSE bytes
  /\ calls' = IF calls >= 1 THEN calls - 1 ELSE calls

\* until_n_ready on the frequency limiter.
TakeCall ==
  /\ calls >= 1
  /\ calls' = calls - 1
  /\ UNCHANGED bytes

-----------------------------------------------------------------------------
(* The committer.                                                          *)

RowsOf(f) == {i \in RequestIds : fragmentOf[i] = f /\ row[i] # "None"}

\* Mutant of Unsubmitted: only a submission still in process counts.
UnsubmittedWhenConfirmed ==
  {f \in windowStart..stored : \A i \in RowsOf(f) : row[i] # "Processing"}

\* Mutant of Unsubmitted: a failed submission counts, too.
NeverSubmitted == {f \in windowStart..stored : RowsOf(f) = {}}

Unsubmitted == {f \in windowStart..stored : \A i \in RowsOf(f) : row[i] = "Failed"}

\* The next fragment, and whether the throttler would let it pass now.
ChooseFragment ==
  /\ committerAt = "idle"
  /\ SlowPolling => bytes = MaxBurst
  /\ \E f \in Unsubmitted :
       /\ \A g \in Unsubmitted : f <= g
       /\ \/ /\ CanProceed
             /\ committerAt' = "throttled"
             /\ chosen' = f
          \/ /\ ~CanProceed
             /\ UNCHANGED <<committerAt, chosen>>
  /\ TakeChecked
  /\ UNCHANGED <<daVars, tableVars, requestId, listenerVars, faults>>

\* wait_for_capacity: first the call, then the bytes.
WaitForCall ==
  /\ committerAt = "throttled"
  /\ TakeCall
  /\ committerAt' = "sized"
  /\ UNCHANGED <<daVars, tableVars, chosen, requestId, listenerVars, faults>>

WaitForBytes ==
  /\ committerAt = "sized"
  /\ bytes >= FragmentSize
  /\ bytes' = bytes - FragmentSize
  /\ committerAt' = "sending"
  /\ UNCHANGED <<daVars, tableVars, chosen, requestId, listenerVars, calls, faults>>

\* The disperser takes the blob under a new key.
Disperse ==
  /\ dispersed < MaxBlobs
  /\ dispersed' = dispersed + 1
  /\ daStatus' = [daStatus EXCEPT ![dispersed + 1] = "Queued"]
  /\ fragmentOf' = [fragmentOf EXCEPT ![dispersed + 1] = chosen]

DispatchBlob ==
  /\ committerAt = "sending"
  /\ Disperse
  /\ requestId' = dispersed + 1
  /\ committerAt' = "dispersed"
  /\ UNCHANGED <<tableVars, chosen, listenerVars, throttleVars, faults>>

\* An error of the disperser, which may have taken the blob all the same.
DispatchFails ==
  /\ committerAt = "sending"
  /\ Fault
  /\ Disperse \/ UNCHANGED daVars
  /\ CommitterReset
  /\ UNCHANGED <<tableVars, listenerVars, throttleVars>>

RecordSubmission ==
  /\ committerAt = "dispersed"
  /\ row' = [row EXCEPT ![requestId] = "Processing"]
  /\ CommitterReset
  /\ UNCHANGED <<daVars, stored, windowStart, listenerVars, throttleVars, faults>>

RecordFails ==
  /\ committerAt = "dispersed"
  /\ Fault
  /\ CommitterReset
  /\ UNCHANGED <<daVars, tableVars, listenerVars, throttleVars>>

CommitterStep ==
  \/ ChooseFragment
  \/ WaitForCall
  \/ WaitForBytes
  \/ DispatchBlob
  \/ RecordSubmission

-----------------------------------------------------------------------------
(* The listener.                                                           *)

\* Mutant of OpenRows: submissions that failed are asked about again.
UnfinalizedRows == {i \in RequestIds : row[i] \in {"Processing", "Confirmed", "Failed"}}

OpenRows == {i \in RequestIds : row[i] \in {"Processing", "Confirmed"}}

\* Mutant of DispersalStatus: signatures are taken for the certificate.
OptimisticStatus(status) ==
  CASE status = "Queued"              -> "Processing"
    [] status = "GatheringSignatures" -> "Finalized"
    [] status = "Complete"            -> "Finalized"
    [] status = "Failed"              -> "Failed"
    [] OTHER                          -> "Processing"

\* Unknown and Encoded blobs are under way as Queued ones are.
DispersalStatus(status) ==
  CASE status = "Queued"              -> "Processing"
    [] status = "GatheringSignatures" -> "Confirmed"
    [] status = "Complete"            -> "Finalized"
    [] status = "Failed"              -> "Failed"
    [] OTHER                          -> "Processing"

StartRun ==
  /\ listenerAt = "idle"
  /\ OpenRows # {}
  /\ listenerAt' = "checking"
  /\ toCheck' = {[id |-> i, status |-> row[i]] : i \in OpenRows}
  /\ UNCHANGED <<daVars, tableVars, committerVars, changes, attempts, throttleVars, faults>>

\* Processing and the status known already are no news.
NewsOf(r, status) ==
  IF status \in {r.status, "Processing"} THEN {} ELSE {[id |-> r.id, status |-> status]}

\* One call answers.
CheckStatus ==
  /\ listenerAt = "checking"
  /\ TakeCall
  /\ \E r \in toCheck :
       /\ changes' = changes \cup NewsOf(r, DispersalStatus(daStatus[r.id]))
       /\ toCheck' = toCheck \ {r}
  /\ attempts' = 0
  /\ UNCHANGED <<daVars, tableVars, committerVars, listenerAt, faults>>

\* A call fails and is made again, with RETRY_LIMIT calls in all.
CallFails ==
  /\ listenerAt = "checking"
  /\ toCheck # {}
  /\ attempts + 1 < RetryLimit
  /\ TakeCall
  /\ attempts' = attempts + 1
  /\ UNCHANGED <<daVars, tableVars, committerVars, listenerAt, toCheck, changes, faults>>

\* The last call fails too, and the blob counts as failed.
GiveUp ==
  /\ listenerAt = "checking"
  /\ attempts + 1 = RetryLimit
  /\ TakeCall
  /\ Fault
  /\ \E r \in toCheck :
       /\ changes' = changes \cup NewsOf(r, "Failed")
       /\ toCheck' = toCheck \ {r}
  /\ attempts' = 0
  /\ UNCHANGED <<daVars, tableVars, committerVars, listenerAt>>

\* Mutant of Updated: the write does not look whether the row is still there.
UpdatedOrInserted(r, C) ==
  [i \in RequestIds |->
     IF \E c \in C : c.id = i THEN (CHOOSE c \in C : c.id = i).status ELSE r[i]]

\* An UPDATE of a row the pruner has deleted does nothing.
Updated(r, C) ==
  [i \in RequestIds |->
     IF r[i] # "None" /\ \E c \in C : c.id = i THEN (CHOOSE c \in C : c.id = i).status ELSE r[i]]

WriteChanges ==
  /\ listenerAt = "checking"
  /\ toCheck = {}
  /\ row' = Updated(row, changes)
  /\ ListenerReset
  /\ UNCHANGED <<daVars, stored, windowStart, committerVars, throttleVars, faults>>

\* Any other error drops what the run has learnt.
ListenerError ==
  /\ listenerAt = "checking"
  /\ Fault
  /\ ListenerReset
  /\ UNCHANGED <<daVars, tableVars, committerVars, throttleVars>>

ListenerStep == StartRun \/ CheckStatus \/ WriteChanges

-----------------------------------------------------------------------------
(* The rest of the system.                                                 *)

StoreFragment ==
  /\ stored < NumFragments
  /\ stored' = stored + 1
  /\ UNCHANGED <<daVars, row, windowStart, committerVars, listenerVars, throttleVars, faults>>

\* The Fuel chain grows and the oldest bundle of the window falls out of it.
WindowMoves ==
  /\ windowStart < stored
  /\ windowStart' = windowStart + 1
  /\ UNCHANGED <<daVars, row, stored, committerVars, listenerVars, throttleVars, faults>>

\* The disperser makes progress with a blob.
Progress ==
  /\ \E i \in RequestIds :
       \/ /\ daStatus[i] = "Queued"
          /\ daStatus' = [daStatus EXCEPT ![i] = "GatheringSignatures"]
       \/ /\ daStatus[i] = "GatheringSignatures"
          /\ daStatus' = [daStatus EXCEPT ![i] = "Complete"]
  /\ UNCHANGED <<dispersed, fragmentOf, tableVars, committerVars, listenerVars, throttleVars, faults>>

BlobFails ==
  /\ Fault
  /\ \E i \in RequestIds :
       /\ daStatus[i] \in {"Queued", "GatheringSignatures"}
       /\ daStatus' = [daStatus EXCEPT ![i] = "Failed"]
  /\ UNCHANGED <<dispersed, fragmentOf, tableVars, committerVars, listenerVars, throttleVars>>

\* The pruner deletes old submissions in any state, and only them: fragments are
\* deleted for their Ethereum transactions.
PruneSubmission ==
  /\ Fault
  /\ \E i \in RequestIds :
       /\ row[i] # "None"
       /\ \A j \in 1..(i - 1) : row[j] = "None"
       /\ row' = [row EXCEPT ![i] = "None"]
  /\ UNCHANGED <<daVars, stored, windowStart, committerVars, listenerVars, throttleVars>>

\* The process starts again, with full limiters.
Crash ==
  /\ committerAt # "idle" \/ listenerAt # "idle"
  /\ Fault
  /\ CommitterReset
  /\ ListenerReset
  /\ calls' = CallsPerSec
  /\ bytes' = MaxBurst
  /\ UNCHANGED <<daVars, tableVars>>

-----------------------------------------------------------------------------

Next ==
  \/ CommitterStep
  \/ DispatchFails
  \/ RecordFails
  \/ ListenerStep
  \/ CallFails
  \/ GiveUp
  \/ ListenerError
  \/ RefillCalls
  \/ RefillBytes
  \/ StoreFragment
  \/ WindowMoves
  \/ Progress
  \/ BlobFails
  \/ PruneSubmission
  \/ Crash

Spec == Init /\ [][Next]_vars

\* Both tasks are polled for ever, the limiters refill and the disperser works on.
\* A task that waits for a call tries again when the limiter says there is one, so it
\* is not passed over for ever.
Fairness ==
  /\ WF_vars(CommitterStep)
  /\ SF_vars(WaitForCall)
  /\ SF_vars(CheckStatus)
  /\ WF_vars(ListenerStep)
  /\ WF_vars(RefillCalls)
  /\ WF_vars(RefillBytes)
  /\ WF_vars(Progress)

FairSpec == Spec /\ Fairness

-----------------------------------------------------------------------------
(* Safety.                                                                 *)

RowStates == {"None", "Processing", "Confirmed", "Finalized", "Failed"}

\* The variables have their types; the limiters never hold more than they may.
TypeOK ==
  /\ daStatus \in [RequestIds -> {"NotSent", "Queued", "GatheringSignatures", "Complete", "Failed"}]
  /\ dispersed \in 0..MaxBlobs
  /\ fragmentOf \in [RequestIds -> 0..NumFragments]
  /\ row \in [RequestIds -> RowStates]
  /\ stored \in 0..NumFragments
  /\ windowStart \in 1..(NumFragments + 1)
  /\ committerAt \in {"idle", "throttled", "sized", "sending", "dispersed"}
  /\ chosen \in 0..NumFragments
  /\ requestId \in 0..MaxBlobs
  /\ listenerAt \in {"idle", "checking"}
  /\ toCheck \subseteq [id : RequestIds, status : {"Processing", "Confirmed"}]
  /\ changes \subseteq [id : RequestIds, status : {"Confirmed", "Finalized", "Failed"}]
  /\ attempts \in 0..(RetryLimit - 1)
  /\ calls \in 0..CallsPerSec
  /\ bytes \in 0..MaxBurst
  /\ faults \in 0..MaxFaults

\* A submission is called finalized only when the disperser has the certificate,
\* though the status was read some steps before it is written.
FinalizedIsComplete ==
  \A i \in RequestIds : row[i] = "Finalized" => daStatus[i] = "Complete"

\* A fragment never has two submissions that are open or finalized, though the
\* committer decides long before it records and the listener writes meanwhile.
OneLiveSubmission ==
  \A i, j \in RequestIds :
    /\ fragmentOf[i] = fragmentOf[j]
    /\ row[i] \in {"Processing", "Confirmed", "Finalized"}
    /\ row[j] \in {"Processing", "Confirmed", "Finalized"}
    => i = j

\* A fragment is dispersed again only for a fault: a lost answer, a crash before the
\* record, a blob that failed or seemed to, a submission pruned early.
RepeatsAreFaults ==
  \A f \in Fragments : Cardinality({i \in 1..dispersed : fragmentOf[i] = f}) <= 1 + faults

\* A finalized or failed submission never changes again, unless the pruner deletes it.
SettledForever ==
  [][\A i \in RequestIds : row[i] \in {"Finalized", "Failed"} => row'[i] \in {row[i], "None"}]_vars

\* What connector.rs says of the throttler: once should_submit_fragment has said yes,
\* the wait for capacity ends at once.
CapacityIsReserved ==
  [][committerAt = "idle" /\ committerAt' = "throttled" => calls' >= 1 /\ bytes' >= FragmentSize]_vars

-----------------------------------------------------------------------------
(* Liveness, once the environment stops failing.                           *)

Delivered == {fragmentOf[i] : i \in {j \in RequestIds : row[j] = "Finalized"}}

\* A stored fragment is finalized on EigenDA in the end, or falls out of the window.
FragmentsDispersed ==
  \A f \in Fragments : f \in 1..stored ~> f \in Delivered \/ f < windowStart
=============================================================================
