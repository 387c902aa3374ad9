---------------------------- MODULE EigenTheorems ---------------------------
(***************************************************************************)
(* What holds of posting to EigenDA for every value of the constants.  The *)
(* committer and the listener never look at each other: the committer can  *)
(* rely on what it has chosen because no step of the listener brings a     *)
(* failed submission back to life, and the listener can write what it      *)
(* learnt some calls ago because what the disperser has completed stays    *)
(* complete.                                                               *)
(***************************************************************************)
EXTENDS EigenDA, FiniteSetTheorems, TLAPS

Live == {"Processing", "Confirmed", "Finalized"}

\* The disperser knows exactly the blobs dispersed, and only they have rows.
BlobsExist ==
  \A i \in RequestIds :
    /\ daStatus[i] = "NotSent" <=> i > dispersed
    /\ row[i] # "None" => i <= dispersed

\* What a run of the listener holds is about open submissions, or ones pruned since.
NewsOfOpenRows ==
  \A r \in toCheck \cup changes : row[r.id] \in {"None", "Processing", "Confirmed"} /\ r.id <= dispersed

\* What it has learnt still holds.
NewsIsTrue ==
  \A c \in changes : c.status = "Finalized" => daStatus[c.id] = "Complete"

\* The fragment the committer is busy with has no submission but failed ones.
ChosenIsFree ==
  committerAt # "idle" =>
    \A i \in RequestIds : row[i] \in Live => fragmentOf[i] # chosen

\* The submission it is about to record is new to the table and to the listener.
RecordIsNew ==
  committerAt = "dispersed" =>
    /\ requestId \in 1..dispersed
    /\ fragmentOf[requestId] = chosen
    /\ row[requestId] = "None"
    /\ \A r \in toCheck \cup changes : r.id # requestId

\* The inductive invariant.
EigenInv ==
  /\ TypeOK
  /\ BlobsExist
  /\ NewsOfOpenRows
  /\ NewsIsTrue
  /\ ChosenIsFree
  /\ RecordIsNew
  /\ FinalizedIsComplete
  /\ OneLiveSubmission

-----------------------------------------------------------------------------

\* Nothing is dispersed at the start.
LEMMA InitEigen == Init => EigenInv
<1>1. SUFFICES ASSUME Init PROVE EigenInv
  OBVIOUS
<1>2. /\ \A i \in RequestIds : daStatus[i] = "NotSent" /\ row[i] = "None"
      /\ toCheck = {} /\ changes = {} /\ committerAt = "idle" /\ dispersed = 0
  BY <1>1 DEF Init
<1>3. TypeOK
  <2>1. /\ 0 \in 0..MaxBlobs /\ 0 \in 0..NumFragments /\ 0 \in 0..(RetryLimit - 1) /\ 0 \in 0..MaxFaults
        /\ 1 \in 1..(NumFragments + 1) /\ CallsPerSec \in 0..CallsPerSec /\ MaxBurst \in 0..MaxBurst
    BY EigenAssumption
  <2> QED BY <1>1, <2>1 DEF Init, TypeOK, RowStates
<1>4. \A i \in RequestIds : i > 0
  BY EigenAssumption DEF RequestIds
<1> QED BY <1>2, <1>3, <1>4
        DEF EigenInv, BlobsExist, NewsOfOpenRows, NewsIsTrue, ChosenIsFree, RecordIsNew,
            FinalizedIsComplete, OneLiveSubmission, Live

\* Steps of the throttler, the window and the bundler disturb nobody.
LEMMA QuietStep ==
  ASSUME EigenInv, TypeOK', UNCHANGED <<daVars, row, committerAt, chosen, requestId, toCheck, changes>>
  PROVE  EigenInv'
BY DEF EigenInv, daVars, BlobsExist, NewsOfOpenRows, NewsIsTrue, ChosenIsFree, RecordIsNew,
       FinalizedIsComplete, OneLiveSubmission, Live

\* Nothing is forgotten by losing what the runs held.
LEMMA LosingStep ==
  ASSUME EigenInv, TypeOK', UNCHANGED <<daVars, row>>,
         committerAt' = "idle" \/ UNCHANGED <<committerAt, chosen, requestId>>,
         (toCheck' = {} /\ changes' = {}) \/ UNCHANGED <<toCheck, changes>>
  PROVE  EigenInv'
BY DEF EigenInv, daVars, BlobsExist, NewsOfOpenRows, NewsIsTrue, ChosenIsFree, RecordIsNew,
       FinalizedIsComplete, OneLiveSubmission, Live

\* The limiters and the counter of faults stay within their bounds.
LEMMA Tokens ==
  ASSUME TypeOK
  PROVE  /\ CallsPerSec \in Nat /\ calls \in 0..CallsPerSec
         /\ MaxBurst \in Nat /\ bytes \in 0..MaxBurst
         /\ (calls >= 1 => calls - 1 \in 0..CallsPerSec)
         /\ (bytes >= FragmentSize => bytes - FragmentSize \in 0..MaxBurst)
         /\ (faults < MaxFaults => faults + 1 \in 0..MaxFaults)
BY EigenAssumption DEF TypeOK

\* The choice of a fragment: all its submissions have failed.
LEMMA ChooseStep ==
  ASSUME EigenInv, ChooseFragment
  PROVE  EigenInv'
<1>1. TakeChecked /\ UNCHANGED <<daVars, tableVars, requestId, listenerVars, faults>>
  BY DEF ChooseFragment
<1>2. calls' \in 0..CallsPerSec /\ bytes' \in 0..MaxBurst
  BY <1>1, Tokens DEF EigenInv, TakeChecked
<1>3. CASE UNCHANGED <<committerAt, chosen>>
  <2>1. TypeOK'
    BY <1>1, <1>2, <1>3 DEF EigenInv, TypeOK, daVars, tableVars, listenerVars
  <2> QED BY <1>1, <1>3, <2>1, QuietStep DEF tableVars, listenerVars
<1>4. CASE committerAt' = "throttled" /\ chosen' \in Unsubmitted
  <2>1. chosen' \in 0..NumFragments
    BY <1>4, EigenAssumption DEF Unsubmitted, EigenInv, TypeOK
  <2>2. TypeOK'
    BY <1>1, <1>2, <1>4, <2>1 DEF EigenInv, TypeOK, daVars, tableVars, listenerVars
  <2>3. \A i \in RequestIds : fragmentOf[i] = chosen' => row[i] \in {"None", "Failed"}
    BY <1>4 DEF Unsubmitted, RowsOf
  <2>4. ChosenIsFree'
    BY <1>1, <2>3 DEF ChosenIsFree, Live, daVars, tableVars
  <2> QED BY <1>1, <1>4, <2>2, <2>4
          DEF EigenInv, daVars, tableVars, listenerVars, BlobsExist, NewsOfOpenRows, NewsIsTrue,
              RecordIsNew, FinalizedIsComplete, OneLiveSubmission
<1> QED BY <1>3, <1>4 DEF ChooseFragment

\* A blob more at the disperser: the tables know nothing of it yet.
LEMMA DisperseStep ==
  ASSUME EigenInv, Disperse, committerAt = "sending", TypeOK', UNCHANGED <<row, toCheck, changes>>,
         committerAt' = "idle" \/ (committerAt' = "dispersed" /\ requestId' = dispersed + 1 /\ chosen' = chosen)
  PROVE  EigenInv'
<1> DEFINE n == dispersed + 1
<1>1. n \in RequestIds /\ dispersed \in 0..MaxBlobs /\ dispersed' = n
  BY EigenAssumption DEF EigenInv, TypeOK, Disperse, RequestIds
<1>2. /\ daStatus' = [daStatus EXCEPT ![n] = "Queued"] /\ fragmentOf' = [fragmentOf EXCEPT ![n] = chosen]
      /\ daStatus \in [RequestIds -> {"NotSent", "Queued", "GatheringSignatures", "Complete", "Failed"}]
      /\ fragmentOf \in [RequestIds -> 0..NumFragments]
  BY DEF Disperse, EigenInv, TypeOK
<1>3. \A i \in RequestIds : i \in Nat /\ (i > dispersed <=> (i = n \/ i > n)) /\ (i <= dispersed => i <= n /\ i # n)
  BY <1>1, EigenAssumption DEF RequestIds
<1>4. row[n] = "None" /\ \A r \in toCheck \cup changes : r.id \in RequestIds /\ r.id <= dispersed
  BY <1>1, <1>3 DEF EigenInv, BlobsExist, NewsOfOpenRows, TypeOK
<1>5. \A i \in RequestIds : i # n => daStatus'[i] = daStatus[i] /\ fragmentOf'[i] = fragmentOf[i]
  BY <1>2
<1>6. daStatus'[n] = "Queued" /\ fragmentOf'[n] = chosen
  BY <1>1, <1>2
<1> HIDE DEF n
<1>7. BlobsExist'
  BY <1>1, <1>3, <1>5, <1>6 DEF EigenInv, BlobsExist
<1>8. NewsOfOpenRows' /\ NewsIsTrue'
  BY <1>1, <1>3, <1>4, <1>5 DEF EigenInv, NewsOfOpenRows, NewsIsTrue
<1>9. FinalizedIsComplete' /\ OneLiveSubmission'
  BY <1>4, <1>5 DEF EigenInv, FinalizedIsComplete, OneLiveSubmission
<1>10. ChosenIsFree'
  BY <1>4, <1>5 DEF EigenInv, ChosenIsFree, Live
<1>11. RecordIsNew'
  <2>1. SUFFICES ASSUME committerAt' = "dispersed" PROVE RecordIsNew'
    BY DEF RecordIsNew
  <2>2. requestId' = n /\ chosen' = chosen /\ n \in 1..n
    BY <1>1, <2>1, EigenAssumption DEF n, RequestIds
  <2> QED BY <1>1, <1>3, <1>4, <1>6, <2>2 DEF RecordIsNew
<1> QED BY <1>7, <1>8, <1>9, <1>10, <1>11 DEF EigenInv

\* The submission is recorded: its fragment has no other that lives.
LEMMA RecordStep ==
  ASSUME EigenInv, RecordSubmission
  PROVE  EigenInv'
<1>1. /\ committerAt = "dispersed" /\ row' = [row EXCEPT ![requestId] = "Processing"]
      /\ committerAt' = "idle" /\ chosen' = 0 /\ requestId' = 0
      /\ UNCHANGED <<daVars, stored, windowStart, listenerVars, throttleVars, faults>>
  BY DEF RecordSubmission, CommitterReset
<1>2. /\ requestId \in RequestIds /\ requestId <= dispersed /\ row \in [RequestIds -> RowStates]
      /\ fragmentOf[requestId] = chosen /\ row[requestId] = "None"
      /\ \A r \in toCheck \cup changes : r.id # requestId
  <2>1. requestId \in 1..dispersed /\ dispersed \in 0..MaxBlobs
    BY <1>1 DEF EigenInv, RecordIsNew, TypeOK
  <2> QED BY <1>1, <2>1, EigenAssumption DEF EigenInv, RecordIsNew, TypeOK, RequestIds
<1>3. row'[requestId] = "Processing" /\ \A i \in RequestIds : i # requestId => row'[i] = row[i]
  BY <1>1, <1>2
<1>4. TypeOK'
  <2>1. row' \in [RequestIds -> RowStates]
    BY <1>1, <1>2 DEF RowStates
  <2> QED BY <1>1, <2>1, EigenAssumption DEF EigenInv, TypeOK, daVars, listenerVars, throttleVars
<1>5. BlobsExist' /\ NewsOfOpenRows' /\ NewsIsTrue' /\ FinalizedIsComplete'
  <2>1. \A r \in toCheck \cup changes : r.id \in RequestIds
    BY DEF EigenInv, TypeOK
  <2> QED BY <1>1, <1>2, <1>3, <2>1
          DEF EigenInv, daVars, listenerVars, BlobsExist, NewsOfOpenRows, NewsIsTrue, FinalizedIsComplete
<1>6. \A i \in RequestIds : fragmentOf[i] = chosen => row[i] \notin Live
  BY <1>1 DEF EigenInv, ChosenIsFree
<1>7. OneLiveSubmission'
  BY <1>1, <1>2, <1>3, <1>6 DEF EigenInv, OneLiveSubmission, Live, daVars
<1>8. ChosenIsFree' /\ RecordIsNew'
  BY <1>1 DEF ChosenIsFree, RecordIsNew
<1> QED BY <1>4, <1>5, <1>7, <1>8 DEF EigenInv

\* Open submissions are listed for the run.
LEMMA ListStep ==
  ASSUME EigenInv, StartRun
  PROVE  EigenInv'
<1>1. /\ UNCHANGED <<daVars, tableVars, committerVars, changes, attempts, throttleVars, faults>>
      /\ listenerAt' = "checking"
      /\ toCheck' = {[id |-> i, status |-> row[i]] : i \in OpenRows}
  BY DEF StartRun
<1>2. \A r \in toCheck' : /\ r.id \in RequestIds /\ r.status = row[r.id]
                         /\ row[r.id] \in {"Processing", "Confirmed"}
                         /\ r \in [id : RequestIds, status : {"Processing", "Confirmed"}]
  BY <1>1 DEF OpenRows
<1>3. TypeOK'
  BY <1>1, <1>2 DEF EigenInv, TypeOK, daVars, tableVars, committerVars, throttleVars
<1>4. NewsOfOpenRows' /\ RecordIsNew'
  BY <1>1, <1>2 DEF EigenInv, BlobsExist, NewsOfOpenRows, RecordIsNew, daVars, tableVars, committerVars
<1> QED BY <1>1, <1>3, <1>4
        DEF EigenInv, BlobsExist, NewsIsTrue, ChosenIsFree, FinalizedIsComplete, OneLiveSubmission,
            daVars, tableVars, committerVars

\* An answer, or what a run that gives up takes for one, is news of an open submission.
LEMMA NewsStep ==
  ASSUME EigenInv, TypeOK', NEW r \in toCheck, NEW status,
         status = "Finalized" => daStatus[r.id] = "Complete",
         toCheck' = toCheck \ {r}, changes' = changes \cup NewsOf(r, status),
         UNCHANGED <<daVars, tableVars, committerVars>>
  PROVE  EigenInv'
<1>1. \A c \in NewsOf(r, status) : c.id = r.id /\ c.status = status
  BY DEF NewsOf
<1>2. \A c \in changes' : c \in changes \/ (c.id = r.id /\ c.status = status)
  BY <1>1
<1>3. NewsOfOpenRows' /\ NewsIsTrue' /\ RecordIsNew'
  BY <1>2 DEF EigenInv, NewsOfOpenRows, NewsIsTrue, RecordIsNew, daVars, tableVars, committerVars
<1> QED BY <1>3
        DEF EigenInv, BlobsExist, ChosenIsFree, FinalizedIsComplete, OneLiveSubmission,
            daVars, tableVars, committerVars

\* A call for the status of a submission is answered.
LEMMA CheckStep ==
  ASSUME EigenInv, CheckStatus
  PROVE  EigenInv'
<1>1. /\ TakeCall /\ attempts' = 0
      /\ UNCHANGED <<daVars, tableVars, committerVars, listenerAt, faults>>
  BY DEF CheckStatus
<1>2. PICK r \in toCheck : /\ changes' = changes \cup NewsOf(r, DispersalStatus(daStatus[r.id]))
                          /\ toCheck' = toCheck \ {r}
  BY DEF CheckStatus
<1> DEFINE status == DispersalStatus(daStatus[r.id])
<1>3. status \in {"Processing", "Confirmed", "Finalized", "Failed"}
      /\ (status = "Finalized" => daStatus[r.id] = "Complete")
  BY DEF DispersalStatus
<1> HIDE DEF status
<1>4. r.id \in RequestIds
  BY DEF EigenInv, TypeOK
<1>5. NewsOf(r, status) \subseteq [id : RequestIds, status : {"Confirmed", "Finalized", "Failed"}]
  BY <1>3, <1>4 DEF NewsOf
<1>6. calls' \in 0..CallsPerSec /\ bytes' = bytes /\ 0 \in 0..(RetryLimit - 1)
  BY <1>1, Tokens, EigenAssumption DEF TakeCall, EigenInv
<1>7. changes' = changes \cup NewsOf(r, status)
  BY <1>2 DEF status
<1>8. TypeOK'
  BY <1>1, <1>2, <1>5, <1>6, <1>7 DEF EigenInv, TypeOK, daVars, tableVars, committerVars
<1>9. toCheck' = toCheck \ {r} /\ UNCHANGED <<daVars, tableVars, committerVars>>
  BY <1>1, <1>2
<1> QED BY <1>3, <1>7, <1>8, <1>9, NewsStep

\* A submission whose status cannot be got counts as failed.
LEMMA GiveUpStep ==
  ASSUME EigenInv, GiveUp
  PROVE  EigenInv'
<1>1. /\ TakeCall /\ attempts' = 0 /\ Fault
      /\ UNCHANGED <<daVars, tableVars, committerVars, listenerAt>>
  BY DEF GiveUp
<1>2. PICK r \in toCheck : changes' = changes \cup NewsOf(r, "Failed") /\ toCheck' = toCheck \ {r}
  BY DEF GiveUp
<1>3. NewsOf(r, "Failed") \subseteq [id : RequestIds, status : {"Confirmed", "Finalized", "Failed"}]
  BY DEF NewsOf, EigenInv, TypeOK
<1>4. calls' \in 0..CallsPerSec /\ bytes' = bytes /\ faults' \in 0..MaxFaults /\ 0 \in 0..(RetryLimit - 1)
  BY <1>1, Tokens, EigenAssumption DEF TakeCall, Fault, EigenInv
<1>5. TypeOK'
  BY <1>1, <1>2, <1>3, <1>4 DEF EigenInv, TypeOK, daVars, tableVars, committerVars
<1> QED BY <1>1, <1>2, <1>5, NewsStep

\* The write of a run changes open submissions only, to what is true of them.
LEMMA Written ==
  ASSUME EigenInv, row' = Updated(row, changes)
  PROVE  /\ row' \in [RequestIds -> RowStates]
         /\ \A i \in RequestIds :
              \/ row'[i] = row[i]
              \/ /\ row[i] \in {"Processing", "Confirmed"} /\ row'[i] \in {"Confirmed", "Finalized", "Failed"}
                 /\ row'[i] = "Finalized" => daStatus[i] = "Complete"
<1>1. \A i \in RequestIds :
        \/ row'[i] = row[i]
        \/ /\ row[i] # "None"
           /\ \E c \in changes : c.id = i /\ row'[i] = c.status
  <2>1. SUFFICES ASSUME NEW i \in RequestIds, row'[i] # row[i]
                 PROVE  row[i] # "None" /\ \E c \in changes : c.id = i /\ row'[i] = c.status
    OBVIOUS
  <2>2. /\ row[i] # "None" /\ \E c \in changes : c.id = i
        /\ row'[i] = (CHOOSE c \in changes : c.id = i).status
    BY <2>1 DEF Updated
  <2> QED BY <2>2
<1>2. \A c \in changes :
        /\ c.status \in {"Confirmed", "Finalized", "Failed"}
        /\ row[c.id] \in {"None", "Processing", "Confirmed"}
        /\ c.status = "Finalized" => daStatus[c.id] = "Complete"
  BY DEF EigenInv, TypeOK, NewsOfOpenRows, NewsIsTrue
<1>3. \A i \in RequestIds :
        \/ row'[i] = row[i]
        \/ /\ row[i] \in {"Processing", "Confirmed"} /\ row'[i] \in {"Confirmed", "Finalized", "Failed"}
           /\ row'[i] = "Finalized" => daStatus[i] = "Complete"
  <2>1. SUFFICES ASSUME NEW i \in RequestIds, row'[i] # row[i]
                 PROVE  /\ row[i] \in {"Processing", "Confirmed"}
                        /\ row'[i] \in {"Confirmed", "Finalized", "Failed"}
                        /\ row'[i] = "Finalized" => daStatus[i] = "Complete"
    OBVIOUS
  <2>2. row[i] # "None"
    BY <1>1, <2>1
  <2>3. PICK c \in changes : c.id = i /\ row'[i] = c.status
    BY <1>1, <2>1
  <2>4. /\ c.status \in {"Confirmed", "Finalized", "Failed"}
        /\ row[c.id] \in {"None", "Processing", "Confirmed"}
        /\ c.status = "Finalized" => daStatus[c.id] = "Complete"
    BY <1>2, Zenon
  <2>5. c.id = i /\ row'[i] = c.status
    BY <2>3
  <2> QED BY <2>2, <2>4, <2>5
<1>4. row' \in [RequestIds -> RowStates]
  <2>1. row' = [i \in RequestIds |-> row'[i]]
    BY DEF Updated
  <2>2. \A i \in RequestIds : row'[i] \in RowStates
    BY <1>3 DEF EigenInv, TypeOK, RowStates
  <2> QED BY <2>1, <2>2
<1> QED BY <1>3, <1>4

\* The write leaves alone what the committer is about to record.
LEMMA WriteStep ==
  ASSUME EigenInv, WriteChanges
  PROVE  EigenInv'
<1>1. /\ row' = Updated(row, changes)
      /\ listenerAt' = "idle" /\ toCheck' = {} /\ changes' = {} /\ attempts' = 0
      /\ UNCHANGED <<daVars, stored, windowStart, committerVars, throttleVars, faults>>
  BY DEF WriteChanges, ListenerReset
<1>2. TypeOK'
  BY <1>1, Written, EigenAssumption DEF EigenInv, TypeOK, daVars, committerVars, throttleVars
<1>3. \A i \in RequestIds : /\ row'[i] \in Live => row[i] \in Live
                            /\ row'[i] = "None" <=> row[i] = "None"
                            /\ row'[i] = "Finalized" => daStatus[i] = "Complete"
  BY <1>1, Written DEF EigenInv, FinalizedIsComplete, Live
<1>4. BlobsExist' /\ NewsOfOpenRows' /\ NewsIsTrue' /\ FinalizedIsComplete'
  BY <1>1, <1>3 DEF EigenInv, BlobsExist, NewsOfOpenRows, NewsIsTrue, FinalizedIsComplete, daVars
<1>5. OneLiveSubmission' /\ ChosenIsFree'
  BY <1>1, <1>3 DEF EigenInv, OneLiveSubmission, ChosenIsFree, Live, daVars, committerVars
<1>6. RecordIsNew'
  <2>1. committerAt = "dispersed" => requestId \in RequestIds
    BY EigenAssumption DEF EigenInv, RecordIsNew, TypeOK, RequestIds
  <2> QED BY <1>1, <1>3, <2>1 DEF EigenInv, RecordIsNew, daVars, committerVars
<1> QED BY <1>2, <1>4, <1>5, <1>6 DEF EigenInv

\* The pruner takes a submission away from under both.
LEMMA PruneStep ==
  ASSUME EigenInv, PruneSubmission
  PROVE  EigenInv'
<1>1. PICK n \in RequestIds : row' = [row EXCEPT ![n] = "None"]
  BY DEF PruneSubmission
<1>2. Fault /\ UNCHANGED <<daVars, stored, windowStart, committerVars, listenerVars, throttleVars>>
  BY DEF PruneSubmission
<1>3. row' \in [RequestIds -> RowStates] /\ \A i \in RequestIds : row'[i] \in {row[i], "None"}
  BY <1>1 DEF EigenInv, TypeOK, RowStates
<1>4. TypeOK'
  BY <1>2, <1>3, Tokens DEF Fault, EigenInv, TypeOK, daVars, committerVars, listenerVars, throttleVars
<1>5. BlobsExist' /\ FinalizedIsComplete' /\ OneLiveSubmission' /\ NewsIsTrue' /\ ChosenIsFree'
  BY <1>2, <1>3
     DEF EigenInv, BlobsExist, FinalizedIsComplete, OneLiveSubmission, NewsIsTrue, ChosenIsFree, Live,
         daVars, committerVars, listenerVars
<1>6. NewsOfOpenRows'
  <2>1. \A r \in toCheck \cup changes : r.id \in RequestIds
    BY DEF EigenInv, TypeOK
  <2> QED BY <1>2, <1>3, <2>1 DEF EigenInv, NewsOfOpenRows, daVars, listenerVars
<1>7. RecordIsNew'
  <2>1. committerAt = "dispersed" => requestId \in RequestIds
    BY EigenAssumption DEF EigenInv, RecordIsNew, TypeOK, RequestIds
  <2> QED BY <1>2, <1>3, <2>1 DEF EigenInv, RecordIsNew, daVars, committerVars, listenerVars
<1> QED BY <1>4, <1>5, <1>6, <1>7 DEF EigenInv

\* What is complete stays complete, and only blobs dispersed make progress.
LEMMA DisperserStep ==
  ASSUME EigenInv, Progress \/ BlobFails
  PROVE  EigenInv'
<1>1. PICK n \in RequestIds, status \in {"GatheringSignatures", "Complete", "Failed"} :
        /\ daStatus[n] \in {"Queued", "GatheringSignatures"}
        /\ daStatus' = [daStatus EXCEPT ![n] = status]
  BY DEF Progress, BlobFails
<1>2. /\ UNCHANGED <<dispersed, fragmentOf, tableVars, committerVars, listenerVars, throttleVars>>
      /\ faults' \in 0..MaxFaults
  BY Tokens DEF Progress, BlobFails, Fault, EigenInv, TypeOK
<1>3. /\ daStatus' \in [RequestIds -> {"NotSent", "Queued", "GatheringSignatures", "Complete", "Failed"}]
      /\ \A i \in RequestIds : /\ daStatus'[i] = "NotSent" <=> daStatus[i] = "NotSent"
                               /\ daStatus[i] = "Complete" => daStatus'[i] = "Complete"
  BY <1>1 DEF EigenInv, TypeOK
<1>4. TypeOK'
  BY <1>2, <1>3 DEF EigenInv, TypeOK, tableVars, committerVars, listenerVars, throttleVars
<1>5. NewsIsTrue'
  <2>1. \A c \in changes : c.id \in RequestIds
    BY DEF EigenInv, TypeOK
  <2> QED BY <1>2, <1>3, <2>1 DEF EigenInv, NewsIsTrue, listenerVars
<1> QED BY <1>2, <1>3, <1>4, <1>5
        DEF EigenInv, BlobsExist, NewsOfOpenRows, ChosenIsFree, RecordIsNew, FinalizedIsComplete,
            OneLiveSubmission, tableVars, committerVars, listenerVars

\* Steps that leave the disperser and the rows alone, and what the runs hold or lose it.
LEMMA OtherSteps ==
  ASSUME EigenInv,
         WaitForCall \/ WaitForBytes \/ RecordFails \/ CallFails \/ ListenerError
           \/ RefillCalls \/ RefillBytes \/ StoreFragment \/ WindowMoves \/ Crash \/ UNCHANGED vars
  PROVE  EigenInv'
<1>1. /\ 0 \in 0..NumFragments /\ 0 \in 0..MaxBlobs /\ 0 \in 0..(RetryLimit - 1)
      /\ CallsPerSec \in 0..CallsPerSec /\ MaxBurst \in 0..MaxBurst
  BY EigenAssumption
<1>2. CASE WaitForCall \/ WaitForBytes
  <2>1. /\ UNCHANGED <<daVars, tableVars, chosen, requestId, listenerVars, faults>>
        /\ committerAt \in {"throttled", "sized"} /\ committerAt' \in {"sized", "sending"}
        /\ calls' \in 0..CallsPerSec /\ bytes' \in 0..MaxBurst
    BY <1>2, Tokens DEF WaitForCall, WaitForBytes, TakeCall, EigenInv
  <2>2. TypeOK'
    BY <2>1 DEF EigenInv, TypeOK, daVars, tableVars, listenerVars
  <2> QED BY <2>1, <2>2
          DEF EigenInv, BlobsExist, NewsOfOpenRows, NewsIsTrue, ChosenIsFree, RecordIsNew,
              FinalizedIsComplete, OneLiveSubmission, daVars, tableVars, listenerVars
<1>3. CASE RecordFails \/ ListenerError \/ Crash
  <2>1. faults' \in 0..MaxFaults
    BY <1>3, Tokens DEF RecordFails, ListenerError, Crash, Fault, EigenInv
  <2>2. TypeOK'
    BY <1>1, <1>3, <2>1
       DEF RecordFails, ListenerError, Crash, CommitterReset, ListenerReset, EigenInv, TypeOK,
           daVars, tableVars, committerVars, listenerVars, throttleVars
  <2> QED BY <1>3, <2>2, LosingStep
          DEF RecordFails, ListenerError, Crash, CommitterReset, ListenerReset,
              daVars, tableVars, committerVars, listenerVars
<1>4. CASE CallFails
  <2>1. attempts' \in 0..(RetryLimit - 1) /\ calls' \in 0..CallsPerSec /\ bytes' = bytes
    BY <1>4, Tokens, EigenAssumption DEF CallFails, TakeCall, EigenInv, TypeOK
  <2>2. TypeOK'
    BY <1>4, <2>1 DEF CallFails, EigenInv, TypeOK, daVars, tableVars, committerVars
  <2> QED BY <1>4, <2>2, QuietStep DEF CallFails, tableVars, committerVars
<1>5. CASE RefillCalls \/ RefillBytes
  <2>1. calls' \in 0..CallsPerSec /\ bytes' \in 0..MaxBurst
    BY <1>5, Tokens DEF RefillCalls, RefillBytes, EigenInv
  <2>2. UNCHANGED <<daVars, tableVars, committerVars, listenerVars, faults>>
    BY <1>5 DEF RefillCalls, RefillBytes
  <2>3. TypeOK'
    BY <2>1, <2>2 DEF EigenInv, TypeOK, daVars, tableVars, committerVars, listenerVars
  <2> QED BY <2>2, <2>3, QuietStep DEF tableVars, committerVars, listenerVars
<1>6. CASE StoreFragment \/ WindowMoves
  <2>1. stored' \in 0..NumFragments /\ windowStart' \in 1..(NumFragments + 1)
    BY <1>6, EigenAssumption DEF StoreFragment, WindowMoves, EigenInv, TypeOK
  <2>2. UNCHANGED <<daVars, row, committerVars, listenerVars, throttleVars, faults>>
    BY <1>6 DEF StoreFragment, WindowMoves
  <2>3. TypeOK'
    BY <2>1, <2>2 DEF EigenInv, TypeOK, daVars, committerVars, listenerVars, throttleVars
  <2> QED BY <2>2, <2>3, QuietStep DEF committerVars, listenerVars
<1>7. CASE UNCHANGED vars
  <2>1. TypeOK'
    BY <1>7 DEF EigenInv, TypeOK, vars, daVars, tableVars, committerVars, listenerVars, throttleVars
  <2> QED BY <1>7, <2>1, QuietStep DEF vars, tableVars, committerVars, listenerVars
<1> QED BY <1>2, <1>3, <1>4, <1>5, <1>6, <1>7

\* The committer hands a blob to the disperser, with or without an answer.
LEMMA DispatchStep ==
  ASSUME EigenInv, DispatchBlob \/ DispatchFails
  PROVE  EigenInv'
<1>1. /\ committerAt = "sending" /\ (Disperse \/ UNCHANGED daVars)
      /\ UNCHANGED <<tableVars, listenerVars, throttleVars>>
      /\ \/ committerAt' = "idle" /\ chosen' = 0 /\ requestId' = 0
         \/ Disperse /\ committerAt' = "dispersed" /\ chosen' = chosen /\ requestId' = dispersed + 1
  BY DEF DispatchBlob, DispatchFails, CommitterReset
<1>2. faults' \in 0..MaxFaults
  BY Tokens DEF DispatchBlob, DispatchFails, Fault, EigenInv, TypeOK
<1>3. CASE Disperse
  <2>1. /\ dispersed' = dispersed + 1 /\ dispersed' \in 0..MaxBlobs
        /\ daStatus' \in [RequestIds -> {"NotSent", "Queued", "GatheringSignatures", "Complete", "Failed"}]
        /\ fragmentOf' \in [RequestIds -> 0..NumFragments]
    <3>1. dispersed < MaxBlobs /\ dispersed \in 0..MaxBlobs /\ dispersed' = dispersed + 1
      BY <1>3 DEF Disperse, EigenInv, TypeOK
    <3>2. dispersed' \in 0..MaxBlobs
      BY <3>1, EigenAssumption
    <3>3. daStatus' \in [RequestIds -> {"NotSent", "Queued", "GatheringSignatures", "Complete", "Failed"}]
      BY <1>3 DEF Disperse, EigenInv, TypeOK
    <3>4. fragmentOf' \in [RequestIds -> 0..NumFragments]
      BY <1>3 DEF Disperse, EigenInv, TypeOK
    <3> QED BY <3>1, <3>2, <3>3, <3>4
  <2>2. chosen' \in 0..NumFragments /\ requestId' \in 0..MaxBlobs
    BY <1>1, <2>1, EigenAssumption DEF EigenInv, TypeOK
  <2>3. TypeOK'
    BY <1>1, <1>2, <2>1, <2>2 DEF EigenInv, TypeOK, tableVars, listenerVars, throttleVars
  <2> QED BY <1>1, <1>3, <2>3, DisperseStep DEF tableVars, listenerVars
<1>4. CASE ~Disperse
  <2>1. TypeOK'
    BY <1>1, <1>2, <1>4, EigenAssumption
       DEF EigenInv, TypeOK, daVars, tableVars, listenerVars, throttleVars
  <2> QED BY <1>1, <1>4, <2>1, LosingStep DEF tableVars, listenerVars
<1> QED BY <1>3, <1>4

-----------------------------------------------------------------------------
(* The theorems.                                                           *)

\* Every step preserves the invariant.
LEMMA EigenStep ==
  ASSUME EigenInv, [Next]_vars
  PROVE  EigenInv'
BY ChooseStep, DispatchStep, RecordStep, ListStep, CheckStep, GiveUpStep, WriteStep, PruneStep,
   DisperserStep, OtherSteps DEF Next, CommitterStep, ListenerStep

\* The inductive invariant: what each task relies on between two of its steps.
THEOREM EigenInvariance == Spec => []EigenInv
<1>1. Init => EigenInv
  BY InitEigen
<1>2. EigenInv /\ [Next]_vars => EigenInv'
  BY EigenStep
<1> QED BY <1>1, <1>2, PTL DEF Spec

\* The types of the tables and of the runs' memory, and the bounds of the limiters.
THEOREM EigenTypes == Spec => []TypeOK
<1>1. EigenInv => TypeOK
  BY DEF EigenInv
<1> QED BY <1>1, EigenInvariance, PTL

\* A submission is finalized only if the disperser has the certificate.
THEOREM FinalizedHasCertificate == Spec => []FinalizedIsComplete
<1>1. EigenInv => FinalizedIsComplete
  BY DEF EigenInv
<1> QED BY <1>1, EigenInvariance, PTL

\* No fragment has two submissions that are open or finalized.
THEOREM SubmissionIsOnly == Spec => []OneLiveSubmission
<1>1. EigenInv => OneLiveSubmission
  BY DEF EigenInv
<1> QED BY <1>1, EigenInvariance, PTL

\* Only the listener's write, the committer's record and the pruner touch a row.
LEMMA RowsWritten ==
  ASSUME [Next]_vars, row' # row
  PROVE  RecordSubmission \/ WriteChanges \/ PruneSubmission
BY DEF Next, CommitterStep, ListenerStep, ChooseFragment, WaitForCall, WaitForBytes, DispatchBlob,
       DispatchFails, RecordFails, StartRun, CheckStatus, CallFails, GiveUp, ListenerError, RefillCalls,
       RefillBytes, StoreFragment, WindowMoves, Progress, BlobFails, Crash, vars, tableVars

\* What is finalized or has failed stays so until it is pruned.
THEOREM SettledSubmissionsStay == Spec => SettledForever
<1>1. EigenInv /\ [Next]_vars =>
        [\A i \in RequestIds : row[i] \in {"Finalized", "Failed"} => row'[i] \in {row[i], "None"}]_vars
  <2>1. SUFFICES ASSUME EigenInv, [Next]_vars, NEW i \in RequestIds, row[i] \in {"Finalized", "Failed"}
                 PROVE  row'[i] \in {row[i], "None"}
    OBVIOUS
  <2>2. CASE RecordSubmission
    <3>1. row[requestId] = "None" /\ row' = [row EXCEPT ![requestId] = "Processing"]
      BY <2>1, <2>2 DEF RecordSubmission, EigenInv, RecordIsNew
    <3> QED BY <2>1, <3>1 DEF EigenInv, TypeOK
  <2>3. CASE WriteChanges
    BY <2>1, <2>3, Written DEF WriteChanges
  <2>4. CASE PruneSubmission
    BY <2>1, <2>4 DEF PruneSubmission, EigenInv, TypeOK
  <2> QED BY <2>1, <2>2, <2>3, <2>4, RowsWritten
<1> QED BY <1>1, EigenInvariance, PTL DEF Spec, SettledForever

-----------------------------------------------------------------------------
(* Why a fragment is dispersed again.                                      *)

\* The blobs that bring their fragment no further: the disperser has failed them, they
\* count as failed, or the table does not have them (any more) and never will.
Lost ==
  {i \in 1..dispersed :
     \/ daStatus[i] = "Failed"
     \/ row[i] = "Failed"
     \/ \E c \in changes : c.id = i /\ c.status = "Failed"
     \/ row[i] = "None" /\ ~(committerAt = "dispersed" /\ requestId = i)}

\* Each of them has a fault of its own behind it.
LossesAreFaults == Cardinality(Lost) <= faults

\* The lost blobs are finitely many.
LEMMA LostIsFinite ==
  ASSUME TypeOK
  PROVE  IsFiniteSet(Lost) /\ Cardinality(Lost) \in Nat
<1>1. dispersed \in Nat /\ IsFiniteSet(1..dispersed)
  BY FS_Interval, EigenAssumption DEF TypeOK
<1>2. Lost \in SUBSET (1..dispersed)
  BY DEF Lost
<1> QED BY <1>1, <1>2, FS_Subset, FS_CardinalityType

\* A step may lose one blob if it is a fault, and none otherwise.
LEMMA LossStep ==
  ASSUME EigenInv, LossesAreFaults, TypeOK', NEW x,
         \/ Lost' \subseteq Lost /\ faults' = faults
         \/ Lost' \subseteq Lost \cup {x} /\ faults' = faults + 1
  PROVE  LossesAreFaults'
<1>1. /\ IsFiniteSet(Lost) /\ Cardinality(Lost) \in Nat
      /\ IsFiniteSet(Lost') /\ Cardinality(Lost') \in Nat
  <2>1. IsFiniteSet(Lost) /\ Cardinality(Lost) \in Nat
    BY LostIsFinite DEF EigenInv
  <2>2. dispersed' \in Nat /\ IsFiniteSet(1..dispersed') /\ Lost' \in SUBSET (1..dispersed')
    BY FS_Interval, EigenAssumption DEF TypeOK, Lost
  <2>3. IsFiniteSet(Lost') /\ Cardinality(Lost') \in Nat
    BY <2>2, FS_Subset, FS_CardinalityType
  <2> QED BY <2>1, <2>3
<1>2. faults \in Nat /\ faults' \in Nat
  BY EigenAssumption DEF EigenInv, TypeOK
<1>3. CASE Lost' \subseteq Lost /\ faults' = faults
  <2>1. Cardinality(Lost') <= Cardinality(Lost)
    BY <1>1, <1>3, FS_Subset
  <2> QED BY <1>1, <1>2, <1>3, <2>1 DEF LossesAreFaults
<1>4. CASE Lost' \subseteq Lost \cup {x} /\ faults' = faults + 1
  <2>1. IsFiniteSet(Lost \cup {x}) /\ Cardinality(Lost \cup {x}) <= Cardinality(Lost) + 1
    BY <1>1, FS_AddElement
  <2>2. Cardinality(Lost') <= Cardinality(Lost \cup {x}) /\ Cardinality(Lost \cup {x}) \in Nat
    BY <1>4, <2>1, FS_Subset, FS_CardinalityType
  <2> QED BY <1>1, <1>2, <1>4, <2>1, <2>2 DEF LossesAreFaults
<1> QED BY <1>3, <1>4

\* Of the committer's steps only the failing ones lose a blob, the one not recorded.
LEMMA CommitterLosses ==
  ASSUME EigenInv, EigenInv', LossesAreFaults,
         CommitterStep \/ DispatchFails \/ RecordFails
  PROVE  LossesAreFaults'
<1>1. dispersed \in Nat /\ dispersed <= MaxBlobs /\ MaxBlobs \in Nat
  BY EigenAssumption DEF EigenInv, TypeOK
<1>2. TypeOK /\ TypeOK'
  BY DEF EigenInv
<1>3. CASE ChooseFragment \/ WaitForCall \/ WaitForBytes
  <2>1. /\ UNCHANGED <<daVars, tableVars, requestId, listenerVars, faults>>
        /\ committerAt # "dispersed" /\ committerAt' # "dispersed"
    BY <1>3 DEF ChooseFragment, WaitForCall, WaitForBytes
  <2>2. Lost' \subseteq Lost
    BY <2>1 DEF Lost, daVars, tableVars, listenerVars
  <2> QED BY <1>2, <2>1, <2>2, LossStep
<1>4. CASE DispatchBlob \/ DispatchFails
  <2>1. /\ committerAt = "sending" /\ UNCHANGED <<tableVars, listenerVars>>
        /\ Disperse \/ UNCHANGED daVars
    BY <1>4 DEF DispatchBlob, DispatchFails
  <2>2. Disperse => /\ dispersed' = dispersed + 1
                    /\ daStatus' = [daStatus EXCEPT ![dispersed + 1] = "Queued"]
    BY DEF Disperse
  <2>3. \A i \in 1..dispersed : i \in RequestIds /\ i # dispersed + 1
    BY <1>1 DEF RequestIds
  <2>4. \A i \in 1..dispersed : daStatus'[i] = daStatus[i]
    BY <1>2, <2>1, <2>2, <2>3 DEF TypeOK, daVars
  <2>5. \A i \in Lost' : i \in 1..dispersed => i \in Lost
    BY <2>1, <2>4 DEF Lost, tableVars, listenerVars
  <2>6. \A i \in Lost' : i \in 1..dispersed \/ i = dispersed + 1
    <3>1. \A i \in Lost' : i \in 1..dispersed'
      BY DEF Lost
    <3> QED BY <1>1, <2>1, <2>2, <3>1 DEF daVars
  <2>7. CASE DispatchFails
    <3>1. faults' = faults + 1
      BY <2>7 DEF DispatchFails, Fault
    <3> QED BY <1>2, <2>5, <2>6, <3>1, LossStep
  <2>8. CASE DispatchBlob
    <3>1. Disperse /\ requestId' = dispersed + 1 /\ committerAt' = "dispersed" /\ faults' = faults
      BY <2>8 DEF DispatchBlob
    <3>2. dispersed + 1 \in RequestIds
      BY <1>1, <3>1 DEF Disperse, RequestIds
    <3>3. daStatus'[dispersed + 1] = "Queued" /\ row'[dispersed + 1] = "None"
      <4>1. row[dispersed + 1] = "None"
        BY <1>1, <3>2 DEF EigenInv, BlobsExist
      <4> QED BY <1>2, <2>1, <2>2, <3>1, <3>2, <4>1 DEF TypeOK, tableVars
    <3>4. ~ \E c \in changes' : c.id = dispersed + 1
      <4>1. \A c \in changes : c.id <= dispersed
        BY DEF EigenInv, NewsOfOpenRows
      <4> QED BY <1>1, <2>1, <4>1 DEF listenerVars
    <3>5. dispersed + 1 \notin Lost'
      BY <3>1, <3>3, <3>4 DEF Lost
    <3> QED BY <1>2, <2>5, <2>6, <3>1, <3>5, LossStep
  <2> QED BY <1>4, <2>7, <2>8
<1>5. CASE RecordSubmission
  <2>1. /\ UNCHANGED <<daVars, listenerVars, faults>> /\ committerAt = "dispersed"
        /\ row' = [row EXCEPT ![requestId] = "Processing"]
    BY <1>5 DEF RecordSubmission
  <2>2. \A i \in 1..dispersed : i \in RequestIds
    BY <1>1 DEF RequestIds
  <2>3. \A i \in 1..dispersed : row'[i] = IF i = requestId THEN "Processing" ELSE row[i]
    BY <1>2, <2>1, <2>2 DEF TypeOK
  <2>4. Lost' \subseteq Lost
    BY <2>1, <2>3 DEF Lost, daVars, listenerVars
  <2> QED BY <1>2, <2>1, <2>4, LossStep
<1>6. CASE RecordFails
  <2>1. faults' = faults + 1 /\ UNCHANGED <<daVars, tableVars, listenerVars>>
    BY <1>6 DEF RecordFails, Fault
  <2>2. Lost' \subseteq Lost \cup {requestId}
    BY <2>1 DEF Lost, daVars, tableVars, listenerVars
  <2> QED BY <1>2, <2>1, <2>2, LossStep
<1> QED BY <1>3, <1>4, <1>5, <1>6 DEF CommitterStep

\* The listener loses a blob when it gives up on it; it calls others failed that are.
LEMMA ListenerLosses ==
  ASSUME EigenInv, EigenInv', LossesAreFaults,
         ListenerStep \/ CallFails \/ GiveUp \/ ListenerError
  PROVE  LossesAreFaults'
<1>1. TypeOK /\ TypeOK'
  BY DEF EigenInv
<1>2. CASE StartRun \/ CallFails
  <2>1. UNCHANGED <<daVars, tableVars, committerVars, changes, faults>>
    BY <1>2 DEF StartRun, CallFails
  <2>2. Lost' \subseteq Lost
    BY <2>1 DEF Lost, daVars, tableVars, committerVars
  <2> QED BY <1>1, <2>1, <2>2, LossStep
<1>3. CASE CheckStatus
  <2>1. PICK r \in toCheck : changes' = changes \cup NewsOf(r, DispersalStatus(daStatus[r.id]))
    BY <1>3 DEF CheckStatus
  <2>2. UNCHANGED <<daVars, tableVars, committerVars, faults>>
    BY <1>3 DEF CheckStatus
  <2>3. DispersalStatus(daStatus[r.id]) = "Failed" => daStatus[r.id] = "Failed"
    BY DEF DispersalStatus
  <2>4. \A c \in changes' : c.status = "Failed" => c \in changes \/ daStatus[c.id] = "Failed"
    BY <2>1, <2>3 DEF NewsOf
  <2>5. Lost' \subseteq Lost
    BY <2>2, <2>4 DEF Lost, daVars, tableVars, committerVars
  <2> QED BY <1>1, <2>2, <2>5, LossStep
<1>4. CASE GiveUp
  <2>1. PICK r \in toCheck : changes' = changes \cup NewsOf(r, "Failed")
    BY <1>4 DEF GiveUp
  <2>2. faults' = faults + 1 /\ UNCHANGED <<daVars, tableVars, committerVars>>
    BY <1>4 DEF GiveUp, Fault
  <2>3. \A c \in changes' : c \in changes \/ c.id = r.id
    BY <2>1 DEF NewsOf
  <2>4. Lost' \subseteq Lost \cup {r.id}
    BY <2>2, <2>3 DEF Lost, daVars, tableVars, committerVars
  <2> QED BY <1>1, <2>2, <2>4, LossStep
<1>5. CASE WriteChanges
  <2>1. /\ UNCHANGED <<daVars, committerVars, faults>>
        /\ row' = Updated(row, changes) /\ changes' = {}
    BY <1>5 DEF WriteChanges, ListenerReset
  <2>2. \A i \in 1..dispersed : i \in RequestIds
    BY <1>1, EigenAssumption DEF RequestIds, TypeOK
  <2>3. \A i \in RequestIds : row[i] = "None" \/ row'[i] # "None"
    BY <1>1, <2>1, Written
  <2>4. \A i \in RequestIds : row'[i] = "Failed" =>
          row[i] = "Failed" \/ \E c \in changes : c.id = i /\ c.status = "Failed"
    <3>1. SUFFICES ASSUME NEW i \in RequestIds, row'[i] = "Failed", row[i] # "Failed"
                   PROVE  \E c \in changes : c.id = i /\ c.status = "Failed"
      OBVIOUS
    <3>2. /\ \E c \in changes : c.id = i
          /\ row'[i] = (CHOOSE c \in changes : c.id = i).status
      BY <2>1, <3>1 DEF Updated
    <3> QED BY <3>1, <3>2
  <2>5. Lost' \subseteq Lost
    <3>1. SUFFICES ASSUME NEW i \in Lost' PROVE i \in Lost
      OBVIOUS
    <3>2. i \in 1..dispersed /\ i \in RequestIds
      BY <2>1, <2>2 DEF Lost, daVars
    <3>3. \/ daStatus[i] = "Failed" \/ row'[i] = "Failed"
          \/ row'[i] = "None" /\ ~(committerAt = "dispersed" /\ requestId = i)
      BY <2>1 DEF Lost, daVars, committerVars
    <3> QED BY <2>3, <2>4, <3>2, <3>3 DEF Lost
  <2> QED BY <1>1, <2>1, <2>5, LossStep
<1>6. CASE ListenerError
  <2>1. faults' = faults + 1 /\ changes' = {} /\ UNCHANGED <<daVars, tableVars, committerVars>>
    BY <1>6 DEF ListenerError, ListenerReset, Fault
  <2>2. Lost' \subseteq Lost \cup {0}
    BY <2>1 DEF Lost, daVars, tableVars, committerVars
  <2> QED BY <1>1, <2>1, <2>2, LossStep
<1> QED BY <1>2, <1>3, <1>4, <1>5, <1>6 DEF ListenerStep

\* The others lose one blob at a time.
LEMMA OtherLosses ==
  ASSUME EigenInv, EigenInv', LossesAreFaults,
         \/ RefillCalls \/ RefillBytes \/ StoreFragment \/ WindowMoves \/ Progress
         \/ BlobFails \/ PruneSubmission \/ Crash \/ UNCHANGED vars
  PROVE  LossesAreFaults'
<1>1. TypeOK /\ TypeOK'
  BY DEF EigenInv
<1>2. \A i \in 1..dispersed : i \in RequestIds
  BY <1>1, EigenAssumption DEF RequestIds, TypeOK
<1>3. CASE RefillCalls \/ RefillBytes \/ StoreFragment \/ WindowMoves \/ UNCHANGED vars
  <2>1. UNCHANGED <<daVars, row, committerVars, listenerVars, faults>>
    BY <1>3 DEF RefillCalls, RefillBytes, StoreFragment, WindowMoves, vars, tableVars
  <2>2. Lost' \subseteq Lost
    BY <2>1 DEF Lost, daVars, committerVars, listenerVars
  <2> QED BY <1>1, <2>1, <2>2, LossStep
<1>4. CASE Progress
  <2>1. UNCHANGED <<dispersed, tableVars, committerVars, listenerVars, faults>>
    BY <1>4 DEF Progress
  <2>2. \A i \in RequestIds : daStatus'[i] = "Failed" => daStatus[i] = "Failed"
    BY <1>1, <1>4 DEF Progress, TypeOK
  <2>3. Lost' \subseteq Lost
    BY <1>2, <2>1, <2>2 DEF Lost, tableVars, committerVars, listenerVars
  <2> QED BY <1>1, <2>1, <2>3, LossStep
<1>5. CASE BlobFails
  <2>1. /\ faults' = faults + 1
        /\ UNCHANGED <<dispersed, tableVars, committerVars, listenerVars>>
    BY <1>5 DEF BlobFails, Fault
  <2>2. PICK n \in RequestIds : daStatus' = [daStatus EXCEPT ![n] = "Failed"]
    BY <1>5 DEF BlobFails
  <2>3. \A i \in RequestIds : i # n => daStatus'[i] = daStatus[i]
    BY <1>1, <2>2 DEF TypeOK
  <2>4. Lost' \subseteq Lost \cup {n}
    BY <1>2, <2>1, <2>3 DEF Lost, tableVars, committerVars, listenerVars
  <2> QED BY <1>1, <2>1, <2>4, LossStep
<1>6. CASE PruneSubmission
  <2>1. faults' = faults + 1 /\ UNCHANGED <<daVars, committerVars, listenerVars>>
    BY <1>6 DEF PruneSubmission, Fault
  <2>2. PICK n \in RequestIds : row' = [row EXCEPT ![n] = "None"]
    BY <1>6 DEF PruneSubmission
  <2>3. \A i \in RequestIds : i # n => row'[i] = row[i]
    BY <1>1, <2>2 DEF TypeOK
  <2>4. Lost' \subseteq Lost \cup {n}
    BY <1>2, <2>1, <2>3 DEF Lost, daVars, committerVars, listenerVars
  <2> QED BY <1>1, <2>1, <2>4, LossStep
<1>7. CASE Crash
  <2>1. faults' = faults + 1 /\ changes' = {} /\ UNCHANGED <<daVars, tableVars>>
    BY <1>7 DEF Crash, ListenerReset, Fault
  <2>2. Lost' \subseteq Lost \cup {requestId}
    BY <2>1 DEF Lost, daVars, tableVars
  <2> QED BY <1>1, <2>1, <2>2, LossStep
<1> QED BY <1>3, <1>4, <1>5, <1>6, <1>7

\* Of the blobs that carry a fragment at most one is not lost: it has an open or a
\* finalized submission, or is the one about to be recorded.
LEMMA OneIsNotLost ==
  ASSUME EigenInv, NEW i \in 1..dispersed, NEW j \in 1..dispersed,
         i \notin Lost, j \notin Lost, fragmentOf[i] = fragmentOf[j]
  PROVE  i = j
<1>1. i \in RequestIds /\ j \in RequestIds
  BY EigenAssumption DEF RequestIds, EigenInv, TypeOK
<1>2. \A k \in {i, j} : row[k] \in Live \/ (committerAt = "dispersed" /\ requestId = k)
  BY <1>1 DEF Lost, Live, EigenInv, TypeOK, RowStates
<1>3. row[i] \in Live /\ row[j] \in Live => i = j
  BY <1>1 DEF EigenInv, OneLiveSubmission, Live
<1>4. \A k, l \in {i, j} : ~(row[k] \in Live /\ committerAt = "dispersed" /\ requestId = l)
  BY <1>1 DEF EigenInv, ChosenIsFree, RecordIsNew
<1> QED BY <1>2, <1>3, <1>4

\* Every blob of a fragment but one is lost, hence has its fault.
LEMMA LossesExplainRepeats ==
  ASSUME EigenInv, LossesAreFaults
  PROVE  RepeatsAreFaults
<1>1. SUFFICES ASSUME NEW f \in Fragments
               PROVE  Cardinality({i \in 1..dispersed : fragmentOf[i] = f}) <= 1 + faults
  BY DEF RepeatsAreFaults
<1> DEFINE Carriers == {i \in 1..dispersed : fragmentOf[i] = f}
<1>2. faults \in Nat /\ IsFiniteSet(Lost) /\ Cardinality(Lost) \in Nat
  BY LostIsFinite, EigenAssumption DEF EigenInv, TypeOK
<1>3. \E x : Carriers \subseteq Lost \cup {x}
  <2>1. CASE Carriers \subseteq Lost
    BY <2>1
  <2>2. CASE \E x \in Carriers : x \notin Lost
    BY <2>2, OneIsNotLost
  <2> QED BY <2>1, <2>2
<1>4. PICK x : Carriers \subseteq Lost \cup {x}
  BY <1>3
<1>5. IsFiniteSet(Lost \cup {x}) /\ Cardinality(Lost \cup {x}) <= Cardinality(Lost) + 1
  <2>1. /\ IsFiniteSet(Lost \cup {x})
        /\ Cardinality(Lost \cup {x}) = IF x \in Lost THEN Cardinality(Lost) ELSE Cardinality(Lost) + 1
    BY <1>2, FS_AddElement, Zenon
  <2> QED BY <1>2, <2>1
<1>6. Cardinality(Carriers) <= Cardinality(Lost \cup {x})
  BY <1>4, <1>5, FS_Subset
<1>7. Cardinality(Lost \cup {x}) \in Nat /\ Cardinality(Carriers) \in Nat
  BY <1>4, <1>5, FS_Subset, FS_CardinalityType
<1> QED BY <1>2, <1>5, <1>6, <1>7 DEF LossesAreFaults

\* A fragment is in one blob more, at most, than there were faults.
THEOREM RepeatedBlobsAreFaults == Spec => []RepeatsAreFaults
<1>1. Init => LossesAreFaults
  <2>1. SUFFICES ASSUME Init PROVE LossesAreFaults
    OBVIOUS
  <2>2. Lost = {} /\ faults = 0
    BY <2>1 DEF Init, Lost
  <2> QED BY <2>2, FS_EmptySet DEF LossesAreFaults
<1>2. EigenInv /\ EigenInv' /\ LossesAreFaults /\ [Next]_vars => LossesAreFaults'
  BY CommitterLosses, ListenerLosses, OtherLosses DEF Next
<1>3. EigenInv /\ LossesAreFaults => RepeatsAreFaults
  BY LossesExplainRepeats
<1> QED BY <1>1, <1>2, <1>3, EigenInvariance, PTL DEF Spec
=============================================================================
