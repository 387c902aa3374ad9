-------------------------- MODULE ConnectionHealth --------------------------
(***************************************************************************)
(* The health flag of a connection: connection_health_tracker.rs, written  *)
(* by every request of the Ethereum adapter (health_tracking_middleware)   *)
(* or of the Fuel client, and read by the health report of the HTTP API.   *)
(*                                                                         *)
(* Requests run concurrently.  A request is answered as the link is at     *)
(* that moment, and its outcome is noted in two atomic steps: a load of    *)
(* the permanent flag, and the change of the counter.  The link may fail   *)
(* and recover in between; the websocket may also be gone for good.        *)
(***************************************************************************)
EXTENDS Naturals

CONSTANTS
  Readers,      \* tasks whose requests only read
  Senders,      \* tasks whose requests submit something the node may refuse
  MaxFailures,  \* max_consecutive_failures
  MaxOutages    \* bound: how often the link fails

ASSUME HealthAssumption ==
  /\ Readers # {} /\ Readers \cap Senders = {}
  /\ MaxFailures \in Nat \ {0} /\ MaxOutages \in Nat

VARIABLES
  adapter,    \* "eth" or "fuel"
  link,       \* "up", "down" or "gone"
  outages,
  failures,   \* consecutive_failures; no more than MaxFailures are told apart
  permanent,  \* permanent_failure
  noting      \* [Requesters -> what is left to note of the last answer]

healthVars == <<adapter, link, outages, failures, permanent, noting>>

Requesters == Readers \union Senders

HealthTypeOK ==
  /\ adapter \in {"eth", "fuel"}
  /\ link \in {"up", "down", "gone"}
  /\ outages \in 0..MaxOutages
  /\ failures \in 0..MaxFailures
  /\ permanent \in BOOLEAN
  /\ noting \in [Requesters -> {"nothing", "ok", "error", "gone", "reset", "add"}]

HealthInit ==
  /\ adapter \in {"eth", "fuel"}
  /\ link = "up"
  /\ outages = 0
  /\ failures = 0
  /\ permanent = FALSE
  /\ noting = [r \in Requesters |-> "nothing"]

-----------------------------------------------------------------------------
(* What a request makes of the link.                                       *)

\* A websocket that could not be opened again is gone, at once or after a while.
Lost == IF adapter = "eth" THEN {"gone"} ELSE {}

LinkChanges ==
  /\ \/ /\ link = "up" /\ outages < MaxOutages
        /\ outages' = outages + 1
        /\ link' \in {"down"} \union Lost
     \/ /\ link = "down"
        /\ link' \in {"up"} \union Lost
        /\ UNCHANGED outages
  /\ UNCHANGED <<adapter, failures, permanent, noting>>

\* An error response of the node within -32613..-32000 is about the
\* transaction and says nothing of the network; any other one counts as a
\* recoverable network error, a closed backend as an irrecoverable one.
ErrorOf(answer) ==
  CASE answer = "execution error" -> "nothing"
    [] answer = "no backend"      -> "gone"
    [] OTHER                      -> "error"

EthAnswers(r) ==
  CASE link = "gone" -> {ErrorOf("no backend")}
    [] link = "down" -> {ErrorOf("no answer")}
    [] link = "up"   ->
         {"ok"} \union (IF r \in Senders
                        THEN {ErrorOf("execution error"), ErrorOf("other error response")}
                        ELSE {})

\* An answer that cannot be decoded has been noted as a success by then.
FuelAnswers == IF link = "up" THEN {"ok"} ELSE {"error"}

Answered(r) ==
  /\ noting[r] = "nothing"
  /\ \E outcome \in IF adapter = "eth" THEN EthAnswers(r) ELSE FuelAnswers :
       noting' = [noting EXCEPT ![r] = outcome]
  /\ UNCHANGED <<adapter, link, outages, failures, permanent>>

-----------------------------------------------------------------------------
(* The tracker.                                                            *)

NotePermanentFailure(r) ==
  /\ noting[r] = "gone"
  /\ permanent' = TRUE
  /\ noting' = [noting EXCEPT ![r] = "nothing"]
  /\ UNCHANGED <<adapter, link, outages, failures>>

\* note_success and note_failure: the flag is loaded ...
LoadFlag(r) ==
  /\ noting[r] \in {"ok", "error"}
  /\ noting' = [noting EXCEPT ![r] = IF permanent THEN "nothing"
                                     ELSE IF noting[r] = "ok" THEN "reset" ELSE "add"]
  /\ UNCHANGED <<adapter, link, outages, failures, permanent>>

\* Mutant of AfterSuccess: a success does not reset the counter.
AfterSuccessAsBefore == failures

AfterSuccess == 0

AfterFailure == IF failures < MaxFailures THEN failures + 1 ELSE failures

\* ... and then the counter is changed.
ChangeCounter(r) ==
  /\ noting[r] \in {"reset", "add"}
  /\ failures' = IF noting[r] = "reset" THEN AfterSuccess ELSE AfterFailure
  /\ noting' = [noting EXCEPT ![r] = "nothing"]
  /\ UNCHANGED <<adapter, link, outages, permanent>>

Note(r) == NotePermanentFailure(r) \/ LoadFlag(r) \/ ChangeCounter(r)

Healthy == ~permanent /\ failures < MaxFailures

HealthNext == LinkChanges \/ \E r \in Requesters : Answered(r) \/ Note(r)

\* The polling tasks keep making requests, and each request is answered (or
\* fails) and noted.
HealthFairness == \A r \in Requesters : WF_healthVars(Answered(r)) /\ WF_healthVars(Note(r))

HealthSpec == HealthInit /\ [][HealthNext]_healthVars /\ HealthFairness

-----------------------------------------------------------------------------
(* Whatever order the answers of concurrent requests are noted in, the     *)
(* report follows the link: once it is down or gone for good the           *)
(* connection is in the end reported unhealthy and stays so, and once it   *)
(* is up for good, nothing noted late keeps it unhealthy.                  *)
HealthFollowsLink ==
  /\ <>[](link # "up") => <>[]~Healthy
  /\ <>[](link = "up") => []<>Healthy
=============================================================================
