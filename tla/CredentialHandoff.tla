-------------------------- MODULE CredentialHandoff --------------------------
(***************************************************************************)
(* The one-time hand-off of PDF passwords from a request to the worker:    *)
(* unlock-pdf and protect-pdf keep the secret out of the job row and out   *)
(* of RQ; it lies sealed in Valkey under the id of its job, with a time to *)
(* live, until the worker takes it or somebody erases it.                  *)
(*                                                                         *)
(* Every call to Valkey and RQ may fail with or without having taken       *)
(* effect; the API process and the work-horse may die between any two      *)
(* steps.  The legacy path of the worker starts a delivery whatever the    *)
(* job has become, short of cancelled; the journal's claim starts fewer.   *)
(***************************************************************************)
EXTENDS Naturals, FiniteSets

CONSTANTS
    Secretive,        \* jobs of the two operations
    Delivery          \* deliveries of one job by RQ

VARIABLES
    kind,             \* JobRecord.operation
    submission,       \* where the handler of the request stands
    state,            \* JobRecord.status
    queueId,          \* jobs whose rq_job_id is committed
    delivered,        \* jobs RQ has taken
    sealed,           \* the keys in Valkey: <<operation, job>>
    attempt,          \* where each delivery stands
    took,             \* deliveries that were handed the secret
    cancel,           \* where a cancellation stands
    unerased          \* history: jobs whose key is left to its time to live

jobRow  == <<kind, state, queueId>>
api     == <<submission, cancel>>
worker  == <<attempt, took>>
vars    == <<jobRow, api, worker, delivered, sealed, unerased>>

Unlock  == "unlock-pdf"
Protect == "protect-pdf"
Kind    == {Unlock, Protect}
Deliveries == Secretive \X Delivery

TypeOK ==
    /\ kind \in [Secretive -> Kind]
    /\ submission \in [Secretive -> {"none", "committed", "published", "enqueued",
                                     "failing", "erased", "refused", "answered", "dead"}]
    /\ state \in [Secretive -> {"none", "queued", "running", "completed", "failed", "cancelled"}]
    /\ queueId \in SUBSET Secretive
    /\ delivered \in SUBSET Secretive
    /\ sealed \in SUBSET (Kind \X Secretive)
    /\ attempt \in [Deliveries -> {"none", "started", "holding", "over"}]
    /\ took \in SUBSET Deliveries
    /\ cancel \in [Secretive -> {"none", "stopped", "erased", "done"}]
    /\ unerased \in SUBSET Secretive

Init ==
    /\ kind \in [Secretive -> Kind]
    /\ submission = [j \in Secretive |-> "none"]
    /\ state = [j \in Secretive |-> "none"]
    /\ queueId = {} /\ delivered = {} /\ sealed = {}
    /\ attempt = [d \in Deliveries |-> "none"]
    /\ took = {}
    /\ cancel = [j \in Secretive |-> "none"]
    /\ unerased = {}

Submission(j, from, to) ==
    /\ submission[j] = from
    /\ submission' = [submission EXCEPT ![j] = to]

-----------------------------------------------------------------------------
(* The two requests.  A refused request (flag, key, body, source, quota,   *)
(* audit) has no effect.                                                   *)

SubmitUnlock(j) ==
    /\ kind[j] = Unlock
    /\ Submission(j, "none", "committed")
    /\ state' = [state EXCEPT ![j] = "queued"]
    /\ UNCHANGED <<kind, queueId, cancel, worker, delivered, sealed, unerased>>

SubmitProtect(j) ==
    /\ kind[j] = Protect
    /\ Submission(j, "none", "committed")
    /\ state' = [state EXCEPT ![j] = "queued"]
    /\ UNCHANGED <<kind, queueId, cancel, worker, delivered, sealed, unerased>>

\* SET NX EX: stored and acknowledged, or an exception with or without effect.
Publish(j, k) ==
    /\ \/ /\ Submission(j, "committed", "published")
          /\ <<k, j>> \notin sealed
          /\ sealed' = sealed \cup {<<k, j>>}
       \/ /\ Submission(j, "committed", "failing")
          /\ sealed' \in {sealed, sealed \cup {<<k, j>>}}
    /\ UNCHANGED <<jobRow, cancel, worker, delivered, unerased>>

PublishPassword(j)    == kind[j] = Unlock  /\ Publish(j, Unlock)
PublishCredentials(j) == kind[j] = Protect /\ Publish(j, Protect)

Enqueue(j) ==
    /\ \/ /\ Submission(j, "published", "enqueued")
          /\ delivered' = delivered \cup {j}
       \/ /\ Submission(j, "published", "failing")
          /\ delivered' \in {delivered, delivered \cup {j}}
    /\ UNCHANGED <<jobRow, cancel, worker, sealed, unerased>>

CommitQueueId(j) ==
    /\ \/ /\ Submission(j, "enqueued", "answered")
          /\ queueId' = queueId \cup {j}
       \/ /\ Submission(j, "enqueued", "failing")
          /\ queueId' \in {queueId, queueId \cup {j}}
    /\ UNCHANGED <<kind, state, cancel, worker, delivered, sealed, unerased>>

\* erase_password and erase_credentials swallow every exception.
ErasedWrongKey(k, j) == {<<Unlock, j>>}     \* mutant: one prefix for both
ErasedKey(k, j)      == {<<k, j>>}

Erase(j) ==
    \/ sealed' = sealed \ ErasedKey(kind[j], j) /\ unerased' = unerased \ {j}
    \/ unerased' = unerased \cup {j} /\ UNCHANGED sealed

EraseFailed(j) ==
    /\ Submission(j, "failing", "erased")
    /\ Erase(j)
    /\ UNCHANGED <<jobRow, cancel, worker, delivered>>

RefuseSubmission(j) ==
    /\ Submission(j, "erased", "refused")
    /\ state' = [state EXCEPT ![j] = "failed"]
    /\ UNCHANGED <<kind, queueId, cancel, worker, delivered, sealed, unerased>>

ApiDies(j) ==
    /\ \E from \in {"committed", "published", "enqueued", "failing", "erased"} :
          Submission(j, from, "dead")
    /\ unerased' = unerased \cup {j}
    /\ UNCHANGED <<jobRow, cancel, worker, delivered, sealed>>

-----------------------------------------------------------------------------
(* cancel_job: the queue is told first, the secret erased next, and the    *)
(* status written last, over whatever the job has become.                  *)

CancelStop(j) ==
    /\ cancel[j] = "none"
    /\ state[j] \in {"queued", "running"}
    /\ j \in queueId
    /\ cancel' = [cancel EXCEPT ![j] = "stopped"]
    /\ \/ state[j] = "queued" /\ delivered' = delivered \ {j}
       \/ UNCHANGED delivered
    /\ UNCHANGED <<jobRow, submission, worker, sealed, unerased>>

CancelErase(j) ==
    /\ cancel[j] = "stopped"
    /\ cancel' = [cancel EXCEPT ![j] = "erased"]
    /\ Erase(j)
    /\ UNCHANGED <<jobRow, submission, worker, delivered>>

CancelWrite(j) ==
    /\ cancel[j] = "erased"
    /\ cancel' = [cancel EXCEPT ![j] = "done"]
    /\ state' = [state EXCEPT ![j] = "cancelled"]
    /\ UNCHANGED <<kind, queueId, submission, worker, delivered, sealed, unerased>>

-----------------------------------------------------------------------------
(* The worker.                                                             *)

Start(j, d) ==
    /\ j \in delivered
    /\ attempt[<<j, d>>] = "none"
    /\ state[j] # "cancelled"
    /\ attempt' = [attempt EXCEPT ![<<j, d>>] = "started"]
    /\ state' = [state EXCEPT ![j] = "running"]
    /\ UNCHANGED <<kind, queueId, api, took, delivered, sealed, unerased>>

Finish(j, d, outcome) ==
    /\ attempt' = [attempt EXCEPT ![<<j, d>>] = "over"]
    /\ state' = [state EXCEPT ![j] = IF @ = "cancelled" THEN @ ELSE outcome]

\* The flag, the source, its owner, its signature; all before the secret, which
\* nobody erases then.
RejectSource(j, d) ==
    /\ attempt[<<j, d>>] = "started"
    /\ Finish(j, d, "failed")
    /\ unerased' = unerased \cup {j}
    /\ UNCHANGED <<kind, queueId, api, took, delivered, sealed>>

\* GETDEL.
KeptAfterTake(k, j) == {}                   \* mutant: GET in place of GETDEL
TakenKeys(k, j)     == {<<k, j>>}

Take(j, d, k) ==
    /\ kind[j] = k
    /\ attempt[<<j, d>>] = "started"
    /\ \/ /\ <<k, j>> \in sealed
          /\ sealed' = sealed \ TakenKeys(k, j)
          /\ took' = took \cup {<<j, d>>}
          /\ attempt' = [attempt EXCEPT ![<<j, d>>] = "holding"]
          /\ UNCHANGED <<state, unerased>>
       \/ /\ <<k, j>> \notin sealed             \* expired or already used
          /\ Finish(j, d, "failed")
          /\ UNCHANGED <<sealed, took, unerased>>
       \/ /\ sealed' \in {sealed, sealed \ TakenKeys(k, j)}
          /\ Finish(j, d, "failed")             \* the call raised
          /\ unerased' = unerased \cup {j}
          /\ UNCHANGED took
    /\ UNCHANGED <<kind, queueId, api, delivered>>

TakePassword(j, d)    == Take(j, d, Unlock)
TakeCredentials(j, d) == Take(j, d, Protect)

Engine(j, d) ==
    /\ attempt[<<j, d>>] = "holding"
    /\ \E outcome \in {"completed", "failed"} : Finish(j, d, outcome)
    /\ UNCHANGED <<kind, queueId, api, took, delivered, sealed, unerased>>

WorkerDies(j, d) ==
    /\ attempt[<<j, d>>] \in {"started", "holding"}
    /\ attempt' = [attempt EXCEPT ![<<j, d>>] = "over"]
    /\ UNCHANGED <<jobRow, api, took, delivered, sealed, unerased>>

\* TTL_SECONDS have passed.
Lapse ==
    /\ \E key \in sealed : sealed' = sealed \ {key}
    /\ UNCHANGED <<jobRow, api, worker, delivered, unerased>>

-----------------------------------------------------------------------------
Next ==
    \/ Lapse
    \/ \E j \in Secretive :
          \/ SubmitUnlock(j) \/ SubmitProtect(j)
          \/ PublishPassword(j) \/ PublishCredentials(j)
          \/ Enqueue(j) \/ CommitQueueId(j)
          \/ EraseFailed(j) \/ RefuseSubmission(j) \/ ApiDies(j)
          \/ CancelStop(j) \/ CancelErase(j) \/ CancelWrite(j)
          \/ \E d \in Delivery :
                \/ Start(j, d) \/ RejectSource(j, d)
                \/ TakePassword(j, d) \/ TakeCredentials(j, d)
                \/ Engine(j, d) \/ WorkerDies(j, d)

Spec == Init /\ [][Next]_vars

-----------------------------------------------------------------------------
\* A secret is handed to one attempt of its job at most, however often RQ
\* delivers the job and wherever an attempt dies (take_password,
\* take_credentials: "no second chance after crash").
OneUse ==
    \A j \in Secretive : Cardinality({d \in Delivery : <<j, d>> \in took}) <= 1

\* Nothing sealed outlives its job: once the job has ended, its submission has
\* been answered with a failure, or its cancellation is written, the key is
\* gone.  The exceptions are keys that stay until their time to live is over:
\* the erasure failed, the API died before it, or a delivery failed without
\* the secret, its source rejected or its GETDEL in error.
SecretGone ==
    \A j \in Secretive \ unerased :
        \/ state[j] \in {"completed", "failed", "cancelled"}
        \/ submission[j] = "refused"
        \/ cancel[j] = "done"
        => \A k \in Kind : <<k, j>> \notin sealed
=============================================================================
