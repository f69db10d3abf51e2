--------------------------- MODULE WebhookDelivery ---------------------------
(***************************************************************************)
(* Durable webhook deliveries: the rows of webhook_deliveries, the one     *)
(* dispatcher that loads a batch of due rows and works through it, and the *)
(* administrators who replay dead rows.  The dispatcher's session keeps    *)
(* the rows and jobs it has loaded, so they may be stale when it comes to  *)
(* them; it can die between a request and the commit of its outcome.       *)
(* JobExecution's Notify and ClearDelete are Insert and ClearHistory here. *)
(***************************************************************************)
EXTENDS Integers, Sequences, FiniteSets, SequencesExt

CONSTANTS
    Delivery,         \* primary keys of webhook_deliveries
    Job,
    JobOf,            \* the job each delivery reports on
    Request,          \* concurrent replay requests of administrators
    None,
    MaxAttempts,      \* webhook_max_attempts
    InitialDelay,     \* webhook_retry_initial_seconds, in ticks
    MaxDelay,         \* webhook_retry_max_seconds, in ticks
    Batch,            \* webhook_dispatch_batch_size
    MaxCrashes,       \* bound: deaths of the dispatcher
    MaxReplays        \* bound: replay requests

ASSUME ConstantsAssumption ==
    /\ None \notin Delivery
    /\ JobOf \in [Delivery -> Job]
    /\ {MaxAttempts, InitialDelay, MaxDelay, Batch} \subseteq Nat \ {0}
    /\ {MaxCrashes, MaxReplays} \subseteq Nat

VARIABLES
    status, attempts,  \* the committed rows
    wait,              \* ticks until next_attempt_at
    line,              \* the due rows in the order of next_attempt_at
    jobs,              \* job rows that still exist
    born,              \* deliveries queued so far
    batch, loaded,     \* the dispatcher's rows still to do and jobs in session
    seen,              \* attempt_count of the rows it holds, as it loaded them
    flight,            \* the delivery whose request is out, or None
    request,           \* per replay request: the dead row it has read, or None
    tries, lost,       \* attempts made (a request sent, or its URL refused before
                       \* one is), and those cut off before their commit,
                       \* since the row was queued or replayed (history)
    crashes, replays   \* counters of the two bounds

rows       == <<status, attempts, wait, line>>
dispatcher == <<batch, loaded, seen, flight>>
history    == <<tries, lost>>
bounds     == <<crashes, replays>>
vars       == <<rows, jobs, born, dispatcher, request, history, bounds>>

-----------------------------------------------------------------------------
ActiveOrDone == {"queued", "retrying", "delivered"}  \* mutant: done rows again
Active       == {"queued", "retrying"}
RowStatus    == {"queued", "retrying", "delivered", "dead"}

TypeOK ==
    /\ status \in [Delivery -> RowStatus \cup {"absent"}]
    /\ attempts \in [Delivery -> 0 .. MaxAttempts]
    /\ wait \in [Delivery -> 0 .. MaxDelay]
    /\ line \in Seq(Delivery)
    /\ jobs \in SUBSET Job
    /\ born \in SUBSET Delivery
    /\ batch \in SUBSET Delivery
    /\ loaded \in SUBSET Job
    /\ seen \in [Delivery -> 0 .. MaxAttempts]
    /\ flight \in Delivery \cup {None}
    /\ request \in [Request -> Delivery \cup {None}]
    /\ tries \in [Delivery -> Nat]
    /\ lost \in [Delivery -> Nat]
    /\ crashes \in 0 .. MaxCrashes
    /\ replays \in 0 .. MaxReplays

Init ==
    /\ status = [d \in Delivery |-> "absent"]
    /\ attempts = [d \in Delivery |-> 0]
    /\ wait = [d \in Delivery |-> 0]
    /\ line = <<>>
    /\ jobs = Job
    /\ born = {}
    /\ batch = {}
    /\ loaded = {}
    /\ seen = [d \in Delivery |-> 0]
    /\ flight = None
    /\ request = [r \in Request |-> None]
    /\ tries = [d \in Delivery |-> 0]
    /\ lost = [d \in Delivery |-> 0]
    /\ crashes = 0
    /\ replays = 0

Without(D) ==
    LET kept[n \in 0 .. Len(line)] ==
            IF n = 0 THEN <<>>
            ELSE IF line[n] \in D THEN kept[n - 1]
            ELSE Append(kept[n - 1], line[n])
    IN  kept[Len(line)]

\* queue_job_webhook: a row due at once.  The job may be gone by then.
Insert(d) ==
    /\ d \notin born
    /\ born' = born \cup {d}
    /\ status' = [status EXCEPT ![d] = "queued"]
    /\ line' = Append(line, d)
    /\ UNCHANGED <<attempts, wait, jobs, dispatcher, request, history, bounds>>

\* clear_terminal_jobs: a job row and all its deliveries.
ClearHistory(j) ==
    LET D == {d \in Delivery : JobOf[d] = j}
    IN  /\ j \in jobs
        /\ jobs' = jobs \ {j}
        /\ status' = [d \in Delivery |-> IF d \in D THEN "absent" ELSE status[d]]
        /\ line' = Without(D)
        /\ UNCHANGED <<attempts, wait, born, dispatcher, request, history, bounds>>

Tick ==
    LET due == {d \in Delivery : status[d] \in Active /\ wait[d] = 1}
    IN  /\ \E d \in Delivery : wait[d] > 0
        /\ wait' = [d \in Delivery |-> IF wait[d] > 0 THEN wait[d] - 1 ELSE 0]
        /\ \E order \in SetToSeqs(due) : line' = line \o order
        /\ UNCHANGED <<status, attempts, jobs, born, dispatcher, request, history, bounds>>

-----------------------------------------------------------------------------
(* The dispatcher: process_due_webhooks and deliver_webhook.               *)

\* The oldest rows up to the batch size, those of them that are due.
Fetch ==
    /\ batch = {} /\ flight = None
    /\ batch' = {d \in Delivery : /\ status[d] \in Active
                                  /\ \E i \in 1 .. Len(line) : i <= Batch /\ line[i] = d}
    /\ batch' # {}
    /\ loaded' = {}
    /\ seen' = [d \in Delivery |-> IF d \in batch' THEN attempts[d] ELSE 0]
    /\ UNCHANGED <<rows, jobs, born, flight, request, history, bounds>>

\* A commit that finds its row deleted raises and ends the cycle: the rest of
\* the batch waits for the next one.
Abort ==
    /\ batch' = {}
    /\ flight' = None
    /\ loaded' = {}
    /\ seen' = [d \in Delivery |-> 0]

InSession(d) == JobOf[d] \in loaded \cup jobs

\* A commit of the row: what the next query finds due is in line, last.
Settle(d, s, delay) ==
    /\ status' = [status EXCEPT ![d] = s]
    /\ wait' = [wait EXCEPT ![d] = delay]
    /\ line' = IF s \in Active /\ delay = 0 THEN Append(Without({d}), d) ELSE Without({d})

OrphanKept   == "queued"                  \* mutant: orphans are left to later
OrphanStatus == "dead"

DeadLetterOrphan(d) ==
    /\ flight = None
    /\ d \in batch
    /\ ~InSession(d)
    /\ \/ /\ status[d] = "absent"
          /\ Abort
          /\ UNCHANGED <<status, wait, line>>
       \/ /\ status[d] # "absent"
          /\ Settle(d, OrphanStatus, 0)
          /\ batch' = batch \ {d}
          /\ seen' = [seen EXCEPT ![d] = 0]
          /\ UNCHANGED <<loaded, flight>>
    /\ UNCHANGED <<attempts, jobs, born, request, history, bounds>>

Post(d) ==
    /\ flight = None
    /\ d \in batch
    /\ InSession(d)
    /\ flight' = d
    /\ batch' = batch \ {d}
    /\ loaded' = loaded \cup {JobOf[d]}
    /\ tries' = [tries EXCEPT ![d] = @ + 1]
    /\ UNCHANGED <<rows, jobs, born, seen, request, lost, bounds>>

Smaller(m, n)   == IF m <= n THEN m ELSE n
PowerOfTwo(n)   == LET power[k \in 0 .. n] == IF k = 0 THEN 1 ELSE 2 * power[k - 1]
                   IN  power[n]
Delay(n)        == Smaller(InitialDelay * PowerOfTwo(n - 1), MaxDelay)

NeverSpent(n)   == FALSE                  \* mutant: no dead letters
SpentEarly(n)   == n + 1 >= MaxAttempts   \* mutant: off by one
Spent(n)        == n >= MaxAttempts

Uncounted(d)    == seen[d]                \* mutant: the count is not saved
Counted(d)      == seen[d] + 1

\* The outcome of the request and the commit of the row.
Record ==
    LET d == flight
        n == Counted(d)
    IN  /\ flight # None
        /\ UNCHANGED <<jobs, born, request, tries, bounds>>
        /\ \/ /\ status[d] = "absent"
              /\ Abort
              /\ lost' = [lost EXCEPT ![d] = @ + 1]
              /\ UNCHANGED rows
           \/ /\ status[d] # "absent"
              /\ flight' = None
              /\ attempts' = [attempts EXCEPT ![d] = n]
              /\ seen' = [seen EXCEPT ![d] = 0]
              /\ UNCHANGED <<batch, loaded, lost>>
              /\ \/ Settle(d, "delivered", 0)
                 \/ Spent(n) /\ Settle(d, "dead", 0)
                 \/ ~Spent(n) /\ Settle(d, "retrying", Delay(n))

\* The dispatcher dies and is restarted; it has no state but the database.
Crash ==
    /\ crashes < MaxCrashes
    /\ crashes' = crashes + 1
    /\ batch # {} \/ flight # None
    /\ lost' = IF flight = None THEN lost ELSE [lost EXCEPT ![flight] = @ + 1]
    /\ Abort
    /\ UNCHANGED <<rows, jobs, born, request, tries, replays>>

-----------------------------------------------------------------------------
(* retry_webhook_delivery: the row is read, the intent is audited, then    *)
(* the loaded row is written back.                                         *)

ReplayAnything(d) == status[d] # "absent"  \* mutant: no look at the status
Replayable(d)     == status[d] = "dead"

ReplayRead(r, d) ==
    /\ request[r] = None
    /\ replays < MaxReplays
    /\ Replayable(d)
    /\ request' = [request EXCEPT ![r] = d]
    /\ replays' = replays + 1
    /\ UNCHANGED <<rows, jobs, born, dispatcher, history, crashes>>

ReplayWrite(r) ==
    LET d == request[r]
    IN  /\ d # None
        /\ request' = [request EXCEPT ![r] = None]
        /\ \/ /\ status[d] # "absent"
              /\ Settle(d, "queued", 0)
              /\ attempts' = [attempts EXCEPT ![d] = 0]
              /\ tries' = [tries EXCEPT ![d] = 0]
              /\ lost' = [lost EXCEPT ![d] = 0]
           \/ UNCHANGED <<rows, history>>
        /\ UNCHANGED <<jobs, born, dispatcher, bounds>>

-----------------------------------------------------------------------------
Dispatch == Fetch \/ Record \/ \E d \in Delivery : DeadLetterOrphan(d) \/ Post(d)

Next ==
    \/ Dispatch \/ Crash \/ Tick
    \/ \E d \in Delivery : Insert(d)
    \/ \E j \in Job : ClearHistory(j)
    \/ \E r \in Request : ReplayWrite(r) \/ \E d \in Delivery : ReplayRead(r, d)

Spec == Init /\ [][Next]_vars

\* The dispatcher's loop and the clock go on; nobody has to queue, clear or
\* replay.
FairSpec == Spec /\ WF_vars(Dispatch) /\ WF_vars(Tick)

-----------------------------------------------------------------------------
\* A delivery is given up only after its whole budget of attempts since it was
\* queued or replayed, or because its job is gone (deliver_webhook).  An attempt
\* whose URL validate_webhook_url refuses counts without a request.
DeadAfterBudget ==
    \A d \in Delivery :
        status[d] = "dead" => tries[d] >= MaxAttempts \/ JobOf[d] \notin jobs

\* More attempts were made at a delivery, and more requests may have reached its
\* receiver, than the attempt number says only where the dispatcher was cut off
\* before it committed an outcome.
AttemptsAccounted ==
    \A d \in Delivery :
        status[d] # "absent" =>
            tries[d] = attempts[d] + lost[d] + (IF flight = d THEN 1 ELSE 0)

\* A delivered event is not sent again, whatever a stale batch still holds.
DeliveredNotRepeated ==
    [][\A d \in Delivery : status[d] = "delivered" => tries'[d] = tries[d]]_vars

\* The state machine of PHASE4.md: replay is the one way out of a final status,
\* and only from "dead".
LegalSteps ==
    {<<"absent", "queued">>, <<"dead", "queued">>, <<"queued", "retrying">>}
    \cup Active \X {"delivered", "dead"}
    \cup RowStatus \X {"absent"}

LegalTransitions ==
    [][\A d \in Delivery :
        status'[d] # status[d] => <<status[d], status'[d]>> \in LegalSteps]_vars

\* Every queued delivery is delivered, given up or cleared: neither the batch
\* limit, nor rows deleted under the dispatcher, nor its crashes hold one back.
Resolves ==
    \A d \in Delivery : status[d] \in Active ~> status[d] \notin Active
=============================================================================
