---------------------------- MODULE JobExecution ----------------------------
(***************************************************************************)
(* One processing job from the commit of its row to its last worker: the   *)
(* JobRecord row, the queue entry, the attempts that run process_job (the  *)
(* queue may deliver the job more than once), the artifact write journal,  *)
(* the object store, and the three API or operator paths that write the    *)
(* same row (a failed enqueue, cancellation, recovery of an expired        *)
(* lease).                                                                 *)
(*                                                                         *)
(* A database transaction that commits is one step, and so is each call to *)
(* the object store.  A worker can be killed between any two steps.        *)
(* JournalEnabled is settings.artifact_write_journal_enabled: TRUE is the  *)
(* fenced worker, FALSE the legacy one, whose writes are unconditional.    *)
(***************************************************************************)
EXTENDS Integers, FiniteSets

CONSTANTS
    Attempt,          \* deliveries of the job to a worker; names its lease token
    Shared,           \* stands for the token in legacy destination names
    None,             \* SQL NULL
    NumParts,         \* files written by the job: the primary output, then parts
    TTL,              \* lease lifetime in clock ticks
    Grace,            \* ticks after expiry before recovery may act
    JournalEnabled

ASSUME NamesAssumption ==
    /\ None \notin Attempt
    /\ Shared \notin Attempt
ASSUME BoundsAssumption ==
    /\ NumParts \in Nat \ {0}
    /\ TTL \in Nat \ {0}
    /\ Grace \in Nat \ {0}
    /\ JournalEnabled \in BOOLEAN

VARIABLES
    \* the JobRecord row
    status, token, epoch, lease, output, rqRef,
    \* other tables, and the object store
    journal, files, objects, events,
    \* the queue entry: its state, and a stop command on its way to the worker
    rq, stop,
    \* each attempt: program counter, in-memory job.status, number of names in
    \* stored_names not yet cleaned up, ordinals whose object is known absent
    pc, seen, cursor, absent,
    \* API handlers and the operator's recovery command
    creator, cancel, clearing, recovery

row      == <<status, token, epoch, lease, output, rqRef>>
stores   == <<journal, files, objects>>
queue    == <<rq, stop>>
attempts == <<pc, seen, cursor, absent>>
handlers == <<creator, cancel, clearing, recovery>>
vars     == <<row, stores, events, queue, attempts, handlers>>

-----------------------------------------------------------------------------
Terminal     == {"completed", "failed", "cancelled"}
Status       == {"queued", "running", "deleted"} \cup Terminal
JournalState == {"none", "planned", "committed", "compensated", "needs_review"}
TerminalRq   == {"failed", "stopped", "canceled"}
RqState      == {"none", "queued", "started", "finished"} \cup TerminalRq
Parts        == 1 .. NumParts
Name         == (Attempt \cup {Shared}) \X Parts

\* Stages of process_job: those that hold pending rows in an open transaction,
\* those in which the heartbeat thread runs, and those in which it does not.
Storing   == {"store", "flush", "publish"}
Executing == {"load", "progress80", "check", "reserve", "journal", "rollback",
              "refresh", "fail", "archive", "notify_ok", "notify_failed"} \cup Storing
Stage     == {"idle", "claim", "done", "dead"} \cup Executing

\* Destination of an output: every fenced attempt has names of its own, the
\* legacy worker derives the name from the job alone.
Token(a)    == IF JournalEnabled THEN a ELSE Shared
NameOf(a, i) == <<Token(a), i>>
Names(a)    == {Token(a)} \X Parts

\* The predicate of every fenced UPDATE.  The legacy worker's completion has
\* only its first conjunct.
LeaseHeld(a) ==          \* mutant: the fence without the status
    JournalEnabled => token = a /\ lease > 0

LeaseCurrent(a) ==
    /\ status = "running"
    /\ JournalEnabled => token = a /\ lease > 0

\* Names inserted by an open transaction of attempt b, invisible to others.
Pending(b) ==
    {NameOf(b, i) : i \in {j \in Parts :
        \/ pc[b] \in {"store", "publish"} /\ j <= cursor[b]
        \/ pc[b] = "flush" /\ j < cursor[b]}}

TypeOK ==
    /\ status \in Status
    /\ token \in Attempt \cup {None}
    /\ epoch \in Nat
    /\ lease \in -Grace .. TTL
    /\ output \in Attempt \cup {None}
    /\ rqRef \in BOOLEAN
    /\ journal \in [Name -> JournalState]
    /\ files \in SUBSET Name
    /\ objects \in SUBSET Name
    /\ events \in SUBSET (Status \cup {None})
    /\ rq \in RqState
    /\ stop \in BOOLEAN
    /\ pc \in [Attempt -> Stage]
    /\ seen \in [Attempt -> Status \cup {None}]
    /\ cursor \in [Attempt -> 0 .. NumParts]
    /\ absent \in [Attempt -> SUBSET Parts]
    /\ creator \in {"enqueue", "ref", "late", "done"}
    /\ cancel \in {"idle", "queued", "running", "write", "done"}
    /\ clearing \in BOOLEAN
    /\ recovery \in {"idle", "ready"}

\* The job row has just been committed by _create_job or retry_job.
Init ==
    /\ status = "queued"
    /\ token = None
    /\ epoch = 0
    /\ lease = -Grace
    /\ output = None
    /\ rqRef = FALSE
    /\ journal = [n \in Name |-> "none"]
    /\ files = {}
    /\ objects = {}
    /\ events = {}
    /\ rq = "none"
    /\ stop = FALSE
    /\ pc = [a \in Attempt |-> "idle"]
    /\ seen = [a \in Attempt |-> None]
    /\ cursor = [a \in Attempt |-> 0]
    /\ absent = [a \in Attempt |-> Parts]
    /\ creator = "enqueue"
    /\ cancel = "idle"
    /\ clearing = FALSE
    /\ recovery = "idle"

Goto(a, stage) == pc' = [pc EXCEPT ![a] = stage]

\* process_job returns: the queue entry is finished, or failed if it raised.
Leave(a, result) ==
    /\ Goto(a, "done")
    /\ rq' = result

-----------------------------------------------------------------------------
(* The attempt: process_job.                                               *)

\* The queue hands the job to a worker, again if its entry is still there.
Start(a) ==
    /\ pc[a] = "idle"
    /\ rq # "none"
    /\ \/ /\ status = "deleted"
          /\ Leave(a, "failed")
          /\ UNCHANGED seen
       \/ /\ status = "cancelled"
          /\ Leave(a, "finished")
          /\ UNCHANGED seen
       \/ /\ status \notin {"deleted", "cancelled"}
          /\ seen' = [seen EXCEPT ![a] = status]
          /\ Goto(a, "claim")
          /\ rq' = "started"
    /\ UNCHANGED <<row, stores, events, stop, cursor, absent, handlers>>

\* claim_queued_job: one conditional UPDATE; a duplicate delivery gives up.
ClaimableAgain == status \in {"queued", "running", "failed"}  \* mutant: takeover
Claimable      == status = "queued"

Claim(a) ==
    /\ JournalEnabled
    /\ pc[a] = "claim"
    /\ \/ /\ Claimable
          /\ status' = "running"
          /\ token' = a
          /\ epoch' = epoch + 1
          /\ lease' = TTL
          /\ seen' = [seen EXCEPT ![a] = "running"]
          /\ Goto(a, "load")
          /\ UNCHANGED rq
       \/ /\ ~Claimable
          /\ Leave(a, "finished")
          /\ UNCHANGED <<status, token, epoch, lease, seen>>
    /\ UNCHANGED <<output, rqRef, stores, events, stop, cursor, absent, handlers>>

\* The legacy worker writes "running" without looking, unless the value it
\* loaded was already "running" and the session sees nothing to write.
LegacyStart(a) ==
    /\ ~JournalEnabled
    /\ pc[a] = "claim"
    /\ \/ /\ status = "deleted"
          /\ Goto(a, "rollback")
          /\ UNCHANGED <<status, seen>>
       \/ /\ status # "deleted"
          /\ status' = IF seen[a] = "running" THEN status ELSE "running"
          /\ seen' = [seen EXCEPT ![a] = "running"]
          /\ Goto(a, "load")
    /\ UNCHANGED <<token, epoch, lease, output, rqRef, stores, events, queue,
                   cursor, absent, handlers>>

\* Progress 25 and 80.  An input may be missing before the first and the engine
\* or the malware scan may fail after either; none of them touches shared state.
ProgressAllowed(a) ==
    IF JournalEnabled THEN LeaseCurrent(a) ELSE status # "deleted"

Progress(a, from, to) ==
    /\ pc[a] = from
    /\ \/ ProgressAllowed(a) /\ Goto(a, to)
       \/ Goto(a, "rollback")
    /\ UNCHANGED <<row, stores, events, queue, seen, cursor, absent, handlers>>

\* The row is read again: a cancelled job ends here, a refused storage quota
\* fails the job.
CheckCancelled(a) ==
    /\ pc[a] = "check"
    /\ \/ /\ status = "cancelled"
          /\ Leave(a, "finished")
          /\ seen' = [seen EXCEPT ![a] = status]
       \/ /\ status \notin {"cancelled", "deleted"}
          /\ Goto(a, IF JournalEnabled THEN "reserve" ELSE "store")
          /\ seen' = [seen EXCEPT ![a] = status]
          /\ UNCHANGED rq
       \/ /\ status # "cancelled"
          /\ Goto(a, "rollback")
          /\ UNCHANGED <<seen, rq>>
    /\ UNCHANGED <<row, stores, events, stop, cursor, absent, handlers>>

\* reserve_writes: the lease is read, then the rows are inserted and committed;
\* the lease may be lost in between.
CheckLease(a) ==
    /\ pc[a] = "reserve"
    /\ Goto(a, IF LeaseCurrent(a) THEN "journal" ELSE "rollback")
    /\ UNCHANGED <<row, stores, events, queue, seen, cursor, absent, handlers>>

WriteJournal(a) ==
    /\ pc[a] = "journal"
    /\ \/ /\ journal' = [n \in Name |->
                            IF n \in Names(a) THEN "planned" ELSE journal[n]]
          /\ pc' \in {[pc EXCEPT ![a] = s] : s \in {"store", "rollback"}}
       \/ /\ Goto(a, "rollback")
          /\ UNCHANGED journal
    /\ UNCHANGED <<row, files, objects, events, queue, seen, cursor, absent, handlers>>

\* The name joins stored_names before the upload.  An upload that raises may
\* have written the object all the same.
Store(a) ==
    LET i == cursor[a] + 1
        n == NameOf(a, i)
    IN  /\ pc[a] = "store"
        /\ i \in Parts
        /\ cursor' = [cursor EXCEPT ![a] = i]
        /\ absent' = [absent EXCEPT ![a] = @ \ {i}]
        /\ \/ /\ n \notin files
              /\ objects' = objects \cup {n}
              /\ pc' \in {[pc EXCEPT ![a] = s] : s \in {"flush", "rollback"}}
           \/ /\ Goto(a, "rollback")
              /\ UNCHANGED objects
        /\ UNCHANGED <<row, journal, files, events, queue, seen, handlers>>

\* INSERT of the FileRecord and its link.  stored_name is unique: the insert
\* waits for another open transaction with that name, then fails if it won.
Flush(a) ==
    LET n == NameOf(a, cursor[a])
    IN  /\ pc[a] = "flush"
        /\ \A b \in Attempt \ {a} : n \notin Pending(b)
        /\ Goto(a, IF n \in files THEN "rollback"
                   ELSE IF cursor[a] = NumParts THEN "publish" ELSE "store")
        /\ UNCHANGED <<row, stores, events, queue, seen, cursor, absent, handlers>>

\* mark_committed, the conditional completion and the one commit of the whole
\* result.  The acknowledgement of a commit that took effect may be lost.
UnfencedPublish(a) == status # "deleted"  \* mutant: an unconditional late update

PublishAllowed(a) ==
    /\ LeaseCurrent(a)
    /\ JournalEnabled => \A n \in Names(a) : journal[n] = "planned"

PrimaryOnly(a) == {NameOf(a, 1)}          \* mutant: the parts are not committed
Bundle(a)      == Names(a)

Publish(a) ==
    /\ pc[a] = "publish"
    /\ \/ /\ PublishAllowed(a)
          /\ status' = "completed"
          /\ output' = a
          /\ files' = files \cup Bundle(a)
          /\ journal' = [n \in Name |-> IF JournalEnabled /\ n \in Names(a)
                                        THEN "committed" ELSE journal[n]]
          /\ pc' \in {[pc EXCEPT ![a] = s] : s \in {"archive", "rollback"}}
       \/ /\ Goto(a, "rollback")
          /\ UNCHANGED <<status, output, files, journal>>
    /\ UNCHANGED <<token, epoch, lease, rqRef, objects, events, queue, seen,
                   cursor, absent, handlers>>

\* The exception handler deletes the attempted names in reverse order, but
\* never one that a saved FileRecord owns.  A delete that fails may have
\* removed the object all the same.
DeletableAny(n) == TRUE                   \* mutant: no look at the saved files
Deletable(n)    == n \notin files

Cleanup(a) ==
    LET i == cursor[a]
        n == NameOf(a, i)
    IN  /\ pc[a] = "rollback"
        /\ i > 0
        /\ cursor' = [cursor EXCEPT ![a] = i - 1]
        /\ \/ /\ Deletable(n)
              /\ objects' = objects \ {n}
              /\ \/ absent' = [absent EXCEPT ![a] = @ \cup {i}]
                 \/ UNCHANGED absent
           \/ UNCHANGED <<objects, absent>>
        /\ UNCHANGED <<row, journal, files, events, queue, pc, seen, handlers>>

\* compensate_writes settles the rows still planned; if it fails they stay.
SettledBlind(a, n) == "compensated"       \* mutant: delete outcomes ignored
Settled(a, n) == IF n[2] \in absent[a] THEN "compensated" ELSE "needs_review"

Compensate(a) ==
    /\ pc[a] = "rollback"
    /\ cursor[a] = 0
    /\ Goto(a, "refresh")
    /\ \/ journal' = [n \in Name |->
                        IF JournalEnabled /\ n \in Names(a) /\ journal[n] = "planned"
                        THEN Settled(a, n)
                        ELSE journal[n]]
       \/ UNCHANGED journal
    /\ UNCHANGED <<row, files, objects, events, queue, seen, cursor, absent, handlers>>

\* db.refresh(job) in the exception handler; a job row that is gone makes the
\* handler itself raise.
Refresh(a) ==
    /\ pc[a] = "refresh"
    /\ \/ /\ status = "deleted"
          /\ Leave(a, "failed")
          /\ UNCHANGED seen
       \/ /\ status = "cancelled"
          /\ Leave(a, "finished")
          /\ seen' = [seen EXCEPT ![a] = status]
       \/ /\ status \notin {"deleted", "cancelled"}
          /\ Goto(a, "fail")
          /\ seen' = [seen EXCEPT ![a] = status]
          /\ UNCHANGED rq
    /\ UNCHANGED <<row, stores, events, stop, cursor, absent, handlers>>

\* The failure is recorded under the fence, or unconditionally by the legacy
\* worker (which writes nothing if it has just read "failed").  A database
\* error here leaves the row as it is.
FailureUnfenced(a) == status # "deleted"  \* mutant: the fenced write made plain

FailureAllowed(a) ==
    IF JournalEnabled THEN LeaseCurrent(a)
    ELSE status # "deleted" /\ seen[a] # "failed"

MarkFailed(a) ==
    /\ pc[a] = "fail"
    /\ \/ /\ FailureAllowed(a)
          /\ status' = "failed"
          /\ seen' = [seen EXCEPT ![a] = "failed"]
          /\ Goto(a, "notify_failed")
          /\ UNCHANGED rq
       \/ /\ status = "deleted"
          /\ Leave(a, "failed")
          /\ UNCHANGED <<status, seen>>
       \/ /\ status = "cancelled"
          /\ Leave(a, "finished")
          /\ seen' = [seen EXCEPT ![a] = status]
          /\ UNCHANGED status
       \/ /\ status \notin {"deleted", "cancelled"}
          /\ Goto(a, "notify_failed")
          /\ seen' = [seen EXCEPT ![a] = status]
          /\ UNCHANGED <<status, rq>>
    /\ UNCHANGED <<token, epoch, lease, output, rqRef, stores, events, stop,
                   cursor, absent, handlers>>

\* _auto_archive: a failed submission rolls the session back, which makes the
\* next access to job.status read the row; otherwise the session keeps the
\* value it read before the completion.
AutoArchive(a) ==
    /\ pc[a] = "archive"
    /\ \/ /\ Goto(a, "notify_ok")
          /\ UNCHANGED <<seen, rq>>
       \/ /\ status # "deleted"
          /\ Goto(a, "notify_ok")
          /\ seen' = [seen EXCEPT ![a] = status]
          /\ UNCHANGED rq
       \/ /\ status = "deleted"
          /\ Leave(a, "failed")
          /\ UNCHANGED seen
    /\ UNCHANGED <<row, stores, events, stop, cursor, absent, handlers>>

\* queue_job_webhook: one delivery row per (job, event), named after the
\* in-memory status; an error is swallowed.
Notify(a) ==
    /\ pc[a] \in {"notify_ok", "notify_failed"}
    /\ events' \in {events, events \cup {seen[a]}}
    /\ Leave(a, IF pc[a] = "notify_ok" THEN "finished" ELSE "failed")
    /\ UNCHANGED <<row, stores, stop, seen, cursor, absent, handlers>>

\* A renewal counts from now, not from the expiry it replaces.
RenewedFromExpiry == lease + TTL          \* mutant: the time left is kept
Renewed           == TTL

\* WorkerHeartbeat.beat_once, from the thread that lives as long as the attempt.
LateBeat(a)    == status = "running" /\ token = a  \* mutant: expiry not checked
BeatAllowed(a) == LeaseCurrent(a)

Heartbeat(a) ==
    /\ JournalEnabled
    /\ pc[a] \in Executing
    /\ BeatAllowed(a)
    /\ lease' = Renewed
    /\ UNCHANGED <<status, token, epoch, output, rqRef, stores, events, queue,
                   attempts, handlers>>

Work(a) ==
    \/ Start(a) \/ Claim(a) \/ LegacyStart(a)
    \/ Progress(a, "load", "progress80") \/ Progress(a, "progress80", "check")
    \/ CheckCancelled(a) \/ CheckLease(a) \/ WriteJournal(a)
    \/ Store(a) \/ Flush(a) \/ Publish(a)
    \/ Cleanup(a) \/ Compensate(a) \/ Refresh(a) \/ MarkFailed(a)
    \/ AutoArchive(a) \/ Notify(a)

-----------------------------------------------------------------------------
(* The environment of the attempts: time, the queue, crashes.              *)

\* lease counts down to zero, the expiry, and on to -Grace: a bound of the
\* model, beyond which no predicate of the code tells two instants apart.
ClockRuns == token # None /\ lease > -Grace

Tick ==
    /\ ClockRuns
    /\ lease' = lease - 1
    /\ UNCHANGED <<status, token, epoch, output, rqRef, stores, events, queue,
                   attempts, handlers>>

Running(a) == pc[a] \in Executing \cup {"claim"}

\* SIGKILL of the work-horse, at any point.
Crash(a) ==
    /\ Running(a)
    /\ Goto(a, "dead")
    /\ UNCHANGED <<row, stores, events, queue, seen, cursor, absent, handlers>>

\* The stop command of a cancellation reaches the worker.
StopHorse(a) ==
    /\ stop
    /\ Running(a)
    /\ Goto(a, "dead")
    /\ stop' = FALSE
    /\ rq' = "stopped"
    /\ UNCHANGED <<row, stores, events, seen, cursor, absent, handlers>>

\* The queue declares a started entry abandoned and failed: after the death of
\* its work-horse, or of a worker it has merely lost sight of.
Abandon ==
    /\ rq = "started"
    /\ rq' = "failed"
    /\ UNCHANGED <<row, stores, events, stop, attempts, handlers>>

-----------------------------------------------------------------------------
(* The request that created the job: enqueue, then record the queue id.    *)

\* An exception does not tell whether the entry reached the queue.
Enqueue ==
    /\ creator = "enqueue"
    /\ \/ creator' = "ref" /\ rq' = "queued"
       \/ creator' = "late" /\ rq' \in {"none", "queued"}
    /\ UNCHANGED <<row, stores, events, stop, attempts, cancel, clearing, recovery>>

RecordQueueId ==
    /\ creator = "ref"
    /\ creator' = "done"
    /\ rqRef' = (status # "deleted")
    /\ UNCHANGED <<status, token, epoch, lease, output, stores, events, queue,
                   attempts, cancel, clearing, recovery>>

\* The exception handler writes "failed" over whatever the row has become.
FailEnqueue ==
    /\ creator = "late"
    /\ creator' = "done"
    /\ status' = IF status = "deleted" THEN status ELSE "failed"
    /\ UNCHANGED <<token, epoch, lease, output, rqRef, stores, events, queue,
                   attempts, cancel, clearing, recovery>>

\* The API process dies between two of these steps.
CreatorCrash ==
    /\ creator # "done"
    /\ creator' = "done"
    /\ UNCHANGED <<row, stores, events, queue, attempts, cancel, clearing, recovery>>

-----------------------------------------------------------------------------
(* cancel_job: read the row, act on the queue, then write the row without  *)
(* looking at it again.                                                    *)

CancelRead ==
    /\ cancel = "idle"
    /\ status \in {"queued", "running"}
    /\ rqRef
    /\ cancel' = status
    /\ UNCHANGED <<row, stores, events, queue, attempts, creator, clearing, recovery>>

\* A failed call answers 503 and writes nothing; the queue may have acted.
CancelQueue ==
    /\ cancel \in {"queued", "running"}
    /\ cancel' \in {"write", "idle"}
    /\ \/ /\ rq' = IF cancel = "queued" THEN "canceled" ELSE rq
          /\ stop' = (stop \/ cancel = "running")
       \/ /\ cancel' = "idle"
          /\ UNCHANGED queue
    /\ UNCHANGED <<row, stores, events, attempts, creator, clearing, recovery>>

CancelWrite ==
    /\ cancel = "write"
    /\ cancel' = "done"
    /\ status' = IF status = "deleted" THEN status ELSE "cancelled"
    /\ UNCHANGED <<token, epoch, lease, output, rqRef, stores, events, queue,
                   attempts, creator, clearing, recovery>>

-----------------------------------------------------------------------------
(* clear_terminal_jobs: select the terminal rows, then delete them by key  *)
(* together with their webhook deliveries.  The journal has no foreign key *)
(* to the job and stays.                                                   *)

ClearRead ==
    /\ ~clearing
    /\ status \in Terminal
    /\ clearing' = TRUE
    /\ UNCHANGED <<row, stores, events, queue, attempts, creator, cancel, recovery>>

ClearDelete ==
    /\ clearing
    /\ status # "deleted"
    /\ status' = "deleted"
    /\ events' = {}
    /\ UNCHANGED <<token, epoch, lease, output, rqRef, stores, queue, attempts, handlers>>

-----------------------------------------------------------------------------
(* inspect_or_recover_expired_job --apply: evidence first, then one        *)
(* conditional UPDATE that revokes the lease.                              *)

Expired == status = "running" /\ token # None /\ output = None /\ lease <= -Grace

QueueStopped == rq \in {"stopped", "canceled"}  \* mutant: "failed" forgotten
QueueOver    == rq \in TerminalRq

Recoverable ==
    /\ Expired
    /\ rqRef
    /\ QueueOver
    /\ \A n \in Name : n[1] = token => journal[n] # "committed"

RecoverInspect ==
    /\ JournalEnabled
    /\ recovery = "idle"
    /\ Recoverable
    /\ recovery' = "ready"
    /\ UNCHANGED <<row, stores, events, queue, attempts, creator, cancel, clearing>>

RecoverApply ==
    /\ recovery = "ready"
    /\ recovery' = "idle"
    /\ \/ /\ Expired
          /\ status' = "failed"
          /\ token' = None
       \/ /\ ~Expired
          /\ UNCHANGED <<status, token>>
    /\ UNCHANGED <<epoch, lease, output, rqRef, stores, events, queue, attempts,
                   creator, cancel, clearing>>

-----------------------------------------------------------------------------
Environment ==
    \/ Tick \/ Abandon
    \/ Enqueue \/ RecordQueueId \/ FailEnqueue \/ CreatorCrash
    \/ CancelRead \/ CancelQueue \/ CancelWrite
    \/ ClearRead \/ ClearDelete
    \/ RecoverInspect \/ RecoverApply

Next ==
    \/ \E a \in Attempt : Work(a) \/ Heartbeat(a) \/ Crash(a) \/ StopHorse(a)
    \/ Environment

Spec == Init /\ [][Next]_vars

\* Attempts under way, the clock, the queue's watch over dead workers and the
\* creating request go on; nobody is obliged to deliver the job, to cancel,
\* clear, recover, crash, or beat.
Fairness ==
    /\ \A a \in Attempt : WF_vars(pc[a] # "idle" /\ Work(a))
    /\ WF_vars(Tick)
    /\ WF_vars(Abandon)
    /\ WF_vars(RecordQueueId)
    /\ WF_vars(FailEnqueue)

FairSpec == Spec /\ Fairness

-----------------------------------------------------------------------------
(* Safety of the fenced worker.                                            *)

\* Every object that no saved FileRecord owns can be found through a journal
\* row still marked planned or needs_review, whatever upload, delete, commit or
\* crash happened (reserve_writes before store_staged_file; compensate_writes
\* only after a confirmed delete).
OrphansJournalled ==
    \A n \in objects \ files : journal[n] \in {"planned", "needs_review"}

\* No cleanup path, of whatever attempt, removes the object of a saved
\* FileRecord: a file offered for download exists in the store.
PublishedBacked == files \subseteq objects

\* Results are visible as the whole bundle of the one attempt the job points
\* to, and the journal calls exactly those destinations committed.
AllOrNothing ==
    /\ files = IF output = None THEN {} ELSE Names(output)
    /\ JournalEnabled => files = {n \in Name : journal[n] = "committed"}

\* A duplicate delivery never gets past the claim: at most one attempt of the
\* job ever executes, whatever crashed before (claim_queued_job is claim-once).
SingleExecutor ==
    \A a, b \in Attempt : pc[a] \in Executing /\ pc[b] \in Executing => a = b

\* A lease that has run out stays out: neither a late heartbeat of a stalled
\* worker nor a new claim makes it current again.
LeaseNeverRevives ==
    [][token # None /\ lease <= 0 => lease' <= 0]_vars

\* After the operator has recovered a job, a worker that was only stalled can
\* publish nothing and cannot bring the job back.
RecoveryIsFinal ==
    [][epoch > 0 /\ token = None => /\ UNCHANGED <<files, output, token>>
                                    /\ status' \notin {"queued", "running", "completed"}]_vars

\* Once cancel_job has committed, results not yet published stay unpublished.
CancelStopsPublication ==
    [][cancel = "done" /\ files = {} => files' = {}]_vars

\* Only the enqueue handler can turn a published job into a failed one: the
\* worker's own failure path does not, even when the acknowledgement of its
\* completing commit was lost.
NoFailureAfterPublish ==
    [][files # {} /\ status # "failed" /\ status' = "failed" => creator = "late"]_vars

\* Without the fence, a job in a terminal status that no attempt is about to
\* start neither runs nor completes any more: the completion looks at the
\* status, and the failure path writes no other status than "failed".
NoResurrection ==
    [][/\ status \in Terminal
       /\ \A a \in Attempt : pc[a] \notin {"idle", "claim"}
       => status' = status \/ status' \notin {"queued", "running", "completed"}]_vars

\* A job left running by a worker that died or could not record its failure
\* comes within reach of the operator's recovery: the lease runs out past the
\* grace period and the queue entry becomes terminal.  The exception is a
\* second delivery that was turned away by the claim after the first had died:
\* it leaves the entry "finished" (process_job returns ""), which is no
\* evidence for lease_recovery, and the job stays running.
StuckBecomesRecoverable ==
    (/\ status = "running"
     /\ rqRef
     /\ \A a \in Attempt : ~Running(a))
    ~> (status # "running" \/ Recoverable \/ rq = "finished")

(* What the documentation says and the code does not keep.                 *)

\* "Only queued or running jobs can be cancelled" (routers/jobs.py).
OnlyLiveJobsCancelled ==
    [][status # "cancelled" /\ status' = "cancelled"
       => status \in {"queued", "running"}]_vars

\* "Job completion/failure webhooks are queued durably" (CHANGELOG): when the
\* worker of a published job has queued an event, it is the completion.
CompletionAnnounced == files # {} /\ events # {} => "completed" \in events

\* The fenced worker with its handlers implements the promise of JobLifecycle.
Lifecycle == INSTANCE JobLifecycle
    WITH published <- files, Bundles <- {Names(a) : a \in Attempt}

ImplementsLifecycle == Lifecycle!Spec
=============================================================================
