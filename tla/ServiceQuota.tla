---------------------------- MODULE ServiceQuota ----------------------------
(***************************************************************************)
(* The daily job quota and the storage quota of one service.  A check      *)
(* sums what is committed, under a lock on the row of the service's        *)
(* policy, and the lock ends with the transaction: for an upload, a new    *)
(* job and the legacy worker that is the commit of what was checked; for   *)
(* a worker with the write journal it is the commit of the journal, before *)
(* the output is stored.  A service without a row (a human user) has       *)
(* nothing to lock.                                                        *)
(***************************************************************************)
EXTENDS Integers, FiniteSets, FiniteSetsExt

CONSTANTS
    Writer,           \* uploads, job creations and workers of one service
    MaxSize,          \* bound: the largest upload or output
    Allowed           \* bound: limits an administrator sets; 0 is "no limit"

NoWriter == "nobody"
Task     == {"upload", "create", "legacy", "journal"}
Resource == {"jobs", "storage"}

VARIABLES
    task, size,       \* what each writer does, and how much it adds
    phase,            \* where it stands
    allowance,        \* the limit it checks against
    policyRow,        \* the service has a ServicePolicy row
    limit,            \* the limits in that row, or the defaults
    lock,             \* who holds the row lock
    lapsed,           \* committed files that have expired
    governed,         \* ghost: writers whose check found a row
    overtaken         \* ghost: writers pending while others added unlocked

writers   == <<task, size>>
policy    == <<policyRow, limit>>
ghosts    == <<governed, overtaken>>
quotaVars == <<writers, phase, allowance, policy, lock, lapsed, ghosts>>

Uses(w) == IF task[w] = "create" THEN "jobs" ELSE "storage"

TypeOK ==
    /\ task \in [Writer -> Task]
    /\ size \in [Writer -> 1 .. MaxSize]
    /\ phase \in [Writer -> {"new", "known", "checked", "reserved", "done", "gone"}]
    /\ allowance \in [Writer -> Allowed \cup {0}]
    /\ policyRow \in BOOLEAN
    /\ limit \in [Resource -> Allowed]
    /\ lock \in Writer \cup {NoWriter}
    /\ lapsed \in SUBSET Writer
    /\ {governed, overtaken} \subseteq SUBSET Writer

Init ==
    /\ task \in [Writer -> Task]
    /\ size \in {s \in [Writer -> 1 .. MaxSize] : \A w \in Writer : task[w] = "create" => s[w] = 1}
    /\ phase = [w \in Writer |-> "new"]
    /\ allowance = [w \in Writer |-> 0]
    /\ policyRow \in BOOLEAN
    /\ limit \in [Resource -> Allowed]
    /\ lock = NoWriter
    /\ lapsed = {} /\ governed = {} /\ overtaken = {}

\* active_storage_bytes, and the jobs of the day: committed rows, without the
\* files whose time is over.
Used(r) ==
    MapThenSumSet(LAMBDA w : size[w],
                  {w \in Writer : phase[w] = "done" /\ Uses(w) = r} \ lapsed)

-----------------------------------------------------------------------------
\* get_principal: the limits a request works with are read here, once.
Authenticate(w) ==
    /\ phase[w] = "new"
    /\ task[w] \in {"upload", "create"}
    /\ phase' = [phase EXCEPT ![w] = "known"]
    /\ allowance' = [allowance EXCEPT ![w] = limit[Uses(w)]]
    /\ UNCHANGED <<writers, policy, lock, lapsed, ghosts>>

\* The worker reads its policy when it comes to the check.
ReadPolicy(w) ==
    /\ phase[w] = "new"
    /\ task[w] \in {"legacy", "journal"}
    /\ phase' = [phase EXCEPT ![w] = "known"]
    /\ allowance' = [allowance EXCEPT ![w] = limit["storage"]]
    /\ UNCHANGED <<writers, policy, lock, lapsed, ghosts>>

LockNothing(w) == FALSE                     \* mutant: a plain SELECT
TakesLock(w)   == policyRow

\* ensure_daily_job_quota, ensure_storage_quota.
Check(w) ==
    /\ phase[w] = "known"
    /\ IF allowance[w] = 0
         THEN /\ phase' = [phase EXCEPT ![w] = "checked"]
              /\ UNCHANGED <<lock, governed>>
         ELSE /\ TakesLock(w) => lock = NoWriter
              /\ IF Used(Uses(w)) + size[w] > allowance[w]
                   THEN /\ phase' = [phase EXCEPT ![w] = "gone"]
                        /\ UNCHANGED <<lock, governed>>
                   ELSE /\ phase' = [phase EXCEPT ![w] = "checked"]
                        /\ lock' = IF TakesLock(w) THEN w ELSE lock
                        /\ governed' = IF policyRow THEN governed \cup {w} ELSE governed
    /\ UNCHANGED <<writers, allowance, policy, lapsed, overtaken>>

Pending == {w \in Writer : phase[w] \in {"checked", "reserved"}}

\* The end of a writer's transaction, and of the writer.
Unlock(w) == lock' = IF lock = w THEN NoWriter ELSE lock

End(w, others) ==
    /\ Unlock(w)
    /\ allowance' = [allowance EXCEPT ![w] = 0]
    /\ governed' = governed \ {w}
    /\ overtaken' = (overtaken \cup others) \ {w}

\* The commit of an upload, of a job, of a legacy worker's output.
Commit(w) ==
    /\ phase[w] = "checked"
    /\ task[w] # "journal"
    /\ phase' = [phase EXCEPT ![w] = "done"]
    /\ End(w, IF w \in governed THEN {} ELSE Pending)
    /\ UNCHANGED <<writers, policy, lapsed>>

\* reserve_writes commits the journal, and with it the row lock goes.
Reserve(w) ==
    /\ phase[w] = "checked"
    /\ task[w] = "journal"
    /\ phase' = [phase EXCEPT ![w] = "reserved"]
    /\ Unlock(w)
    /\ UNCHANGED <<writers, allowance, policy, lapsed, ghosts>>

PublishOutput(w) ==
    /\ phase[w] = "reserved"
    /\ phase' = [phase EXCEPT ![w] = "done"]
    /\ End(w, Pending)
    /\ UNCHANGED <<writers, policy, lapsed>>

\* Anything after the check raises, or the process dies: the transaction ends.
Abandon(w) ==
    /\ phase[w] \in {"checked", "reserved"}
    /\ phase' = [phase EXCEPT ![w] = "gone"]
    /\ End(w, {})
    /\ UNCHANGED <<writers, policy, lapsed>>

-----------------------------------------------------------------------------
\* Expiry, its renewal (update_retention checks no quota), and the deletion of
\* files or of the job history.
Lapse(w) ==
    /\ phase[w] = "done" /\ task[w] # "create" /\ w \notin lapsed
    /\ lapsed' = lapsed \cup {w}
    /\ UNCHANGED <<writers, phase, allowance, policy, lock, ghosts>>

Renew(w) ==
    /\ w \in lapsed
    /\ lapsed' = lapsed \ {w}
    /\ overtaken' = overtaken \cup Pending
    /\ UNCHANGED <<writers, phase, allowance, policy, lock, governed>>

Remove(w) ==
    /\ phase[w] = "done"
    /\ phase' = [phase EXCEPT ![w] = "gone"]
    /\ lapsed' = lapsed \ {w}
    /\ UNCHANGED <<writers, allowance, policy, lock, ghosts>>

\* update_service_policy waits for the row lock when there is a row.
UpdatePolicy(r, n) ==
    /\ policyRow => lock = NoWriter
    /\ policyRow' = TRUE
    /\ limit' = [limit EXCEPT ![r] = n]
    /\ UNCHANGED <<writers, phase, allowance, lock, lapsed, ghosts>>

-----------------------------------------------------------------------------
Next ==
    \/ \E w \in Writer :
          \/ Authenticate(w) \/ ReadPolicy(w) \/ Check(w)
          \/ Commit(w) \/ Reserve(w) \/ PublishOutput(w) \/ Abandon(w)
          \/ Lapse(w) \/ Renew(w) \/ Remove(w)
    \/ \E r \in Resource, n \in Allowed : UpdatePolicy(r, n)

Spec == Init /\ [][Next]_quotaVars

-----------------------------------------------------------------------------
\* A commit that was checked under the row lock leaves its service within the
\* limit it was checked against, whoever else writes: only a renewal of expired
\* files, the output of a journal worker, or a writer without a row can have
\* come in between (ensure_storage_quota, ensure_daily_job_quota).  A writer that
\* read the limit 0, which is none, was not checked and is not meant.
QuotaHeldToCommit ==
    [][\A w \in governed \ overtaken :
          phase[w] = "checked" /\ phase'[w] = "done" =>
              Used(Uses(w)) + size[w] <= allowance[w]]_quotaVars
=============================================================================
