---------------------------- MODULE FileRetention ----------------------------
(***************************************************************************)
(* Stored files between upload and deletion: the FileRecord rows, their    *)
(* objects, the jobs that use files as input, and the four programs that   *)
(* meet on them without a common lock: uploads, job creation and retry,    *)
(* the deletions of the API, and the cleanup worker.                       *)
(*                                                                         *)
(* Each query, each commit and each call to the object store is one step.  *)
(* Both deletions remove the objects first and the rows in one commit at   *)
(* the end; if anything raises in between, the rows are rolled back and    *)
(* the objects already removed stay removed.                               *)
(***************************************************************************)
EXTENDS Naturals, FiniteSets

CONSTANTS
    File,
    Job,
    MaxFailures       \* bound: deletions that raise or die halfway

ASSUME FailuresAssumption == MaxFailures \in Nat

VARIABLES
    record,           \* FileRecord: "absent", or its expires_at
    objects,          \* files whose object is in the store
    upload,           \* where the upload of each file stands
    job, inputs,      \* JobRecord.status and input_file_ids_json
    cleaner, cleanTodo, cleanDone,
    eraser, eraseTodo, eraseDone,
    fresh,            \* jobs committed since the cleaner read the active ones
    failures

jobs        == <<job, inputs>>
cleanerVars == <<cleaner, cleanTodo, cleanDone>>
eraserVars  == <<eraser, eraseTodo, eraseDone>>
vars        == <<record, objects, upload, jobs, cleanerVars, eraserVars, fresh, failures>>

-----------------------------------------------------------------------------
\* "live": expires_at is NULL or in the future.
RecordState == {"absent", "live", "expired"}
\* "checked": the request has read the files and not yet committed the job.
JobState    == {"none", "checked", "queued", "running", "failed", "completed"}
Active      == {"queued", "running"}

TypeOK ==
    /\ record \in [File -> RecordState]
    /\ objects \in SUBSET File
    /\ upload \in [File -> {"none", "stored", "done", "failed"}]
    /\ job \in [Job -> JobState]
    /\ inputs \in [Job -> SUBSET File]
    /\ cleaner \in {"idle", "started", "purge"}
    /\ {cleanTodo, cleanDone} \subseteq SUBSET File
    /\ eraser \in {"idle", "purge"}
    /\ {eraseTodo, eraseDone} \subseteq SUBSET File
    /\ fresh \in SUBSET Job
    /\ failures \in 0 .. MaxFailures

Init ==
    /\ record = [f \in File |-> "absent"]
    /\ objects = {}
    /\ upload = [f \in File |-> "none"]
    /\ job = [j \in Job |-> "none"]
    /\ inputs = [j \in Job |-> {}]
    /\ cleaner = "idle"
    /\ cleanTodo = {} /\ cleanDone = {}
    /\ eraser = "idle"
    /\ eraseTodo = {} /\ eraseDone = {}
    /\ fresh = {}
    /\ failures = 0

Existing == {f \in File : record[f] # "absent"}

\* delete_stored_name: when it returns, the object is gone; otherwise it raises.
AfterSwallowed(f) == objects                \* mutant: a failure is swallowed
AfterDelete(f)    == objects \ {f}

-----------------------------------------------------------------------------
(* upload_file: the object, then the record; an exception removes the      *)
(* object again, even if the commit had taken effect before the commit or  *)
(* the refresh after it raised.  A process that dies stays at "stored".    *)

UploadStore(f) ==
    /\ upload[f] = "none"
    /\ upload' = [upload EXCEPT ![f] = "stored"]
    /\ objects' = objects \cup {f}
    /\ UNCHANGED <<record, jobs, cleanerVars, eraserVars, fresh, failures>>

UploadCommit(f) ==
    /\ upload[f] = "stored"
    /\ upload' = [upload EXCEPT ![f] = "done"]
    /\ record' = [record EXCEPT ![f] = "live"]
    /\ UNCHANGED <<objects, jobs, cleanerVars, eraserVars, fresh, failures>>

UploadFail(f) ==
    /\ upload[f] = "stored"
    /\ objects' = AfterDelete(f)
    /\ \/ /\ upload' = [upload EXCEPT ![f] = "failed"]
          /\ UNCHANGED record
       \/ /\ upload' = [upload EXCEPT ![f] = "done"]
          /\ record' = [record EXCEPT ![f] = "live"]
    /\ UNCHANGED <<jobs, cleanerVars, eraserVars, fresh, failures>>

\* Time passes expires_at.
Expire(f) ==
    /\ record[f] = "live"
    /\ record' = [record EXCEPT ![f] = "expired"]
    /\ UNCHANGED <<objects, upload, jobs, cleanerVars, eraserVars, fresh, failures>>

\* Keeps the file or starts a new term, whether or not the old one is over.
UpdateRetention(f) ==
    /\ record[f] = "expired"
    /\ record' = [record EXCEPT ![f] = "live"]
    /\ UNCHANGED <<objects, upload, jobs, cleanerVars, eraserVars, fresh, failures>>

-----------------------------------------------------------------------------
(* Jobs: _create_job looks at existence and expiry, retry_job only at      *)
(* existence; the row is committed later.                                  *)

CreateCheck(j, S) ==
    /\ job[j] = "none"
    /\ S # {}
    /\ \A f \in S : record[f] = "live"
    /\ job' = [job EXCEPT ![j] = "checked"]
    /\ inputs' = [inputs EXCEPT ![j] = S]
    /\ UNCHANGED <<record, objects, upload, cleanerVars, eraserVars, fresh, failures>>

RetryCheck(j, source) ==
    /\ job[j] = "none"
    /\ job[source] = "failed"
    /\ inputs[source] \subseteq Existing
    /\ job' = [job EXCEPT ![j] = "checked"]
    /\ inputs' = [inputs EXCEPT ![j] = inputs[source]]
    /\ UNCHANGED <<record, objects, upload, cleanerVars, eraserVars, fresh, failures>>

CreateCommit(j) ==
    /\ job[j] = "checked"
    /\ job' = [job EXCEPT ![j] = "queued"]
    /\ fresh' = IF cleaner = "idle" THEN fresh ELSE fresh \cup {j}
    /\ UNCHANGED <<record, objects, upload, inputs, cleanerVars, eraserVars, failures>>

\* process_job: the claim; then the inputs are looked up, and without them the
\* job cannot complete.  "failed" stands for cancelled too.
Work(j) ==
    /\ \/ /\ job[j] = "queued"
          /\ job' = [job EXCEPT ![j] = "running"]
       \/ /\ job[j] = "running"
          /\ inputs[j] \subseteq Existing \cap objects
          /\ job' = [job EXCEPT ![j] = "completed"]
       \/ /\ job[j] \in Active
          /\ job' = [job EXCEPT ![j] = "failed"]
    /\ UNCHANGED <<record, objects, upload, inputs, cleanerVars, eraserVars, fresh, failures>>

-----------------------------------------------------------------------------
(* cleanup_once.  The cut-off time is taken just before the active jobs    *)
(* are read; the two are one step here.                                    *)

ProtectingQueued == {"queued"}              \* mutant: running jobs forgotten
ProtectingAll    == JobState                \* mutant: finished jobs protect too
Protecting       == Active

Protected == UNION {inputs[j] : j \in {k \in Job : job[k] \in Protecting}}

CleanStart ==
    /\ cleaner = "idle"
    /\ cleaner' = "started"
    /\ cleanTodo' = {f \in File : record[f] = "expired"} \ Protected
    /\ fresh' = {}
    /\ UNCHANGED <<record, objects, upload, jobs, cleanDone, eraserVars, failures>>

\* The files expired by then that are so still when the second query runs.
CleanList ==
    /\ cleaner = "started"
    /\ cleaner' = "purge"
    /\ cleanTodo' = {f \in cleanTodo : record[f] = "expired"}
    /\ UNCHANGED <<record, objects, upload, jobs, cleanDone, eraserVars, fresh, failures>>

CleanPurge(f) ==
    /\ cleaner = "purge"
    /\ f \in cleanTodo
    /\ objects' = AfterDelete(f)
    /\ cleanTodo' = cleanTodo \ {f}
    /\ cleanDone' = cleanDone \cup {f}
    /\ UNCHANGED <<record, upload, jobs, cleaner, eraserVars, fresh, failures>>

\* One commit deletes the rows of the files done, whatever has become of their
\* expiry.
CleanCommit ==
    /\ cleaner = "purge"
    /\ cleanTodo = {}
    /\ cleaner' = "idle"
    /\ cleanDone' = {}
    /\ record' = [f \in File |-> IF f \in cleanDone THEN "absent" ELSE record[f]]
    /\ fresh' = {}
    /\ UNCHANGED <<objects, upload, jobs, cleanTodo, eraserVars, failures>>

\* A delete that raises, with or without effect, or the death of the worker.
CleanAbort ==
    /\ cleaner # "idle"
    /\ failures < MaxFailures
    /\ failures' = failures + 1
    /\ cleaner' = "idle"
    /\ cleanTodo' = {}
    /\ cleanDone' = {}
    /\ objects' \in {objects} \cup {objects \ {f} : f \in cleanTodo}
    /\ fresh' = {}
    /\ UNCHANGED <<record, upload, jobs, eraserVars>>

-----------------------------------------------------------------------------
(* delete_file and bulk_delete_files, one request at a time.  The check of *)
(* all the files of a request is one step.                                 *)

Unused(S) == \A j \in Job : job[j] \in Active => inputs[j] \cap S = {}

EraseCheck(S) ==
    /\ eraser = "idle"
    /\ S # {} /\ S \subseteq Existing
    /\ Unused(S)
    /\ eraser' = "purge"
    /\ eraseTodo' = S
    /\ UNCHANGED <<record, objects, upload, jobs, cleanerVars, eraseDone, fresh, failures>>

ErasePurge(f) ==
    /\ eraser = "purge"
    /\ f \in eraseTodo
    /\ objects' = AfterDelete(f)
    /\ eraseTodo' = eraseTodo \ {f}
    /\ eraseDone' = eraseDone \cup {f}
    /\ UNCHANGED <<record, upload, jobs, cleanerVars, eraser, fresh, failures>>

EraseCommit ==
    /\ eraser = "purge"
    /\ eraseTodo = {}
    /\ eraser' = "idle"
    /\ eraseDone' = {}
    /\ record' = [f \in File |-> IF f \in eraseDone THEN "absent" ELSE record[f]]
    /\ UNCHANGED <<objects, upload, jobs, cleanerVars, eraseTodo, fresh, failures>>

EraseAbort ==
    /\ eraser = "purge"
    /\ failures < MaxFailures
    /\ failures' = failures + 1
    /\ eraser' = "idle"
    /\ eraseTodo' = {}
    /\ eraseDone' = {}
    /\ objects' \in {objects} \cup {objects \ {f} : f \in eraseTodo}
    /\ UNCHANGED <<record, upload, jobs, cleanerVars, fresh>>

-----------------------------------------------------------------------------
Cleaner ==
    CleanStart \/ CleanList \/ CleanCommit \/ \E f \in File : CleanPurge(f)

Next ==
    \/ Cleaner \/ CleanAbort
    \/ EraseCommit \/ EraseAbort
    \/ \E f \in File :
          \/ UploadStore(f) \/ UploadCommit(f) \/ UploadFail(f)
          \/ Expire(f)
          \/ UpdateRetention(f)
          \/ ErasePurge(f)
    \/ \E S \in SUBSET File : EraseCheck(S) \/ \E j \in Job : CreateCheck(j, S)
    \/ \E j \in Job : CreateCommit(j) \/ Work(j) \/ \E source \in Job : RetryCheck(j, source)

Spec == Init /\ [][Next]_vars

\* The cleanup worker runs one cycle after the other.  Requests are nobody's
\* obligation, and neither is the end of a job: an API that dies before the
\* enqueue leaves one queued, a killed work-horse leaves one running.
FairSpec == Spec /\ WF_vars(Cleaner)

-----------------------------------------------------------------------------
\* Deletion leaves no object without its row, however uploads, cleanup and
\* deletions fail halfway: only an upload that died does (upload_file,
\* cleanup_once, _delete_file_record).
NoSilentOrphan ==
    \A f \in objects \ Existing : upload[f] = "stored"

\* While the cleanup worker removes objects, a job that was active when it read
\* the jobs does not lose an input, whatever that job and the retention of its
\* files have become since (_active_input_ids).
CleanerSpares ==
    cleaner = "purge" =>
        \A j \in Job : job[j] \in Active /\ inputs[j] \cap (cleanTodo \cup cleanDone) # {}
                          => j \in fresh

\* A file whose time has come and that no active job uses is purged, unless its
\* retention is renewed or an active job comes to use it meanwhile: neither
\* finished jobs nor an aborted cycle nor requests that delete at the same time
\* protect it for ever.  A job that stays active does (_active_input_ids).  No
\* action tells one file from another, so any one of them stands for all.
ExpiredPurged ==
    LET f == CHOOSE g \in File : TRUE
    IN  record[f] = "expired" /\ Unused({f}) ~> record[f] # "expired" \/ ~Unused({f})

\* "File is being used by an active job": the deletions of the API remove no
\* object that a queued or running job has as input.
ActiveInputsKept ==
    [][\A f \in eraseDone' \ eraseDone :
        \A j \in Job : f \in inputs[j] => job[j] \notin Active]_vars
=============================================================================
