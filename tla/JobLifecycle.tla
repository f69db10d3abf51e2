---------------------------- MODULE JobLifecycle ----------------------------
(***************************************************************************)
(* What a caller of the API is promised about one processing job: its      *)
(* status and the set of result files it can download.  The bundle of one  *)
(* execution attempt appears all at once, together with the step from      *)
(* running to completed, and no later step of the job changes it.          *)
(*                                                                         *)
(* The API handlers write the status without looking at the row again, so  *)
(* a cancellation or a failed enqueue may land on a job that has already   *)
(* finished: ApiCancel and ApiFail are enabled in every status.            *)
(***************************************************************************)
CONSTANT Bundles        \* the result sets an execution attempt may publish

VARIABLES status,       \* JobRecord.status, "deleted" once the row is gone
          published     \* the FileRecords of the job

vars == <<status, published>>

Terminal == {"completed", "failed", "cancelled"}
Live     == {"queued", "running"}
Status   == Live \cup Terminal \cup {"deleted"}

TypeOK ==
    /\ status \in Status
    /\ published \in Bundles \cup {{}}

Init ==
    /\ status = "queued"
    /\ published = {}

Start ==
    /\ status = "queued"
    /\ status' = "running"
    /\ UNCHANGED published

\* The results and the completion become visible in one transaction.
Complete ==
    /\ status = "running"
    /\ published = {}
    /\ status' = "completed"
    /\ published' \in Bundles

WorkerFail ==
    /\ status = "running"
    /\ published = {}
    /\ status' = "failed"
    /\ UNCHANGED published

ApiCancel ==
    /\ status # "deleted"
    /\ status' = "cancelled"
    /\ UNCHANGED published

ApiFail ==
    /\ status # "deleted"
    /\ status' = "failed"
    /\ UNCHANGED published

\* History can be cleared only for a job that was seen in a terminal status.
ClearHistory ==
    /\ status \in Terminal
    /\ status' = "deleted"
    /\ UNCHANGED published

Next == Start \/ Complete \/ WorkerFail \/ ApiCancel \/ ApiFail \/ ClearHistory

Spec == Init /\ [][Next]_vars
=============================================================================
