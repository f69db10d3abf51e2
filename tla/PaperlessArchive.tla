--------------------------- MODULE PaperlessArchive ---------------------------
(* Submissions of one finished PDF to Paperless: the worker's own after it has
   published the file, clerks' over the API, and the owner who may delete the
   file meanwhile.  They share one ArchiveRecord row, unique per file; each
   works on the copy its session loaded and writes back what it changed. *)
EXTENDS Naturals, FiniteSets

CONSTANT Clerk             \* requests to archive the file

VARIABLES
    record,                \* the FileRecord exists
    row,                   \* ArchiveRecord; status "none" when there is none
    progress, loaded,      \* [Actor -> where it is, the row as its session has it]
    receipt,                  \* [Actor -> the id Paperless gave it]
    accepted,              \* documents Paperless has taken
    announced              \* the job's completion has been handed to the webhooks

archiveVars == <<record, row, progress, loaded, receipt, accepted, announced>>

Actor == Clerk \cup {"worker"}
NoRow == [by |-> "none", status |-> "none", external |-> 0]   \* by: who inserted it
Over  == {"over", "raised", "dead"}

TypeOK ==
    /\ record \in BOOLEAN /\ announced \in BOOLEAN
    /\ row \in [by : Actor \cup {"none"}, status : {"none", "submitting", "submitted", "failed"}, external : 0..Cardinality(Actor)]
    /\ progress \in [Actor -> Over \cup {"idle", "looked", "posting", "posted", "failing"}]
    /\ \A a \in Actor : loaded[a].status \in {"none", "submitting", "submitted", "failed"}
    /\ receipt \in [Actor -> 0..Cardinality(Actor)] /\ accepted \in 0..Cardinality(Actor)

Init ==
    /\ record = TRUE /\ row = NoRow
    /\ progress = [a \in Actor |-> "idle"] /\ loaded = [a \in Actor |-> NoRow]
    /\ receipt = [a \in Actor |-> 0] /\ accepted = 0 /\ announced = FALSE

Go(a, stage) == progress' = [progress EXCEPT ![a] = stage]
Load(a, r)   == loaded' = [loaded EXCEPT ![a] = r]
Same(a) == row # NoRow /\ row.by = loaded[a].by       \* the row of its copy is still there

(* process_job goes on to the webhooks whether or not the document was taken,
   but not when _auto_archive itself raises. *)
Ends(a) == Go(a, "over") /\ announced' = (announced \/ a = "worker")
Raises(a) == Go(a, "raised") /\ UNCHANGED announced

Look(a) ==
    /\ progress[a] = "idle" /\ (a \in Clerk => record)
    /\ Go(a, "looked") /\ Load(a, row)
    /\ UNCHANGED <<record, row, receipt, accepted, announced>>

(* The insert meets the unique constraint if another came first; a clerk marks
   a row it found, the worker does not. *)
Save(a) ==
    /\ progress[a] = "looked"
    /\ IF IF loaded[a] = NoRow THEN row # NoRow ELSE a \in Clerk /\ ~Same(a)
       THEN Raises(a) /\ UNCHANGED <<row, loaded>>
       ELSE /\ Go(a, "posting")
            /\ row' = IF loaded[a] = NoRow THEN [NoRow EXCEPT !.by = a, !.status = "submitting"]
                      ELSE IF a \in Clerk /\ loaded[a].status # "submitting" THEN [row EXCEPT !.status = "submitting"]
                      ELSE row
            /\ Load(a, IF a \in Clerk \/ loaded[a] = NoRow THEN row' ELSE loaded[a])
            /\ UNCHANGED announced
    /\ UNCHANGED <<record, receipt, accepted>>

(* archive_to_paperless: an answer with a task id, a refusal or no answer - the
   document taken all the same -, or no file to send. *)
Post(a) ==
    /\ progress[a] = "posting"
    /\ \/ record /\ accepted' = accepted + 1 /\ receipt' = [receipt EXCEPT ![a] = accepted + 1] /\ Go(a, "posted")
       \/ record /\ accepted' = accepted + 1 /\ Go(a, "failing") /\ UNCHANGED receipt
       \/ Go(a, "failing") /\ UNCHANGED <<accepted, receipt>>
    /\ UNCHANGED <<record, row, loaded, announced>>

(* Only what differs from the copy is written, so the status is not written
   again by a session that loaded "submitted". *)
Written(a) ==
    [row EXCEPT !.status = IF loaded[a].status = "submitted" THEN @ ELSE "submitted", !.external = receipt[a]]

Succeed(a) ==
    /\ progress[a] = "posted"
    /\ IF Same(a) THEN row' = Written(a) /\ Ends(a) ELSE Go(a, "failing") /\ UNCHANGED <<row, announced>>
    /\ UNCHANGED <<record, loaded, receipt, accepted>>

(* The rollback expires the copy: looking at its key again raises if the row
   has gone. *)
FailUnwritten(a) == UNCHANGED row                     \* mutant: rolled back and left
FailWritten(a) == row' = [row EXCEPT !.status = "failed"]

Fail(a) ==
    /\ progress[a] = "failing"
    /\ IF Same(a) THEN FailWritten(a) /\ Ends(a) ELSE Raises(a) /\ UNCHANGED row
    /\ UNCHANGED <<record, loaded, receipt, accepted>>

Die(a) ==
    /\ progress[a] \notin Over \cup {"idle"} /\ Go(a, "dead")
    /\ UNCHANGED <<record, row, loaded, receipt, accepted, announced>>

(* _delete_file_record takes the archive rows it finds along. *)
DeleteFile ==
    /\ record /\ record' = FALSE /\ row' = NoRow
    /\ UNCHANGED <<progress, loaded, receipt, accepted, announced>>

Next ==
    \/ \E a \in Actor : Look(a) \/ Save(a) \/ Post(a) \/ Succeed(a) \/ Fail(a) \/ Die(a)
    \/ DeleteFile

Spec == Init /\ [][Next]_archiveVars

(***************************************************************************)
(* Properties.                                                              *)
(***************************************************************************)
Quiet == \A a \in Actor : progress[a] \in {"idle", "over", "raised"}

(* What the row says is so once nobody works on it: "submitted" names a document
   Paperless has taken, and "submitting" remains only after a crash.  And the
   worker's archiving keeps a completed job from being announced only if a
   clerk came between or the file was deleted. *)
ArchiveTold ==
    /\ row.status = "submitted" => row.external \in 1..accepted
    /\ Quiet => row.status # "submitting"
    /\ progress["worker"] = "raised" => ~record \/ \E c \in Clerk : progress[c] # "idle"
=============================================================================
