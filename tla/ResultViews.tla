----------------------------- MODULE ResultViews -----------------------------
(* GET /jobs/{id}/artifacts of one finished job while its files go away.  The
   listing reads the job, then the links, then one file after the other, each
   in a query that sees what is committed by then; the owner deletes a file or
   keeps it, clears the job from the history, and the cleanup worker purges
   what it listed as expired.  File 0 is the bundle, the others its parts. *)
EXTENDS Naturals, FiniteSets

CONSTANTS
    Parts,                 \* parts of the bundle
    MaxAnswers             \* bound: listings asked for

VARIABLES
    files, expired, due,   \* FileRecords; the expired ones; those cleanup listed
    links, output,         \* JobOutputArtifact rows; JobRecord.output_file_id is set
    known,                 \* the JobRecord exists
    step, linked, got,     \* the listing: where it is, the links it read, the files it found
    stood, cleared,        \* history: files when it read the links; the job went meanwhile
    answer, answers        \* its last answer; how many

viewVars == <<files, expired, due, links, output, known, step, linked, got, stood, cleared, answer, answers>>

Bundle == 0
Artifact == 0..Parts

TypeOK ==
    /\ links \subseteq files /\ files \subseteq Artifact /\ expired \subseteq files /\ due \subseteq Artifact
    /\ output \in BOOLEAN /\ known \in BOOLEAN /\ cleared \in BOOLEAN
    /\ step \in {"idle", "job", "files"}
    /\ linked \subseteq Artifact /\ got \subseteq Artifact /\ stood \subseteq Artifact
    /\ answer \in {"none", "200", "404", "409", "410"} /\ answers \in 0..MaxAnswers

Init ==
    /\ files = Artifact /\ expired = {} /\ due = {} /\ links = Artifact /\ output = TRUE /\ known = TRUE
    /\ step = "idle" /\ linked = {} /\ got = {} /\ stood = {} /\ cleared = FALSE
    /\ answer = "none" /\ answers = 0

Listing == <<step, linked, got, stood, answer, answers>>
Store   == <<files, expired, due, links, output, known>>

(***************************************************************************)
(* The files.                                                               *)
(***************************************************************************)
(* _delete_file_record: the row, its link and the job's reference, one commit. *)
DeleteFile(f) ==
    /\ f \in files
    /\ files' = files \ {f} /\ expired' = expired \ {f} /\ links' = links \ {f}
    /\ output' = (output /\ f # Bundle)
    /\ UNCHANGED <<due, known, cleared, Listing>>

Expire(f) ==
    /\ f \in files \ expired /\ expired' = expired \cup {f}
    /\ UNCHANGED <<files, due, links, output, known, cleared, Listing>>

KeepFile(f) ==
    /\ f \in expired /\ expired' = expired \ {f}
    /\ UNCHANGED <<files, due, links, output, known, cleared, Listing>>

CleanList ==
    /\ due = {} /\ expired # {} /\ due' = expired
    /\ UNCHANGED <<files, expired, links, output, known, cleared, Listing>>

(* What an active job reads is passed over; the job's own reference stays. *)
CleanPurge ==
    /\ due # {} /\ due' = {}
    /\ \E purged \in SUBSET due :
         /\ files' = files \ purged /\ expired' = expired \ purged /\ links' = links \ purged
    /\ UNCHANGED <<output, known, cleared, Listing>>

ClearHistory ==
    /\ known /\ known' = FALSE /\ links' = {}
    /\ cleared' = (cleared \/ step # "idle")
    /\ UNCHANGED <<files, expired, due, output, Listing>>

(***************************************************************************)
(* get_job_artifacts.                                                       *)
(***************************************************************************)
Answer(code, found) ==
    /\ answer' = code /\ answers' = answers + 1 /\ step' = "idle" /\ got' = found

ReadJob ==
    /\ step = "idle" /\ answers < MaxAnswers
    /\ cleared' = FALSE /\ linked' = {} /\ stood' = {}
    /\ IF ~known THEN Answer("404", {})
       ELSE IF ~output THEN Answer("410", {})
       ELSE step' = "job" /\ got' = {} /\ UNCHANGED <<answer, answers>>
    /\ UNCHANGED Store

(* Without a link the job's own reference is followed, for jobs older than the
   links. *)
ReadLinks ==
    /\ step = "job" /\ linked' = links /\ stood' = files
    /\ IF links # {} THEN step' = "files" /\ UNCHANGED <<got, answer, answers>>
       ELSE IF Bundle \in files THEN Answer("200", {Bundle}) ELSE Answer("410", {})
    /\ UNCHANGED <<Store, cleared>>

Contiguous(parts) == parts = 1..Cardinality(parts)
Inspected(found) ==
    IF Bundle \notin found THEN "410" ELSE IF Contiguous(found \ {Bundle}) THEN "200" ELSE "409"

PassOver(f) ==                             \* mutant: a file that is gone is left out
    linked' = linked \ {f} /\ UNCHANGED <<step, got, answer, answers>>
Missing(f) == Answer("410", got) /\ UNCHANGED linked

ReadFile ==
    /\ step = "files"
    /\ IF linked = got THEN Answer(Inspected(got), got) /\ UNCHANGED linked
       ELSE \E f \in linked \ got :
              \/ f \in files /\ got' = got \cup {f} /\ UNCHANGED <<linked, step, answer, answers>>
              \/ f \notin files /\ Missing(f)
    /\ UNCHANGED <<Store, stood, cleared>>

Next ==
    \/ \E f \in Artifact : DeleteFile(f) \/ Expire(f) \/ KeepFile(f)
    \/ CleanList \/ CleanPurge \/ ClearHistory
    \/ ReadJob \/ ReadLinks \/ ReadFile

Spec == Init /\ [][Next]_viewVars

(***************************************************************************)
(* Properties.                                                              *)
(***************************************************************************)
(* A listing that is answered with 200 is the bundle with the parts up to some
   number, and exactly the files of the job there were at one moment, when its
   links were read: it has no hole, and nothing deleted, purged or kept between
   its queries makes it a mixture.  It may still be a remainder: parts that
   were gone from the end before that moment are missing without a sign, as the
   code counts the parts it finds and not those there were.  A job cleared from
   the history between the first two queries has its bundle listed alone. *)
ListingUnbroken ==
    [][answers' > answers /\ answer' = "200" =>
          /\ Bundle \in got' /\ Contiguous(got' \ {Bundle})
          /\ got' = stood' \/ (cleared /\ got' = {Bundle})]_viewVars
=============================================================================
