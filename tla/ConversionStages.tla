--------------------------- MODULE ConversionStages ---------------------------
(* The files of one job while a converter works: two attempts (process_job run
   twice: a redelivery, a retry, a lost lease), each with the output path its
   engine gives its product to and the hash taken before the file goes to the
   store.  With the write journal the output path carries the attempt's token;
   without it both attempts have the same path.  What happens to a stored
   object afterwards, and who may run when, is JobExecution. *)
EXTENDS Converters, Naturals, FiniteSets

CONSTANT Attempts          \* process_job runs of the job, numbered from 1

VARIABLES
    engine,                \* the converter of the job
    flaw,                  \* the one thing wrong with its source or product, or "none"
    fenced,                \* the write journal is on
    at,                    \* [Attempts -> stage]
    file,                  \* [path -> what the output path holds]
    digest, published,     \* [Attempts -> content hashed, content stored]
    overlap                \* history: two attempts were at work at once

stageVars == <<engine, flaw, fenced, at, file, digest, published, overlap>>

Absent == [by |-> 0, whole |-> FALSE]
Ended  == {"done", "failed", "cancelled", "blocked"}
Active(a) == at[a] \notin Ended \cup {"idle", "dead"}
E == EngineTable[engine]

TypeOK ==
    /\ engine \in DOMAIN EngineTable /\ flaw \in Defect \cup Fault \cup {"none"} /\ fenced \in BOOLEAN
    /\ at \in [Attempts -> Ended \cup {"idle", "dead", "reading", "working", "ready", "writing", "written",
                                       "converted", "staged", "hashed", "stored"}]
    /\ \A contents \in {file, digest, published} :
         contents \in [Attempts -> [by : {0} \cup Attempts, whole : BOOLEAN]]
    /\ overlap \in BOOLEAN

Init ==
    /\ engine \in DOMAIN EngineTable /\ flaw \in Defect \cup Fault \cup {"none"} /\ fenced \in BOOLEAN
    /\ at = [a \in Attempts |-> "idle"]
    /\ file = [a \in Attempts |-> Absent] /\ digest = file /\ published = file
    /\ overlap = FALSE

(* new_output_path: "{job.id}-{token}" or "{job.id}". *)
SharedPath(a) == 1
Output(a) == IF fenced THEN a ELSE 1

Exists(a) == file[Output(a)] # Absent
Put(a, content) == file' = [file EXCEPT ![Output(a)] = content]
Move(a, stage) == at' = [at EXCEPT ![a] = stage]
Job == <<engine, flaw, fenced, overlap>>
Result == <<digest, published>>

(***************************************************************************)
(* How an attempt ends.  The worker's handler unlinks the output path and   *)
(* deletes what it stored; a killed process does neither.  The engines'     *)
(* private directories and temporary files are left out.                    *)
(***************************************************************************)
End(a, stage) ==
    /\ Move(a, stage) /\ Put(a, Absent)
    /\ published' = [published EXCEPT ![a] = Absent]
    /\ UNCHANGED <<Job, digest>>

Fail(a) == End(a, "failed")
Blocked(a) == End(a, "blocked")

(* The engine raises, a tool fails or runs out of time, RQ's own timeout, an
   infected product, a quota, a store that does not answer. *)
Raise(a) == Active(a) /\ Fail(a)

Die(a) ==
    /\ Active(a) /\ Move(a, "dead") /\ UNCHANGED <<file, Job, Result>>

(***************************************************************************)
(* The engine.                                                              *)
(***************************************************************************)
(* Bound: a job with a flaw runs again only after the run before it ended. *)
Begin(a) ==
    /\ at[a] = "idle" /\ \A b \in Attempts : b < a => at[b] # "idle"
    /\ flaw # "none" => \A b \in Attempts : ~Active(b)
    /\ Move(a, "reading") /\ overlap' = (overlap \/ \E b \in Attempts : Active(b))
    /\ UNCHANGED <<engine, flaw, fenced, file, Result>>

Read(a) ==
    /\ at[a] = "reading"
    /\ \/ E.early /\ Exists(a) /\ Blocked(a)
       \/ (E.early => ~Exists(a)) /\ flaw \in E.refuses /\ Fail(a)
       \/ /\ (E.early => ~Exists(a)) /\ flaw \notin E.refuses
          /\ Move(a, "working") /\ UNCHANGED <<file, Job, Result>>

Verify(a) ==
    /\ at[a] = "working"
    /\ \/ flaw \in E.verifies /\ Fail(a)
       \/ flaw \notin E.verifies /\ Move(a, "ready") /\ UNCHANGED <<file, Job, Result>>

(* "xb" and os.link refuse a name that is taken; os.replace and os.link give
   it to a finished file, the others fill it bit by bit. *)
GiveName(a) ==
    /\ at[a] = "ready"
    /\ IF E.puts \in {"new", "link"} /\ Exists(a) THEN Blocked(a)
       ELSE LET whole == E.puts \in {"rename", "link"} IN
            /\ Put(a, [by |-> a, whole |-> whole])
            /\ Move(a, IF whole THEN "written" ELSE "writing")
            /\ UNCHANGED <<Job, Result>>

(* If the name is no longer this attempt's, the rest of its bytes go to a file
   without a name, or into the file of the attempt that opened the same one. *)
Fill(a) ==
    /\ at[a] = "writing" /\ Move(a, "written")
    /\ IF file[Output(a)].by = a THEN Put(a, [by |-> a, whole |-> TRUE])
       ELSE \/ UNCHANGED file
            \/ Exists(a) /\ Put(a, [by |-> 0, whole |-> TRUE])
    /\ UNCHANGED <<Job, Result>>

Recheck(a) ==
    /\ at[a] = "written"
    /\ \/ flaw \in E.rechecks /\ Fail(a)
       \/ /\ flaw \notin E.rechecks
          /\ Move(a, "converted") /\ UNCHANGED <<file, Job, Result>>

(***************************************************************************)
(* The worker, with the engine's file.                                      *)
(***************************************************************************)
(* Parts are artifacts only when the tool has them and, for the raster and the
   images, when the setting for it is on. *)
StageParts(a) ==
    /\ at[a] = "converted"
    /\ \/ /\ engine # "make_split_pdf_zip"
          /\ Move(a, "staged") /\ UNCHANGED <<file, Job, Result>>
       \/ /\ engine \in DOMAIN PartsOf
          /\ IF ~file[Output(a)].whole \/ flaw \in PartsOf[engine] THEN Fail(a)
             ELSE Move(a, "staged") /\ UNCHANGED <<file, Job, Result>>

FindCancelled(a) ==
    /\ at[a] = "staged" /\ End(a, "cancelled")

Hash(a) ==
    /\ at[a] = "staged"
    /\ IF ~Exists(a) THEN Fail(a)
       ELSE /\ Move(a, "hashed") /\ digest' = [digest EXCEPT ![a] = file[Output(a)]]
            /\ UNCHANGED <<file, Job, published>>

(* Local storage renames the file, object storage uploads and unlinks it. *)
Store(a) ==
    /\ at[a] = "hashed"
    /\ IF ~Exists(a) THEN Fail(a)
       ELSE /\ Move(a, "stored") /\ published' = [published EXCEPT ![a] = file[Output(a)]]
            /\ Put(a, Absent) /\ UNCHANGED <<Job, digest>>

Commit(a) ==
    /\ at[a] = "stored" /\ Move(a, "done")
    /\ UNCHANGED <<file, Job, Result>>

Next ==
    \E a \in Attempts :
        \/ Begin(a) \/ Read(a) \/ Verify(a) \/ GiveName(a) \/ Fill(a) \/ Recheck(a)
        \/ StageParts(a) \/ FindCancelled(a) \/ Hash(a) \/ Store(a) \/ Commit(a)
        \/ Raise(a) \/ Die(a)

Spec == Init /\ [][Next]_stageVars

(***************************************************************************)
(* Properties.                                                              *)
(***************************************************************************)
(* The two attempts never write the same name at once. *)
Separate == fenced \/ ~overlap

(* What the engines outside the first tools let through. *)
Unbounded == {"protect_pdf", "unlock_pdf", "edit_document_info", "remove_document_info_and_xmp",
              "crop_pdf", "resize_pdf", "restricted_dxf_to_pdf"}
LetsThrough == AsOne({
    "outsized" :> {}, "damaged" :> {"pdf_to_text_only_rtf", "extract_searchable_text"}, "bulky" :> Unbounded})

(* What is recorded is what is stored, hashed after the last byte was written by
   the attempt that records it - whatever a killed predecessor left under the
   name and, with the journal, whatever another attempt does meanwhile - and
   no engine but the first tools publishes from a source over its budget, or a
   product that does not read back or is over its own, with the exceptions
   named. *)
PublishedIsWhole ==
    \A a \in Attempts : at[a] = "done" =>
        /\ Separate => published[a] = [by |-> a, whole |-> TRUE] /\ digest[a] = published[a]
        /\ engine \in DOMAIN Legacy \/ flaw \notin DOMAIN LetsThrough \/ engine \in LetsThrough[flaw]
=============================================================================
