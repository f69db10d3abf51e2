------------------------- MODULE FileRetentionProofs -------------------------
(***************************************************************************)
(* Theorems about FileRetention, for any set of files and jobs and any     *)
(* number of failed deletions: no deletion leaves an object behind without *)
(* its row, and the cleanup worker spares the inputs of the jobs that were *)
(* active when it looked.                                                  *)
(***************************************************************************)
EXTENDS FileRetention, TLAPS

-----------------------------------------------------------------------------
(* Type correctness.                                                       *)

\* Every variable keeps its type.
THEOREM TypeCorrect == Spec => []TypeOK
<1> USE DEF TypeOK, RecordState, JobState, Active, Existing
<1>1. Init => TypeOK
  BY FailuresAssumption DEF Init
<1>2. TypeOK /\ [Next]_vars => TypeOK'
  <2> SUFFICES ASSUME TypeOK, [Next]_vars PROVE TypeOK'
    OBVIOUS
  <2>1. ASSUME NEW f \in File, UploadStore(f) \/ UploadCommit(f) \/ UploadFail(f)
        PROVE  TypeOK'
    BY <2>1 DEF UploadStore, UploadCommit, UploadFail, AfterDelete, jobs, cleanerVars,
               eraserVars
  <2>2. ASSUME NEW f \in File, Expire(f) \/ UpdateRetention(f) PROVE TypeOK'
    BY <2>2 DEF Expire, UpdateRetention, jobs, cleanerVars, eraserVars
  <2>3. ASSUME NEW j \in Job, NEW S \in SUBSET File, CreateCheck(j, S) PROVE TypeOK'
    BY <2>3 DEF CreateCheck, cleanerVars, eraserVars
  <2>4. ASSUME NEW j \in Job, NEW source \in Job, RetryCheck(j, source) PROVE TypeOK'
    BY <2>4 DEF RetryCheck, cleanerVars, eraserVars
  <2>5. ASSUME NEW j \in Job, CreateCommit(j) \/ Work(j) PROVE TypeOK'
    BY <2>5 DEF CreateCommit, Work, cleanerVars, eraserVars
  <2>6. CASE CleanStart \/ CleanList
    BY <2>6 DEF CleanStart, CleanList, jobs, eraserVars
  <2>7. ASSUME NEW f \in File, CleanPurge(f) PROVE TypeOK'
    BY <2>7 DEF CleanPurge, AfterDelete, jobs, eraserVars
  <2>8. CASE CleanCommit
    BY <2>8 DEF CleanCommit, jobs, eraserVars
  <2>9. CASE CleanAbort
    BY <2>9, FailuresAssumption DEF CleanAbort, jobs, eraserVars
  <2>10. ASSUME NEW S \in SUBSET File, EraseCheck(S) PROVE TypeOK'
    BY <2>10 DEF EraseCheck, jobs, cleanerVars
  <2>11. ASSUME NEW f \in File, ErasePurge(f) PROVE TypeOK'
    BY <2>11 DEF ErasePurge, AfterDelete, jobs, cleanerVars
  <2>12. CASE EraseCommit
    BY <2>12 DEF EraseCommit, jobs, cleanerVars
  <2>13. CASE EraseAbort
    BY <2>13, FailuresAssumption DEF EraseAbort, jobs, cleanerVars
  <2>14. CASE UNCHANGED vars
    BY <2>14 DEF vars, jobs, cleanerVars, eraserVars
  <2>15. QED
    BY <2>1, <2>2, <2>3, <2>4, <2>5, <2>6, <2>7, <2>8, <2>9, <2>10, <2>11, <2>12, <2>13,
       <2>14 DEF Next, Cleaner
<1>3. QED
  BY <1>1, <1>2, PTL DEF Spec

-----------------------------------------------------------------------------
(* Objects and rows.                                                       *)

\* Only a file whose upload is done has had a row, the deletions work on such
\* files, and an object they have removed stays away.
RowInv ==
    /\ \A f \in File : record[f] # "absent" => upload[f] = "done"
    /\ \A f \in cleanTodo \cup cleanDone \cup eraseTodo \cup eraseDone : upload[f] = "done"
    /\ (cleanDone \cup eraseDone) \cap objects = {}
    /\ \A f \in objects : upload[f] \in {"stored", "done"}
    /\ NoSilentOrphan

\* What uploads, jobs and deletions do to the rows and objects keeps them in
\* agreement.
LEMMA NextRowInv == TypeOK /\ RowInv /\ [Next]_vars => RowInv'
<1> SUFFICES ASSUME TypeOK, RowInv, [Next]_vars PROVE RowInv'
  OBVIOUS
<1> USE DEF TypeOK, RowInv, NoSilentOrphan, Existing
<1>1. ASSUME NEW f \in File, UploadStore(f) PROVE RowInv'
  BY <1>1 DEF UploadStore, cleanerVars, eraserVars
<1>2. ASSUME NEW f \in File, UploadCommit(f) PROVE RowInv'
  BY <1>2 DEF UploadCommit, cleanerVars, eraserVars
<1>3. ASSUME NEW f \in File, UploadFail(f) PROVE RowInv'
  BY <1>3 DEF UploadFail, AfterDelete, cleanerVars, eraserVars
<1>4. ASSUME NEW f \in File, Expire(f) \/ UpdateRetention(f) PROVE RowInv'
  BY <1>4 DEF Expire, UpdateRetention, cleanerVars, eraserVars
<1>5. ASSUME NEW j \in Job, CreateCommit(j) \/ Work(j) \/ (\E S \in SUBSET File : CreateCheck(j, S))
                            \/ (\E source \in Job : RetryCheck(j, source))
      PROVE  RowInv'
  BY <1>5 DEF CreateCheck, RetryCheck, CreateCommit, Work, cleanerVars, eraserVars
<1>6. CASE CleanStart \/ CleanList
  BY <1>6 DEF CleanStart, CleanList, eraserVars
<1>7. ASSUME NEW f \in File, CleanPurge(f) PROVE RowInv'
  BY <1>7 DEF CleanPurge, AfterDelete, eraserVars
<1>8. CASE CleanCommit
  BY <1>8 DEF CleanCommit, eraserVars
<1>9. CASE CleanAbort
  BY <1>9 DEF CleanAbort, eraserVars
<1>10. ASSUME NEW S \in SUBSET File, EraseCheck(S) PROVE RowInv'
  BY <1>10 DEF EraseCheck, cleanerVars
<1>11. ASSUME NEW f \in File, ErasePurge(f) PROVE RowInv'
  BY <1>11 DEF ErasePurge, AfterDelete, cleanerVars
<1>12. CASE EraseCommit
  BY <1>12 DEF EraseCommit, cleanerVars
<1>13. CASE EraseAbort
  BY <1>13 DEF EraseAbort, cleanerVars
<1>14. CASE UNCHANGED vars
  BY <1>14 DEF vars, cleanerVars, eraserVars
<1>15. QED
  BY <1>1, <1>2, <1>3, <1>4, <1>5, <1>6, <1>7, <1>8, <1>9, <1>10, <1>11, <1>12, <1>13, <1>14
     DEF Next, Cleaner

\* No deletion, however it fails, leaves an object in the store without a row
\* to find it by.
THEOREM DeletionLeavesNoOrphan == Spec => []NoSilentOrphan
<1>1. Init => RowInv
  BY DEF Init, RowInv, NoSilentOrphan, Existing
<1>2. RowInv => NoSilentOrphan
  BY DEF RowInv
<1>3. QED
  BY <1>1, <1>2, NextRowInv, TypeCorrect, PTL DEF Spec

-----------------------------------------------------------------------------
(* The inputs of active jobs.                                              *)

\* From the moment the cleanup worker has read the active jobs, whatever it
\* still lists is the input of no other job than those committed since.
SpareInv ==
    /\ cleaner = "idle" => cleanTodo = {} /\ cleanDone = {}
    /\ \A j \in Job : job[j] \in Active /\ inputs[j] \cap (cleanTodo \cup cleanDone) # {}
                        => j \in fresh

\* Neither the worker's own steps nor those of jobs bring an old active job
\* under its list.
LEMMA NextSpareInv == TypeOK /\ SpareInv /\ [Next]_vars => SpareInv'
<1> SUFFICES ASSUME TypeOK, SpareInv, [Next]_vars PROVE SpareInv'
  OBVIOUS
<1> USE DEF TypeOK, SpareInv, Active
<1>1. ASSUME NEW f \in File,
             \/ UploadStore(f) \/ UploadCommit(f) \/ UploadFail(f) \/ Expire(f)
             \/ UpdateRetention(f) \/ ErasePurge(f)
      PROVE  SpareInv'
  BY <1>1 DEF UploadStore, UploadCommit, UploadFail, Expire, UpdateRetention, ErasePurge, jobs,
             cleanerVars
<1>2. ASSUME NEW j \in Job, NEW S \in SUBSET File, CreateCheck(j, S) PROVE SpareInv'
  BY <1>2 DEF CreateCheck, cleanerVars
<1>3. ASSUME NEW j \in Job, NEW source \in Job, RetryCheck(j, source) PROVE SpareInv'
  BY <1>3 DEF RetryCheck, cleanerVars
<1>4. ASSUME NEW j \in Job, CreateCommit(j) PROVE SpareInv'
  BY <1>4 DEF CreateCommit, cleanerVars
<1>5. ASSUME NEW j \in Job, Work(j) PROVE SpareInv'
  BY <1>5 DEF Work, cleanerVars
<1>6. CASE CleanStart
  BY <1>6 DEF CleanStart, Protected, Protecting, jobs
<1>7. CASE CleanList
  BY <1>7 DEF CleanList, jobs
<1>8. ASSUME NEW f \in File, CleanPurge(f) PROVE SpareInv'
  BY <1>8 DEF CleanPurge, jobs
<1>9. CASE CleanCommit \/ CleanAbort
  BY <1>9 DEF CleanCommit, CleanAbort, jobs
<1>10. CASE \/ \E S \in SUBSET File : EraseCheck(S)
            \/ EraseCommit \/ EraseAbort \/ UNCHANGED vars
  BY <1>10 DEF EraseCheck, EraseCommit, EraseAbort, vars, jobs, cleanerVars
<1>11. QED
  BY <1>1, <1>2, <1>3, <1>4, <1>5, <1>6, <1>7, <1>8, <1>9, <1>10 DEF Next, Cleaner

\* A job that was active when the cleanup worker looked keeps its inputs while
\* the worker purges.
THEOREM CleanupSparesInputs == Spec => []CleanerSpares
<1>1. Init => SpareInv
  BY DEF Init, SpareInv
<1>2. SpareInv => CleanerSpares
  BY DEF SpareInv, CleanerSpares
<1>3. QED
  BY <1>1, <1>2, NextSpareInv, TypeCorrect, PTL DEF Spec
=============================================================================
