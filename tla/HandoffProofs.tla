---------------------------- MODULE HandoffProofs ----------------------------
(***************************************************************************)
(* Theorems about the one-time credential hand-off, for any number of      *)
(* jobs and of deliveries of each: a secret is handed out once, and is     *)
(* gone when its job is over, with the exceptions SecretGone names.        *)
(***************************************************************************)
EXTENDS MCServices, FiniteSetTheorems, TLAPS

\* Whatever can reach the key of a job has its submission behind it: the key
\* is only set while the submission is "committed".
Submitted(j) == submission[j] \notin {"none", "committed"}

\* The types of the variables the argument reads.
HandoffTypes ==
    /\ kind \in [Secretive -> Handoff!Kind]
    /\ submission \in [Secretive -> {"none", "committed", "published", "enqueued",
                                     "failing", "erased", "refused", "answered", "dead"}]
    /\ state \in [Secretive -> {"none", "queued", "running", "completed", "failed", "cancelled"}]
    /\ attempt \in [Handoff!Deliveries -> {"none", "started", "holding", "over"}]
    /\ cancel \in [Secretive -> {"none", "stopped", "erased", "done"}]
    /\ queueId \in SUBSET Secretive /\ delivered \in SUBSET Secretive
    /\ sealed \in SUBSET (Handoff!Kind \X Secretive)
    /\ took \in SUBSET Handoff!Deliveries /\ unerased \in SUBSET Secretive

\* Keys, queue entries, attempts, cancellations and ends come after the
\* submission, and a key is sealed under the operation of its job only.
SubmittedFirst ==
    \A j \in Secretive :
        /\ \A k \in Handoff!Kind : <<k, j>> \in sealed => k = kind[j] /\ Submitted(j)
        /\ j \in delivered \cup queueId => Submitted(j)
        /\ cancel[j] # "none" \/ state[j] \notin {"none", "queued"} => Submitted(j)
        /\ \A d \in Delivery : attempt[<<j, d>>] # "none" => Submitted(j)

\* A delivery that was handed the secret has removed the key, and no second
\* one has it; only such a delivery holds it.
TakenOnce ==
    \A j \in Secretive :
        /\ \A d \in Delivery : <<j, d>> \in took =>
              attempt[<<j, d>>] # "none" /\ <<kind[j], j>> \notin sealed
        /\ \A d, e \in Delivery : <<j, d>> \in took /\ <<j, e>> \in took => d = e
        /\ \A d \in Delivery : attempt[<<j, d>>] = "holding" => <<j, d>> \in took

\* A job is completed by a delivery that was handed its secret.
CompletedTook ==
    \A j \in Secretive : state[j] = "completed" => \E d \in Delivery : <<j, d>> \in took

\* An erasure that was reached and did not fail has removed the key, and so has
\* whoever failed or cancelled the job.
ErasedGone ==
    \A j \in Secretive \ unerased :
        \/ submission[j] \in {"erased", "refused"}
        \/ cancel[j] \in {"erased", "done"}
        \/ state[j] \in {"failed", "cancelled"}
        => <<kind[j], j>> \notin sealed

HandoffInv == HandoffTypes /\ SubmittedFirst /\ TakenOnce /\ CompletedTook /\ ErasedGone

-----------------------------------------------------------------------------
\* Nothing is submitted, sealed or erased yet.
LEMMA HandoffInit == Handoff!Init => HandoffInv
BY DEF Handoff!Init, HandoffInv, HandoffTypes, SubmittedFirst, TakenOnce, CompletedTook, ErasedGone,
       Handoff!Kind, Handoff!Deliveries

\* The types are kept by every step.
LEMMA HandoffTypesStep ==
    ASSUME HandoffTypes, Handoff!Next
    PROVE  HandoffTypes'
<1> USE DEF Handoff!jobRow, Handoff!api, Handoff!worker, Handoff!Submission, Handoff!Deliveries
<1>1. ASSUME Handoff!Lapse PROVE HandoffTypes'
  BY <1>1 DEF HandoffTypes, Handoff!Lapse
<1>2. ASSUME NEW j \in Secretive, Handoff!SubmitUnlock(j) \/ Handoff!SubmitProtect(j)
      PROVE  HandoffTypes'
  BY <1>2 DEF HandoffTypes, Handoff!SubmitUnlock, Handoff!SubmitProtect
<1>3. ASSUME NEW j \in Secretive, NEW k \in Handoff!Kind, kind[j] = k, Handoff!Publish(j, k)
      PROVE  HandoffTypes'
  BY <1>3 DEF HandoffTypes, Handoff!Publish
<1>4. ASSUME NEW j \in Secretive, Handoff!Enqueue(j) \/ Handoff!CommitQueueId(j)
      PROVE  HandoffTypes'
  BY <1>4 DEF HandoffTypes, Handoff!Enqueue, Handoff!CommitQueueId
<1>5. ASSUME NEW j \in Secretive, Handoff!EraseFailed(j) PROVE HandoffTypes'
  BY <1>5 DEF HandoffTypes, Handoff!EraseFailed, Handoff!Erase, Handoff!ErasedKey
<1>6. ASSUME NEW j \in Secretive, Handoff!RefuseSubmission(j) PROVE HandoffTypes'
  BY <1>6 DEF HandoffTypes, Handoff!RefuseSubmission
<1>7. ASSUME NEW j \in Secretive, Handoff!ApiDies(j) PROVE HandoffTypes'
  BY <1>7 DEF HandoffTypes, Handoff!ApiDies
<1>8. ASSUME NEW j \in Secretive, Handoff!CancelStop(j) PROVE HandoffTypes'
  BY <1>8 DEF HandoffTypes, Handoff!CancelStop
<1>9. ASSUME NEW j \in Secretive, Handoff!CancelErase(j) PROVE HandoffTypes'
  BY <1>9 DEF HandoffTypes, Handoff!CancelErase, Handoff!Erase, Handoff!ErasedKey
<1>10. ASSUME NEW j \in Secretive, Handoff!CancelWrite(j) PROVE HandoffTypes'
  BY <1>10 DEF HandoffTypes, Handoff!CancelWrite
<1>11. ASSUME NEW j \in Secretive, NEW d \in Delivery, Handoff!Start(j, d) PROVE HandoffTypes'
  BY <1>11 DEF HandoffTypes, Handoff!Start
<1>12. ASSUME NEW j \in Secretive, NEW d \in Delivery, Handoff!RejectSource(j, d)
       PROVE  HandoffTypes'
  BY <1>12 DEF HandoffTypes, Handoff!RejectSource, Handoff!Finish
<1>13. ASSUME NEW j \in Secretive, NEW d \in Delivery, NEW k \in Handoff!Kind, Handoff!Take(j, d, k)
       PROVE  HandoffTypes'
  BY <1>13 DEF HandoffTypes, Handoff!Take, Handoff!TakenKeys, Handoff!Finish
<1>14. ASSUME NEW j \in Secretive, NEW d \in Delivery, NEW outcome \in {"completed", "failed"}, attempt[<<j, d>>] = "holding", Handoff!Finish(j, d, outcome), UNCHANGED <<kind, queueId, Handoff!api, took, delivered, sealed, unerased>>
       PROVE  HandoffTypes'
  BY <1>14 DEF HandoffTypes, Handoff!Finish
<1>15. ASSUME NEW j \in Secretive, NEW d \in Delivery, Handoff!WorkerDies(j, d)
       PROVE  HandoffTypes'
  BY <1>15 DEF HandoffTypes, Handoff!WorkerDies
<1>16. QED
  BY <1>1, <1>2, <1>3, <1>4, <1>5, <1>6, <1>7, <1>8, <1>9, <1>10, <1>11, <1>12, <1>13, <1>14, <1>15
     DEF Handoff!Next, Handoff!PublishPassword, Handoff!PublishCredentials, Handoff!TakePassword,
         Handoff!TakeCredentials, Handoff!Engine, Handoff!Kind

\* What is submitted stays submitted; a key is sealed, a job enqueued, its queue
\* id committed, its cancellation or an attempt begun only after that.
LEMMA SubmittedFirstStep ==
    ASSUME HandoffTypes, SubmittedFirst, Handoff!Next
    PROVE  SubmittedFirst'
<1> USE DEF HandoffTypes, Submitted, Handoff!jobRow, Handoff!api, Handoff!worker, Handoff!Submission, Handoff!Deliveries
<1>1. ASSUME Handoff!Lapse PROVE SubmittedFirst'
  BY <1>1 DEF SubmittedFirst, Handoff!Lapse
<1>2. ASSUME NEW j \in Secretive, Handoff!SubmitUnlock(j) \/ Handoff!SubmitProtect(j)
      PROVE  SubmittedFirst'
  BY <1>2 DEF SubmittedFirst, Handoff!SubmitUnlock, Handoff!SubmitProtect
<1>3. ASSUME NEW j \in Secretive, NEW k \in Handoff!Kind, kind[j] = k, Handoff!Publish(j, k)
      PROVE  SubmittedFirst'
  BY <1>3 DEF SubmittedFirst, Handoff!Publish
<1>4. ASSUME NEW j \in Secretive, Handoff!Enqueue(j) \/ Handoff!CommitQueueId(j)
      PROVE  SubmittedFirst'
  BY <1>4 DEF SubmittedFirst, Handoff!Enqueue, Handoff!CommitQueueId
<1>5. ASSUME NEW j \in Secretive, Handoff!EraseFailed(j) PROVE SubmittedFirst'
  BY <1>5 DEF SubmittedFirst, Handoff!EraseFailed, Handoff!Erase, Handoff!ErasedKey
<1>6. ASSUME NEW j \in Secretive, Handoff!RefuseSubmission(j) PROVE SubmittedFirst'
  BY <1>6 DEF SubmittedFirst, Handoff!RefuseSubmission
<1>7. ASSUME NEW j \in Secretive, Handoff!ApiDies(j) PROVE SubmittedFirst'
  BY <1>7 DEF SubmittedFirst, Handoff!ApiDies
<1>8. ASSUME NEW j \in Secretive, Handoff!CancelStop(j) PROVE SubmittedFirst'
  BY <1>8 DEF SubmittedFirst, Handoff!CancelStop
<1>9. ASSUME NEW j \in Secretive, Handoff!CancelErase(j) PROVE SubmittedFirst'
  BY <1>9 DEF SubmittedFirst, Handoff!CancelErase, Handoff!Erase, Handoff!ErasedKey
<1>10. ASSUME NEW j \in Secretive, Handoff!CancelWrite(j) PROVE SubmittedFirst'
  BY <1>10 DEF SubmittedFirst, Handoff!CancelWrite
<1>11. ASSUME NEW j \in Secretive, NEW d \in Delivery, Handoff!Start(j, d) PROVE SubmittedFirst'
  BY <1>11 DEF SubmittedFirst, Handoff!Start
<1>12. ASSUME NEW j \in Secretive, NEW d \in Delivery, Handoff!RejectSource(j, d)
       PROVE  SubmittedFirst'
  BY <1>12 DEF SubmittedFirst, Handoff!RejectSource, Handoff!Finish
<1>13. ASSUME NEW j \in Secretive, NEW d \in Delivery, NEW k \in Handoff!Kind, Handoff!Take(j, d, k)
       PROVE  SubmittedFirst'
  BY <1>13 DEF SubmittedFirst, Handoff!Take, Handoff!TakenKeys, Handoff!Finish
<1>14. ASSUME NEW j \in Secretive, NEW d \in Delivery, NEW outcome \in {"completed", "failed"}, attempt[<<j, d>>] = "holding", Handoff!Finish(j, d, outcome), UNCHANGED <<kind, queueId, Handoff!api, took, delivered, sealed, unerased>>
       PROVE  SubmittedFirst'
  BY <1>14 DEF SubmittedFirst, Handoff!Finish
<1>15. ASSUME NEW j \in Secretive, NEW d \in Delivery, Handoff!WorkerDies(j, d)
       PROVE  SubmittedFirst'
  BY <1>15 DEF SubmittedFirst, Handoff!WorkerDies
<1>16. QED
  BY <1>1, <1>2, <1>3, <1>4, <1>5, <1>6, <1>7, <1>8, <1>9, <1>10, <1>11, <1>12, <1>13, <1>14, <1>15
     DEF Handoff!Next, Handoff!PublishPassword, Handoff!PublishCredentials, Handoff!TakePassword,
         Handoff!TakeCredentials, Handoff!Engine, Handoff!Kind

\* A key that was taken is not sealed again, since its job is submitted; without
\* the key nobody else is handed the secret.
LEMMA TakenOnceStep ==
    ASSUME HandoffTypes, SubmittedFirst, TakenOnce, Handoff!Next
    PROVE  TakenOnce'
<1> USE DEF HandoffTypes, SubmittedFirst, Submitted, Handoff!jobRow, Handoff!api, Handoff!worker, Handoff!Submission, Handoff!Deliveries
<1>1. ASSUME Handoff!Lapse PROVE TakenOnce'
  BY <1>1 DEF TakenOnce, Handoff!Lapse
<1>2. ASSUME NEW j \in Secretive, Handoff!SubmitUnlock(j) \/ Handoff!SubmitProtect(j)
      PROVE  TakenOnce'
  BY <1>2 DEF TakenOnce, Handoff!SubmitUnlock, Handoff!SubmitProtect
<1>3. ASSUME NEW j \in Secretive, NEW k \in Handoff!Kind, kind[j] = k, Handoff!Publish(j, k)
      PROVE  TakenOnce'
  <2>1. \A i \in Secretive, d \in Delivery : <<i, d>> \in took => <<kind[i], i>> \notin sealed'
    BY <1>3 DEF Handoff!Publish, TakenOnce
  <2>2. UNCHANGED <<kind, attempt, took>>
    BY <1>3 DEF Handoff!Publish
  <2>3. QED
    BY <2>1, <2>2 DEF TakenOnce
<1>4. ASSUME NEW j \in Secretive, Handoff!Enqueue(j) \/ Handoff!CommitQueueId(j)
      PROVE  TakenOnce'
  BY <1>4 DEF TakenOnce, Handoff!Enqueue, Handoff!CommitQueueId
<1>5. ASSUME NEW j \in Secretive, Handoff!EraseFailed(j) PROVE TakenOnce'
  BY <1>5 DEF TakenOnce, Handoff!EraseFailed, Handoff!Erase, Handoff!ErasedKey
<1>6. ASSUME NEW j \in Secretive, Handoff!RefuseSubmission(j) PROVE TakenOnce'
  BY <1>6 DEF TakenOnce, Handoff!RefuseSubmission
<1>7. ASSUME NEW j \in Secretive, Handoff!ApiDies(j) PROVE TakenOnce'
  BY <1>7 DEF TakenOnce, Handoff!ApiDies
<1>8. ASSUME NEW j \in Secretive, Handoff!CancelStop(j) PROVE TakenOnce'
  BY <1>8 DEF TakenOnce, Handoff!CancelStop
<1>9. ASSUME NEW j \in Secretive, Handoff!CancelErase(j) PROVE TakenOnce'
  BY <1>9 DEF TakenOnce, Handoff!CancelErase, Handoff!Erase, Handoff!ErasedKey
<1>10. ASSUME NEW j \in Secretive, Handoff!CancelWrite(j) PROVE TakenOnce'
  BY <1>10 DEF TakenOnce, Handoff!CancelWrite
<1>11. ASSUME NEW j \in Secretive, NEW d \in Delivery, Handoff!Start(j, d) PROVE TakenOnce'
  BY <1>11 DEF TakenOnce, Handoff!Start
<1>12. ASSUME NEW j \in Secretive, NEW d \in Delivery, Handoff!RejectSource(j, d)
       PROVE  TakenOnce'
  BY <1>12 DEF TakenOnce, Handoff!RejectSource, Handoff!Finish
<1>13. ASSUME NEW j \in Secretive, NEW d \in Delivery, NEW k \in Handoff!Kind, Handoff!Take(j, d, k)
       PROVE  TakenOnce'
  <2>1. CASE <<k, j>> \in sealed /\ sealed' = sealed \ Handoff!TakenKeys(k, j) /\ took' = took \cup {<<j, d>>}
             /\ attempt' = [attempt EXCEPT ![<<j, d>>] = "holding"]
    <3>1. UNCHANGED kind /\ kind[j] = k
      BY <1>13 DEF Handoff!Take
    <3>2. \A e \in Delivery : <<j, e>> \notin took
      BY <2>1, <3>1 DEF TakenOnce
    <3>3. \A i \in Secretive, e \in Delivery :
           attempt'[<<i, e>>] = IF i = j /\ e = d THEN "holding" ELSE attempt[<<i, e>>]
      BY <2>1 DEF Handoff!Deliveries
    <3>4. QED
      BY <2>1, <3>1, <3>2, <3>3 DEF TakenOnce, Handoff!TakenKeys
  <2>2. CASE UNCHANGED took /\ attempt' = [attempt EXCEPT ![<<j, d>>] = "over"]
    <3>1. \A i \in Secretive, e \in Delivery :
           attempt'[<<i, e>>] = IF i = j /\ e = d THEN "over" ELSE attempt[<<i, e>>]
      BY <2>2 DEF Handoff!Deliveries
    <3>2. UNCHANGED kind /\ sealed' \subseteq sealed
      BY <1>13 DEF Handoff!Take
    <3>3. QED
      BY <2>2, <3>1, <3>2 DEF TakenOnce
  <2>3. QED
    BY <1>13, <2>1, <2>2 DEF Handoff!Take, Handoff!Finish
<1>14. ASSUME NEW j \in Secretive, NEW d \in Delivery, NEW outcome \in {"completed", "failed"}, attempt[<<j, d>>] = "holding", Handoff!Finish(j, d, outcome), UNCHANGED <<kind, queueId, Handoff!api, took, delivered, sealed, unerased>>
       PROVE  TakenOnce'
  <2>1. \A i \in Secretive, e \in Delivery :
           attempt'[<<i, e>>] = IF i = j /\ e = d THEN "over" ELSE attempt[<<i, e>>]
    BY <1>14 DEF Handoff!Finish
  <2>2. UNCHANGED <<kind, sealed, took>>
    BY <1>14
  <2>3. QED
    BY <2>1, <2>2 DEF TakenOnce
<1>15. ASSUME NEW j \in Secretive, NEW d \in Delivery, Handoff!WorkerDies(j, d) PROVE TakenOnce'
  <2>1. \A i \in Secretive, e \in Delivery :
           attempt'[<<i, e>>] = IF i = j /\ e = d THEN "over" ELSE attempt[<<i, e>>]
    BY <1>15 DEF Handoff!WorkerDies
  <2>2. UNCHANGED <<kind, sealed, took>>
    BY <1>15 DEF Handoff!WorkerDies
  <2>3. QED
    BY <2>1, <2>2 DEF TakenOnce
<1>16. QED
  BY <1>1, <1>2, <1>3, <1>4, <1>5, <1>6, <1>7, <1>8, <1>9, <1>10, <1>11, <1>12, <1>13, <1>14, <1>15
     DEF Handoff!Next, Handoff!PublishPassword, Handoff!PublishCredentials, Handoff!TakePassword,
         Handoff!TakeCredentials, Handoff!Engine, Handoff!Kind

\* took only grows, and the engine runs on what was taken.
LEMMA CompletedTookStep ==
    ASSUME HandoffTypes, TakenOnce, CompletedTook, Handoff!Next
    PROVE  CompletedTook'
<1> USE DEF HandoffTypes, Handoff!jobRow, Handoff!api, Handoff!worker, Handoff!Submission, Handoff!Deliveries
<1>1. ASSUME Handoff!Lapse PROVE CompletedTook'
  BY <1>1 DEF CompletedTook, TakenOnce, Handoff!Lapse
<1>2. ASSUME NEW j \in Secretive, Handoff!SubmitUnlock(j) \/ Handoff!SubmitProtect(j)
      PROVE  CompletedTook'
  BY <1>2 DEF CompletedTook, TakenOnce, Handoff!SubmitUnlock, Handoff!SubmitProtect
<1>3. ASSUME NEW j \in Secretive, NEW k \in Handoff!Kind, kind[j] = k, Handoff!Publish(j, k)
      PROVE  CompletedTook'
  BY <1>3 DEF CompletedTook, TakenOnce, Handoff!Publish
<1>4. ASSUME NEW j \in Secretive, Handoff!Enqueue(j) \/ Handoff!CommitQueueId(j)
      PROVE  CompletedTook'
  BY <1>4 DEF CompletedTook, TakenOnce, Handoff!Enqueue, Handoff!CommitQueueId
<1>5. ASSUME NEW j \in Secretive, Handoff!EraseFailed(j) PROVE CompletedTook'
  BY <1>5 DEF CompletedTook, TakenOnce, Handoff!EraseFailed, Handoff!Erase, Handoff!ErasedKey
<1>6. ASSUME NEW j \in Secretive, Handoff!RefuseSubmission(j) PROVE CompletedTook'
  BY <1>6 DEF CompletedTook, TakenOnce, Handoff!RefuseSubmission
<1>7. ASSUME NEW j \in Secretive, Handoff!ApiDies(j) PROVE CompletedTook'
  BY <1>7 DEF CompletedTook, TakenOnce, Handoff!ApiDies
<1>8. ASSUME NEW j \in Secretive, Handoff!CancelStop(j) PROVE CompletedTook'
  BY <1>8 DEF CompletedTook, TakenOnce, Handoff!CancelStop
<1>9. ASSUME NEW j \in Secretive, Handoff!CancelErase(j) PROVE CompletedTook'
  BY <1>9 DEF CompletedTook, TakenOnce, Handoff!CancelErase, Handoff!Erase, Handoff!ErasedKey
<1>10. ASSUME NEW j \in Secretive, Handoff!CancelWrite(j) PROVE CompletedTook'
  BY <1>10 DEF CompletedTook, TakenOnce, Handoff!CancelWrite
<1>11. ASSUME NEW j \in Secretive, NEW d \in Delivery, Handoff!Start(j, d) PROVE CompletedTook'
  BY <1>11 DEF CompletedTook, Handoff!Start
<1>12. ASSUME NEW j \in Secretive, NEW d \in Delivery, Handoff!RejectSource(j, d)
       PROVE  CompletedTook'
  BY <1>12 DEF CompletedTook, TakenOnce, Handoff!RejectSource, Handoff!Finish
<1>13. ASSUME NEW j \in Secretive, NEW d \in Delivery, NEW k \in Handoff!Kind, Handoff!Take(j, d, k)
       PROVE  CompletedTook'
  <2>1. took \subseteq took'
    BY <1>13 DEF Handoff!Take
  <2>2. \A i \in Secretive : state'[i] = "completed" => state[i] = "completed"
    BY <1>13 DEF Handoff!Take, Handoff!Finish
  <2>3. QED
    BY <2>1, <2>2 DEF CompletedTook
<1>14. ASSUME NEW j \in Secretive, NEW d \in Delivery, NEW outcome \in {"completed", "failed"}, attempt[<<j, d>>] = "holding", Handoff!Finish(j, d, outcome), UNCHANGED <<kind, queueId, Handoff!api, took, delivered, sealed, unerased>>
       PROVE  CompletedTook'
  BY <1>14 DEF CompletedTook, TakenOnce, Handoff!Finish
<1>15. ASSUME NEW j \in Secretive, NEW d \in Delivery, Handoff!WorkerDies(j, d)
       PROVE  CompletedTook'
  BY <1>15 DEF CompletedTook, TakenOnce, Handoff!WorkerDies
<1>16. QED
  BY <1>1, <1>2, <1>3, <1>4, <1>5, <1>6, <1>7, <1>8, <1>9, <1>10, <1>11, <1>12, <1>13, <1>14, <1>15
     DEF Handoff!Next, Handoff!PublishPassword, Handoff!PublishCredentials, Handoff!TakePassword,
         Handoff!TakeCredentials, Handoff!Engine, Handoff!Kind

\* After the erasure of a refused or cancelled job, and after the job has failed
\* with its secret taken or not found, its key is not sealed again.
LEMMA ErasedGoneStep ==
    ASSUME HandoffTypes, SubmittedFirst, TakenOnce, ErasedGone, Handoff!Next
    PROVE  ErasedGone'
<1> USE DEF HandoffTypes, SubmittedFirst, Submitted, Handoff!jobRow, Handoff!api, Handoff!worker, Handoff!Submission, Handoff!Deliveries
<1>1. ASSUME Handoff!Lapse PROVE ErasedGone'
  BY <1>1 DEF ErasedGone, Handoff!Lapse
<1>2. ASSUME NEW j \in Secretive, Handoff!SubmitUnlock(j) \/ Handoff!SubmitProtect(j)
      PROVE  ErasedGone'
  BY <1>2 DEF ErasedGone, Handoff!SubmitUnlock, Handoff!SubmitProtect
<1>3. ASSUME NEW j \in Secretive, NEW k \in Handoff!Kind, kind[j] = k, Handoff!Publish(j, k)
      PROVE  ErasedGone'
  BY <1>3 DEF ErasedGone, Handoff!Publish
<1>4. ASSUME NEW j \in Secretive, Handoff!Enqueue(j) \/ Handoff!CommitQueueId(j)
      PROVE  ErasedGone'
  BY <1>4 DEF ErasedGone, Handoff!Enqueue, Handoff!CommitQueueId
<1>5. ASSUME NEW j \in Secretive, Handoff!EraseFailed(j) PROVE ErasedGone'
  BY <1>5 DEF ErasedGone, Handoff!EraseFailed, Handoff!Erase, Handoff!ErasedKey
<1>6. ASSUME NEW j \in Secretive, Handoff!RefuseSubmission(j) PROVE ErasedGone'
  BY <1>6 DEF ErasedGone, Handoff!RefuseSubmission
<1>7. ASSUME NEW j \in Secretive, Handoff!ApiDies(j) PROVE ErasedGone'
  BY <1>7 DEF ErasedGone, Handoff!ApiDies
<1>8. ASSUME NEW j \in Secretive, Handoff!CancelStop(j) PROVE ErasedGone'
  BY <1>8 DEF ErasedGone, Handoff!CancelStop
<1>9. ASSUME NEW j \in Secretive, Handoff!CancelErase(j) PROVE ErasedGone'
  BY <1>9 DEF ErasedGone, Handoff!CancelErase, Handoff!Erase, Handoff!ErasedKey
<1>10. ASSUME NEW j \in Secretive, Handoff!CancelWrite(j) PROVE ErasedGone'
  BY <1>10 DEF ErasedGone, Handoff!CancelWrite
<1>11. ASSUME NEW j \in Secretive, NEW d \in Delivery, Handoff!Start(j, d) PROVE ErasedGone'
  BY <1>11 DEF ErasedGone, Handoff!Start
<1>12. ASSUME NEW j \in Secretive, NEW d \in Delivery, Handoff!RejectSource(j, d)
       PROVE  ErasedGone'
  BY <1>12 DEF ErasedGone, Handoff!RejectSource, Handoff!Finish
<1>13. ASSUME NEW j \in Secretive, NEW d \in Delivery, NEW k \in Handoff!Kind, Handoff!Take(j, d, k)
       PROVE  ErasedGone'
  BY <1>13 DEF ErasedGone, Handoff!Take, Handoff!TakenKeys, Handoff!Finish
<1>14. ASSUME NEW j \in Secretive, NEW d \in Delivery, NEW outcome \in {"completed", "failed"}, attempt[<<j, d>>] = "holding", Handoff!Finish(j, d, outcome), UNCHANGED <<kind, queueId, Handoff!api, took, delivered, sealed, unerased>>
       PROVE  ErasedGone'
  BY <1>14 DEF ErasedGone, TakenOnce, Handoff!Finish
<1>15. ASSUME NEW j \in Secretive, NEW d \in Delivery, Handoff!WorkerDies(j, d)
       PROVE  ErasedGone'
  BY <1>15 DEF ErasedGone, Handoff!WorkerDies
<1>16. QED
  BY <1>1, <1>2, <1>3, <1>4, <1>5, <1>6, <1>7, <1>8, <1>9, <1>10, <1>11, <1>12, <1>13, <1>14, <1>15
     DEF Handoff!Next, Handoff!PublishPassword, Handoff!PublishCredentials, Handoff!TakePassword,
         Handoff!TakeCredentials, Handoff!Engine, Handoff!Kind

\* All of it together, for the hand-off alone.
LEMMA HandoffStep ==
    ASSUME HandoffInv, Handoff!Next \/ UNCHANGED handoff
    PROVE  HandoffInv'
<1>1. CASE Handoff!Next
  BY <1>1, HandoffTypesStep, SubmittedFirstStep, TakenOnceStep, CompletedTookStep, ErasedGoneStep
     DEF HandoffInv
<1>2. CASE UNCHANGED handoff
  BY <1>2 DEF handoff, HandoffInv, HandoffTypes, SubmittedFirst, TakenOnce, CompletedTook, ErasedGone,
              Submitted
<1>3. QED
  BY <1>1, <1>2

\* The part in focus moves by its own actions, and stays in focus.
LEMMA HandoffFocus ==
    [Next]_vars => /\ focus = "handoff" => Handoff!Next \/ UNCHANGED handoff
                   /\ UNCHANGED focus
BY DEF Next, vars

\* The inductive invariant of the hand-off, in every state in which it is in focus.
THEOREM HandoffInvariant == Spec => [](focus = "handoff" => HandoffInv)
<1>1. Init => (focus = "handoff" => HandoffInv)
  BY HandoffInit DEF Init
<1>2. (focus = "handoff" => HandoffInv) /\ [Next]_vars => (focus = "handoff" => HandoffInv)'
  BY HandoffFocus, HandoffStep
<1>3. QED
  BY <1>1, <1>2, PTL DEF Spec

-----------------------------------------------------------------------------
\* A password or a pair of credentials is handed to one delivery of its job at
\* most, wherever the API or an attempt dies, whatever call to Valkey or RQ
\* fails and however many deliveries start (take_password, take_credentials).
THEOREM SecretTakenOnce == Spec => []OneUse
<1>1. HandoffInv => Handoff!OneUse
  <2> SUFFICES ASSUME HandoffInv, NEW j \in Secretive
               PROVE  Handoff!Cardinality({d \in Delivery : <<j, d>> \in took}) <= 1
    BY DEF Handoff!OneUse
  <2> DEFINE Takers == {d \in Delivery : <<j, d>> \in took}
  <2>1. \A d, e \in Takers : d = e
    BY DEF HandoffInv, TakenOnce
  <2>2. Cardinality(Takers) <= 1
    <3> HIDE DEF Takers
    <3>1. CASE Takers = {}
      BY <3>1, FS_EmptySet
    <3>2. CASE Takers # {}
      <4>1. PICK d \in Takers : Takers = {d}
        BY <2>1, <3>2
      <4>2. Cardinality({d}) = 1
        BY FS_Singleton
      <4>3. QED
        BY <4>1, <4>2
    <3>3. QED
      BY <3>1, <3>2
  <2>3. Handoff!Cardinality(Takers) = Cardinality(Takers)
    BY DEF Handoff!Cardinality, Cardinality
  <2>4. QED
    BY <2>2, <2>3
<1>2. QED
  BY <1>1, HandoffInvariant, PTL DEF OneUse

\* Once a job has ended, its submission is refused or its cancellation written,
\* its key is gone from Valkey, unless the erasure failed, the API died first, or
\* a delivery failed without the secret (take_password, take_credentials,
\* erase_password, erase_credentials, the rejections in process_job).
THEOREM NoSecretLeft == Spec => []SecretGone
<1>1. HandoffInv => Handoff!SecretGone
  <2> SUFFICES ASSUME HandoffInv, NEW j \in Secretive \ unerased, NEW k \in Handoff!Kind,
                      \/ state[j] \in {"completed", "failed", "cancelled"}
                      \/ submission[j] = "refused" \/ cancel[j] = "done"
               PROVE  <<k, j>> \notin sealed
    BY DEF Handoff!SecretGone
  <2>1. <<kind[j], j>> \notin sealed
    BY DEF HandoffInv, CompletedTook, TakenOnce, ErasedGone
  <2>2. QED
    BY <2>1 DEF HandoffInv, SubmittedFirst
<1>2. QED
  BY <1>1, HandoffInvariant, PTL DEF SecretGone

\* A submission, a job, an attempt and a cancellation are each in one of their
\* states, and a key is of a kind of secret and a job (unlock_pdf_request,
\* protect_pdf_request, cancel_job).
THEOREM HandoffTypesHold == Spec => [](focus = "handoff" => Handoff!TypeOK)
<1>1. HandoffInv => Handoff!TypeOK
  BY DEF HandoffInv, HandoffTypes, Handoff!TypeOK
<1>2. QED
  BY <1>1, HandoffInvariant, PTL
=============================================================================
