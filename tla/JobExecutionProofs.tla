------------------------- MODULE JobExecutionProofs -------------------------
(***************************************************************************)
(* Theorems of JobExecution for every set of attempts, number of parts,    *)
(* lease lifetime and grace period, checked by TLAPS.  Those that need the *)
(* fence assume JournalEnabled; what holds for the legacy worker as well   *)
(* stands near the end.                                                    *)
(***************************************************************************)
EXTENDS JobExecution, TLAPS

-----------------------------------------------------------------------------
(* Type correctness.                                                       *)

\* A new job and its attempts have the types.
LEMMA InitTypeOK == Init => TypeOK
<1> SUFFICES ASSUME Init PROVE TypeOK
  OBVIOUS
<1> USE DEF Init
<1>1. /\ status \in Status /\ rq \in RqState /\ events \in SUBSET (Status \cup {None})
      /\ journal \in [Name -> JournalState]
      /\ pc \in [Attempt -> Stage]
      /\ seen \in [Attempt -> Status \cup {None}]
  BY DEF Status, RqState, JournalState, Stage
<1>2. /\ epoch \in Nat
      /\ lease \in -Grace .. TTL
      /\ cursor \in [Attempt -> 0 .. NumParts]
  BY BoundsAssumption
<1>3. absent \in [Attempt -> SUBSET Parts]
  OBVIOUS
<1>4. QED
  BY <1>1, <1>2, <1>3 DEF TypeOK

\* Every step of an attempt keeps the types.
LEMMA WorkTypeOK ==
    ASSUME NEW a \in Attempt, TypeOK, Work(a)
    PROVE  TypeOK'
<1> USE DEF TypeOK, Stage, Executing, Storing, Status, Terminal, RqState, TerminalRq,
            row, stores, queue, attempts, handlers, Goto, Leave
<1>1. Start(a) => TypeOK'
  BY DEF Start
<1>2. Claim(a) => TypeOK'
  BY BoundsAssumption DEF Claim
<1>3. LegacyStart(a) => TypeOK'
  BY DEF LegacyStart
<1>4. Progress(a, "load", "progress80") => TypeOK'
  BY DEF Progress
<1>5. Progress(a, "progress80", "check") => TypeOK'
  BY DEF Progress
<1>6. CheckCancelled(a) => TypeOK'
  BY DEF CheckCancelled
<1>7. CheckLease(a) => TypeOK'
  BY DEF CheckLease
<1>8. WriteJournal(a) => TypeOK'
  BY DEF WriteJournal, JournalState
<1>9. Store(a) => TypeOK'
  BY DEF Store, NameOf, Token, Name, Parts
<1>10. Flush(a) => TypeOK'
  BY DEF Flush
<1>11. Publish(a) => TypeOK'
  BY DEF Publish, JournalState, Bundle, Names, Token, Name
<1>12. Cleanup(a) => TypeOK'
  <2> SUFFICES ASSUME Cleanup(a) PROVE TypeOK'
    OBVIOUS
  <2>1. cursor[a] \in Parts /\ cursor[a] - 1 \in 0 .. NumParts
    BY BoundsAssumption DEF Cleanup, Parts
  <2>2. cursor' \in [Attempt -> 0 .. NumParts]
    BY <2>1 DEF Cleanup
  <2>3. absent' \in [Attempt -> SUBSET Parts]
    BY <2>1 DEF Cleanup
  <2>4. objects' \in SUBSET Name
    BY DEF Cleanup
  <2>5. QED
    BY <2>2, <2>3, <2>4 DEF Cleanup
<1>13. Compensate(a) => TypeOK'
  BY DEF Compensate, Settled, JournalState
<1>14. Refresh(a) => TypeOK'
  BY DEF Refresh
<1>15. MarkFailed(a) => TypeOK'
  BY DEF MarkFailed
<1>16. AutoArchive(a) => TypeOK'
  BY DEF AutoArchive
<1>17. Notify(a) => TypeOK'
  BY DEF Notify
<1>18. QED
  BY <1>1, <1>2, <1>3, <1>4, <1>5, <1>6, <1>7, <1>8, <1>9, <1>10, <1>11, <1>12,
     <1>13, <1>14, <1>15, <1>16, <1>17 DEF Work

\* Every step of the handlers, the queue, recovery or the clock keeps the types.
LEMMA EnvironmentTypeOK ==
    ASSUME TypeOK, Environment
    PROVE  TypeOK'
<1> USE DEF TypeOK, row, stores, queue, attempts, handlers
<1>1. Tick => TypeOK'
  BY BoundsAssumption DEF Tick, ClockRuns
<1>2. Abandon => TypeOK'
  BY DEF Abandon, RqState, TerminalRq
<1>3. Enqueue => TypeOK'
  BY DEF Enqueue, RqState
<1>4. RecordQueueId => TypeOK'
  BY DEF RecordQueueId
<1>5. FailEnqueue => TypeOK'
  BY DEF FailEnqueue, Status, Terminal
<1>6. CreatorCrash => TypeOK'
  BY DEF CreatorCrash
<1>7. CancelRead => TypeOK'
  BY DEF CancelRead
<1>8. CancelQueue => TypeOK'
  BY DEF CancelQueue, RqState, TerminalRq
<1>9. CancelWrite => TypeOK'
  BY DEF CancelWrite, Status, Terminal
<1>10. ClearRead => TypeOK'
  BY DEF ClearRead
<1>11. ClearDelete => TypeOK'
  BY DEF ClearDelete, Status
<1>12. RecoverInspect => TypeOK'
  BY DEF RecoverInspect
<1>13. RecoverApply => TypeOK'
  BY DEF RecoverApply, Status, Terminal
<1>14. QED
  BY <1>1, <1>2, <1>3, <1>4, <1>5, <1>6, <1>7, <1>8, <1>9, <1>10, <1>11, <1>12,
     <1>13 DEF Environment

\* Every step keeps the types.
LEMMA NextTypeOK == TypeOK /\ [Next]_vars => TypeOK'
<1> SUFFICES ASSUME TypeOK, [Next]_vars PROVE TypeOK'
  OBVIOUS
<1> USE DEF row, stores, queue, attempts, handlers
<1>1. ASSUME NEW a \in Attempt, Work(a) PROVE TypeOK'
  BY <1>1, WorkTypeOK
<1>2. ASSUME NEW a \in Attempt, Heartbeat(a) PROVE TypeOK'
  BY <1>2, BoundsAssumption DEF TypeOK, Heartbeat, Renewed
<1>3. ASSUME NEW a \in Attempt, Crash(a) PROVE TypeOK'
  BY <1>3 DEF TypeOK, Crash, Goto, Stage
<1>4. ASSUME NEW a \in Attempt, StopHorse(a) PROVE TypeOK'
  BY <1>4 DEF TypeOK, StopHorse, Goto, Stage, RqState, TerminalRq
<1>5. CASE Environment
  BY <1>5, EnvironmentTypeOK
<1>6. CASE UNCHANGED vars
  BY <1>6 DEF vars, TypeOK
<1>7. QED
  BY <1>1, <1>2, <1>3, <1>4, <1>5, <1>6 DEF Next

\* Every variable keeps its type, for the fenced and for the legacy worker.
THEOREM TypeCorrect == Spec => []TypeOK
BY InitTypeOK, NextTypeOK, PTL DEF Spec

-----------------------------------------------------------------------------
(* The inductive invariant of the fenced worker.                           *)

\* Stages of an attempt that has not yet recorded a destination.
Unrecorded == {"idle", "claim", "load", "progress80", "check", "reserve", "journal"}

\* The row: a queued job was never claimed, a claimed one has at most one
\* executing attempt, a result is linked only after "running", a lease is
\* revoked only together with the end of the job, and a cancelled job does not
\* run again.
RowInv ==
    /\ status = "queued" => /\ token = None
                            /\ epoch = 0
                            /\ \A a \in Attempt : pc[a] \notin Executing
    /\ status \in {"queued", "running"} => output = None /\ ~clearing
    /\ epoch > 0 /\ token = None => status \in {"failed", "cancelled", "deleted"}
    /\ cancel = "done" => status \notin {"queued", "running"}
    /\ SingleExecutor

\* The destinations of an attempt: untouched before they are recorded, planned
\* while the attempt stores, stored up to its cursor, and absent where a
\* delete was confirmed.
AttemptInv(a) ==
    /\ pc[a] \in Unrecorded =>
          /\ cursor[a] = 0
          /\ \A n \in Names(a) : journal[n] = "none" /\ n \notin objects
    /\ pc[a] \in Storing =>
          /\ \A n \in Names(a) : journal[n] = "planned"
          /\ \A n \in Names(a) : n \in objects \/ (n[2] > cursor[a])
    /\ pc[a] = "publish" => cursor[a] = NumParts
    /\ \A n \in Names(a) : n[2] \in absent[a] => n \notin objects

DestinationInv ==
    /\ \A a \in Attempt : AttemptInv(a)
    /\ AllOrNothing
    /\ PublishedBacked
    /\ OrphansJournalled

IInv == TypeOK /\ RowInv /\ DestinationInv

\* A new job has no executor and no lease.
LEMMA InitRowInv == Init => RowInv
BY DEF Init, RowInv, SingleExecutor, Executing, Storing

\* Once past the claim, an attempt changes the row only from "running" and
\* never leaves the executing stages to come back.
LEMMA WorkRowInv ==
    ASSUME JournalEnabled, TypeOK, RowInv, NEW a \in Attempt, Work(a)
    PROVE  RowInv'
<1> USE DEF TypeOK, RowInv, SingleExecutor, Stage, Executing, Storing, row, stores,
            queue, attempts, handlers, Goto, Leave
<1>1. Start(a) => RowInv'
  BY DEF Start
<1>2. Claim(a) => RowInv'
  BY NamesAssumption DEF Claim, Claimable
<1>3. ~LegacyStart(a)
  BY DEF LegacyStart
<1>4. Progress(a, "load", "progress80") => RowInv'
  BY DEF Progress
<1>5. Progress(a, "progress80", "check") => RowInv'
  BY DEF Progress
<1>6. CheckCancelled(a) => RowInv'
  BY DEF CheckCancelled
<1>7. CheckLease(a) => RowInv'
  BY DEF CheckLease
<1>8. WriteJournal(a) => RowInv'
  BY DEF WriteJournal
<1>9. Store(a) => RowInv'
  BY DEF Store
<1>10. Flush(a) => RowInv'
  BY DEF Flush
<1>11. Publish(a) => RowInv'
  BY NamesAssumption DEF Publish, PublishAllowed, LeaseCurrent
<1>12. Cleanup(a) => RowInv'
  BY DEF Cleanup
<1>13. Compensate(a) => RowInv'
  BY DEF Compensate
<1>14. Refresh(a) => RowInv'
  BY DEF Refresh
<1>15. MarkFailed(a) => RowInv'
  BY DEF MarkFailed, FailureAllowed, LeaseCurrent
<1>16. AutoArchive(a) => RowInv'
  BY DEF AutoArchive
<1>17. Notify(a) => RowInv'
  BY DEF Notify
<1>18. QED
  BY <1>1, <1>2, <1>3, <1>4, <1>5, <1>6, <1>7, <1>8, <1>9, <1>10, <1>11, <1>12,
     <1>13, <1>14, <1>15, <1>16, <1>17 DEF Work

\* No handler, recovery or clock step gives the row to a second attempt.
LEMMA EnvironmentRowInv ==
    ASSUME TypeOK, RowInv, Environment
    PROVE  RowInv'
<1> USE DEF TypeOK, RowInv, SingleExecutor, Status, Terminal, row, stores, queue,
            attempts, handlers
<1>1. Tick => RowInv'
  BY DEF Tick
<1>2. Abandon => RowInv'
  BY DEF Abandon
<1>3. Enqueue => RowInv'
  BY DEF Enqueue
<1>4. RecordQueueId => RowInv'
  BY DEF RecordQueueId
<1>5. FailEnqueue => RowInv'
  BY DEF FailEnqueue
<1>6. CreatorCrash => RowInv'
  BY DEF CreatorCrash
<1>7. CancelRead => RowInv'
  BY DEF CancelRead
<1>8. CancelQueue => RowInv'
  BY DEF CancelQueue
<1>9. CancelWrite => RowInv'
  BY DEF CancelWrite
<1>10. ClearRead => RowInv'
  BY DEF ClearRead
<1>11. ClearDelete => RowInv'
  BY DEF ClearDelete
<1>12. RecoverInspect => RowInv'
  BY DEF RecoverInspect
<1>13. RecoverApply => RowInv'
  BY DEF RecoverApply, Expired
<1>14. QED
  BY <1>1, <1>2, <1>3, <1>4, <1>5, <1>6, <1>7, <1>8, <1>9, <1>10, <1>11, <1>12,
     <1>13 DEF Environment

\* Every step of the fenced worker keeps the row and its attempts in agreement.
LEMMA NextRowInv ==
    ASSUME JournalEnabled, TypeOK, RowInv, [Next]_vars
    PROVE  RowInv'
<1> USE DEF row, stores, queue, attempts, handlers
<1>1. ASSUME NEW a \in Attempt, Work(a) PROVE RowInv'
  BY <1>1, WorkRowInv
<1>2. ASSUME NEW a \in Attempt, Heartbeat(a) PROVE RowInv'
  BY <1>2 DEF RowInv, SingleExecutor, Heartbeat
<1>3. ASSUME NEW a \in Attempt, Crash(a) \/ StopHorse(a) PROVE RowInv'
  BY <1>3 DEF TypeOK, RowInv, SingleExecutor, Crash, StopHorse, Goto, Executing, Storing
<1>4. CASE Environment
  BY <1>4, EnvironmentRowInv
<1>5. CASE UNCHANGED vars
  BY <1>5 DEF vars, RowInv, SingleExecutor
<1>6. QED
  BY <1>1, <1>2, <1>3, <1>4, <1>5 DEF Next

-----------------------------------------------------------------------------
(* The destinations: names, then the steps that move no object.            *)

\* Every attempt of the fenced worker has destinations of its own.
LEMMA NamesFacts ==
    ASSUME JournalEnabled, NEW a \in Attempt
    PROVE  /\ Names(a) \in SUBSET Name
           /\ \A n \in Names(a) : n[1] = a /\ n[2] \in Parts
           /\ \A i \in Parts : /\ NameOf(a, i) \in Names(a)
                               /\ NameOf(a, i)[2] = i
           /\ \A n \in Names(a) : n = NameOf(a, n[2])
           /\ \A b \in Attempt \ {a} : Names(a) \cap Names(b) = {}
BY DEF Names, NameOf, Token, Name

\* At first no attempt has a destination.
LEMMA InitDestinationInv == ASSUME JournalEnabled, Init PROVE DestinationInv
<1> USE DEF Init
<1>1. ASSUME NEW a \in Attempt PROVE AttemptInv(a)
  <2>1. \A n \in Names(a) : journal[n] = "none" /\ n \notin objects
    BY NamesFacts
  <2>2. pc[a] = "idle" /\ cursor[a] = 0
    OBVIOUS
  <2>3. QED
    BY <2>1, <2>2 DEF AttemptInv, Storing
<1>2. AllOrNothing /\ PublishedBacked /\ OrphansJournalled
  BY DEF AllOrNothing, PublishedBacked, OrphansJournalled
<1>3. QED
  BY <1>1, <1>2 DEF DestinationInv

\* A step that moves one attempt to a stage without destinations, or on from
\* one such stage to the next, and touches neither journal nor store.
LEMMA StageFrame ==
    ASSUME DestinationInv, NEW a \in Attempt, TypeOK,
           UNCHANGED <<output, journal, files, objects, cursor, absent>>,
           NEW s \in Stage \ Storing,
           pc' = [pc EXCEPT ![a] = s],
           s \in Unrecorded => pc[a] \in Unrecorded
    PROVE  DestinationInv'
<1>1. ASSUME NEW b \in Attempt PROVE AttemptInv(b)'
  <2>1. AttemptInv(b)
    BY DEF DestinationInv
  <2>2. pc'[b] = IF b = a THEN s ELSE pc[b]
    BY DEF TypeOK
  <2>3. Names(b)' = Names(b)
    BY DEF Names, Token
  <2>4. QED
    BY <2>1, <2>2, <2>3 DEF AttemptInv, Storing
<1>2. (AllOrNothing /\ PublishedBacked /\ OrphansJournalled)'
  BY DEF DestinationInv, AllOrNothing, PublishedBacked, OrphansJournalled, Names, Token
<1>3. QED
  BY <1>1, <1>2 DEF DestinationInv

\* A step of the handlers, the queue or the clock.
LEMMA StoreFrame ==
    ASSUME DestinationInv,
           UNCHANGED <<output, journal, files, objects, pc, cursor, absent>>
    PROVE  DestinationInv'
BY DEF DestinationInv, AttemptInv, AllOrNothing, PublishedBacked, OrphansJournalled,
       Names, Token

-----------------------------------------------------------------------------
(* The steps that write the journal, the object store or the file table.   *)

\* reserve_writes: a reservation plans names nobody uses.
LEMMA WriteJournalDestinations ==
    ASSUME JournalEnabled, TypeOK, DestinationInv, NEW a \in Attempt, WriteJournal(a)
    PROVE  DestinationInv'
<1> USE DEF row, queue, handlers, Goto
<1>1. CASE pc' = [pc EXCEPT ![a] = "rollback"] /\ UNCHANGED journal
  BY <1>1, StageFrame DEF WriteJournal, Stage, Executing, Storing, Unrecorded
<1>2. CASE /\ journal' = [n \in Name |->
                            IF n \in Names(a) THEN "planned" ELSE journal[n]]
           /\ \E s \in {"store", "rollback"} : pc' = [pc EXCEPT ![a] = s]
  <2>1. AttemptInv(a) /\ pc[a] \in Unrecorded
    BY DEF WriteJournal, DestinationInv, Unrecorded
  <2>2. cursor[a] = 0 /\ \A n \in Names(a) : journal[n] = "none" /\ n \notin objects
    BY <2>1 DEF AttemptInv
  <2>3. UNCHANGED <<output, files, objects, cursor, absent>>
    BY DEF WriteJournal
  <2>4. \A b \in Attempt : Names(b)' = Names(b)
    BY DEF Names, Token
  <2>5. ASSUME NEW b \in Attempt PROVE AttemptInv(b)'
    <3>1. CASE b = a
      <4>1. pc'[a] \in {"store", "rollback"}
        BY <1>2 DEF TypeOK
      <4>2. \A n \in Names(a) : journal'[n] = "planned" /\ n[2] > 0
        BY <1>2, NamesFacts, BoundsAssumption DEF Parts
      <4>3. QED
        BY <2>1, <2>2, <2>3, <2>4, <3>1, <4>1, <4>2 DEF AttemptInv, Storing, Unrecorded
    <3>2. CASE b # a
      <4>1. pc'[b] = pc[b]
        BY <1>2, <3>2 DEF TypeOK
      <4>2. \A n \in Names(b) : journal'[n] = journal[n]
        BY <1>2, <3>2, NamesFacts
      <4>3. QED
        BY <2>3, <2>4, <4>1, <4>2 DEF DestinationInv, AttemptInv
    <3>3. QED
      BY <3>1, <3>2
  <2>6. AllOrNothing'
    <3>1. {n \in Name : journal'[n] = "committed"} = {n \in Name : journal[n] = "committed"}
      BY <1>2, <2>2
    <3>2. QED
      BY <2>3, <3>1 DEF DestinationInv, AllOrNothing, Names, Token
  <2>7. PublishedBacked'
    BY <2>3 DEF DestinationInv, PublishedBacked
  <2>8. OrphansJournalled'
    BY <1>2, <2>2, <2>3 DEF TypeOK, DestinationInv, OrphansJournalled
  <2>9. QED
    BY <2>5, <2>6, <2>7, <2>8 DEF DestinationInv
<1>3. QED
  BY <1>1, <1>2 DEF WriteJournal

\* store_staged_file: an object appears under a planned name only.
LEMMA StoreDestinations ==
    ASSUME JournalEnabled, TypeOK, DestinationInv, NEW a \in Attempt, Store(a)
    PROVE  DestinationInv'
<1> USE DEF row, queue, handlers, Goto
<1> DEFINE i == cursor[a] + 1
           n == NameOf(a, i)
<1>1. /\ i \in Parts /\ n \in Names(a) /\ n[2] = i
      /\ pc[a] = "store"
      /\ UNCHANGED <<output, journal, files>>
  BY NamesFacts DEF Store
<1>2. /\ cursor' = [cursor EXCEPT ![a] = i]
      /\ absent' = [absent EXCEPT ![a] = @ \ {i}]
  BY DEF Store
<1>3. \E s \in {"flush", "rollback"} :
        /\ pc' = [pc EXCEPT ![a] = s]
        /\ objects' = objects \cup {n} \/ (s = "rollback" /\ objects' = objects)
  BY DEF Store
<1>4. AttemptInv(a) /\ \A m \in Names(a) : journal[m] = "planned"
  BY <1>1 DEF DestinationInv, AttemptInv, Storing
<1>5. \A b \in Attempt : Names(b)' = Names(b)
  BY DEF Names, Token
<1>6. ASSUME NEW b \in Attempt PROVE AttemptInv(b)'
  <2>1. CASE b = a
    <3>1. /\ cursor'[a] = i /\ absent'[a] = absent[a] \ {i}
          /\ pc'[a] \in {"flush", "rollback"}
          /\ pc'[a] = "flush" => objects' = objects \cup {n}
      BY <1>2, <1>3 DEF TypeOK
    <3>2. \A m \in Names(a) : m[2] = i => m = n
      BY NamesFacts
    <3>3. \A m \in Names(a) : m \in objects \/ m[2] > cursor[a]
      BY <1>1, <1>4 DEF AttemptInv, Storing
    <3>4. cursor[a] \in Nat /\ \A m \in Names(a) : m[2] \in Nat
      BY NamesFacts, BoundsAssumption DEF TypeOK, Parts
    <3>5. pc'[a] = "flush" => \A m \in Names(a) : m \in objects' \/ m[2] > i
      <4>1. SUFFICES ASSUME pc'[a] = "flush", NEW m \in Names(a), m \notin objects'
                     PROVE  m[2] > i
        OBVIOUS
      <4>2. m # n /\ m \notin objects
        BY <3>1, <4>1
      <4>3. m[2] # i /\ m[2] > cursor[a]
        BY <3>2, <3>3, <4>2
      <4>4. QED
        BY <3>4, <4>3
    <3>6. \A m \in Names(a) : m[2] \in absent'[a] => m \notin objects'
      <4>1. SUFFICES ASSUME NEW m \in Names(a), m[2] \in absent'[a]
                     PROVE  m \notin objects'
        OBVIOUS
      <4>2. m[2] \in absent[a] /\ m # n
        BY <1>1, <3>1, <4>1
      <4>3. m \notin objects
        BY <1>4, <4>2 DEF AttemptInv
      <4>4. QED
        BY <1>3, <4>2, <4>3
    <3>7. QED
      BY <1>1, <1>4, <1>5, <2>1, <3>1, <3>5, <3>6 DEF AttemptInv, Storing, Unrecorded
  <2>2. CASE b # a
    <3>1. pc'[b] = pc[b] /\ cursor'[b] = cursor[b] /\ absent'[b] = absent[b]
      BY <1>2, <1>3, <2>2 DEF TypeOK
    <3>2. \A m \in Names(b) : m # n
      BY <1>1, <2>2, NamesFacts
    <3>3. \A m \in Names(b) : m \in objects' <=> m \in objects
      BY <1>3, <3>2
    <3>4. QED
      BY <1>1, <1>5, <3>1, <3>3 DEF DestinationInv, AttemptInv
  <2>3. QED
    BY <2>1, <2>2
<1>7. AllOrNothing'
  BY <1>1 DEF DestinationInv, AllOrNothing, Names, Token
<1>8. PublishedBacked'
  BY <1>1, <1>3 DEF DestinationInv, PublishedBacked
<1>9. OrphansJournalled'
  BY <1>1, <1>3, <1>4 DEF DestinationInv, OrphansJournalled
<1>10. QED
  BY <1>6, <1>7, <1>8, <1>9 DEF DestinationInv

\* The flush of a FileRecord changes nothing that others see.
LEMMA FlushDestinations ==
    ASSUME JournalEnabled, TypeOK, DestinationInv, NEW a \in Attempt, Flush(a)
    PROVE  DestinationInv'
<1> USE DEF row, stores, queue, handlers, Goto
<1>1. /\ pc[a] = "flush"
      /\ UNCHANGED <<output, journal, files, objects, cursor, absent>>
      /\ \E s \in {"rollback", "publish", "store"} :
            /\ pc' = [pc EXCEPT ![a] = s]
            /\ s = "publish" => cursor[a] = NumParts
  BY DEF Flush
<1>2. ASSUME NEW b \in Attempt PROVE AttemptInv(b)'
  <2>1. /\ AttemptInv(b)
        /\ Names(b)' = Names(b)
    BY DEF DestinationInv, Names, Token
  <2>2. IF b = a THEN /\ pc'[a] \in {"rollback", "publish", "store"}
                      /\ pc'[a] = "publish" => cursor[a] = NumParts
        ELSE pc'[b] = pc[b]
    BY <1>1 DEF TypeOK
  <2>3. QED
    BY <1>1, <2>1, <2>2 DEF AttemptInv, Storing, Unrecorded
<1>3. (AllOrNothing /\ PublishedBacked /\ OrphansJournalled)'
  BY <1>1 DEF DestinationInv, AllOrNothing, PublishedBacked, OrphansJournalled, Names,
              Token
<1>4. QED
  BY <1>2, <1>3 DEF DestinationInv

\* The completing commit makes the whole bundle owned and its journal committed.
LEMMA PublishDestinations ==
    ASSUME JournalEnabled, TypeOK, RowInv, DestinationInv, NEW a \in Attempt, Publish(a)
    PROVE  DestinationInv'
<1> USE DEF row, queue, handlers, Goto
<1>1. pc[a] = "publish" /\ UNCHANGED <<objects, cursor, absent>>
  BY DEF Publish
<1>2. CASE /\ pc' = [pc EXCEPT ![a] = "rollback"]
           /\ UNCHANGED <<output, files, journal>>
  BY <1>1, <1>2, StageFrame DEF Stage, Executing, Storing, Unrecorded
<1>3. CASE /\ PublishAllowed(a)
           /\ output' = a
           /\ files' = files \cup Bundle(a)
           /\ journal' = [n \in Name |-> IF JournalEnabled /\ n \in Names(a)
                                         THEN "committed" ELSE journal[n]]
           /\ \E s \in {"archive", "rollback"} : pc' = [pc EXCEPT ![a] = s]
  <2>1. files = {} /\ {n \in Name : journal[n] = "committed"} = {}
    BY <1>3 DEF PublishAllowed, LeaseCurrent, RowInv, DestinationInv, AllOrNothing
  <2>2. files' = Names(a) /\ \A b \in Attempt : Names(b)' = Names(b)
    BY <1>3, <2>1 DEF Bundle, Names, Token
  <2>3. \A n \in Names(a) : n \in objects
    <3>1. \A n \in Names(a) : n \in objects \/ n[2] > NumParts
      BY <1>1 DEF DestinationInv, AttemptInv, Storing
    <3>2. QED
      BY <3>1, NamesFacts, BoundsAssumption DEF Parts
  <2>4. ASSUME NEW b \in Attempt PROVE AttemptInv(b)'
    <3>1. CASE b = a
      <4>1. pc'[a] \in {"archive", "rollback"}
        BY <1>3 DEF TypeOK
      <4>2. \A n \in Names(a) : n[2] \in absent'[a] => n \notin objects'
        BY <1>1 DEF DestinationInv, AttemptInv
      <4>3. QED
        BY <2>2, <3>1, <4>1, <4>2 DEF AttemptInv, Storing, Unrecorded
    <3>2. CASE b # a
      <4>1. pc'[b] = pc[b]
        BY <1>3, <3>2 DEF TypeOK
      <4>2. \A n \in Names(b) : journal'[n] = journal[n]
        BY <1>3, <3>2, NamesFacts
      <4>3. QED
        BY <1>1, <2>2, <4>1, <4>2 DEF DestinationInv, AttemptInv
    <3>3. QED
      BY <3>1, <3>2
  <2>5. AllOrNothing'
    <3>1. {n \in Name : journal'[n] = "committed"} = Names(a)
      BY <1>3, <2>1, NamesFacts
    <3>2. files' = Names(output)'
      BY <1>3, <2>2 DEF Names, Token
    <3>3. output' # None
      BY <1>3, NamesAssumption
    <3>4. QED
      BY <2>2, <3>1, <3>2, <3>3 DEF AllOrNothing
  <2>6. PublishedBacked'
    BY <1>1, <2>2, <2>3 DEF PublishedBacked
  <2>7. OrphansJournalled'
    BY <1>1, <1>3, <2>1, <2>2 DEF TypeOK, DestinationInv, OrphansJournalled
  <2>8. QED
    BY <2>4, <2>5, <2>6, <2>7 DEF DestinationInv
<1>4. QED
  BY <1>2, <1>3 DEF Publish

\* The exception handler deletes objects that nobody owns.
LEMMA CleanupDestinations ==
    ASSUME JournalEnabled, TypeOK, DestinationInv, NEW a \in Attempt, Cleanup(a)
    PROVE  DestinationInv'
<1> USE DEF row, queue, handlers
<1> DEFINE i == cursor[a]
           n == NameOf(a, i)
<1>1. /\ pc[a] = "rollback"
      /\ i \in Parts /\ n \in Names(a) /\ n[2] = i
      /\ UNCHANGED <<output, journal, files, pc>>
      /\ cursor' = [cursor EXCEPT ![a] = i - 1]
  BY NamesFacts, BoundsAssumption DEF Cleanup, TypeOK, Parts
<1>2. \/ /\ n \notin files /\ objects' = objects \ {n}
         /\ absent' = [absent EXCEPT ![a] = @ \cup {i}] \/ absent' = absent
      \/ objects' = objects /\ absent' = absent
  BY DEF Cleanup, Deletable
<1>3. ASSUME NEW b \in Attempt PROVE AttemptInv(b)'
  <2>1. AttemptInv(b) /\ Names(b)' = Names(b)
    BY DEF DestinationInv, Names, Token
  <2>2. CASE b = a
    <3>1. \A m \in Names(a) : m[2] = i => m = n
      BY NamesFacts
    <3>2. \A m \in Names(a) : m[2] \in absent'[a] => m \notin objects'
      BY <1>1, <1>2, <2>1, <2>2, <3>1 DEF AttemptInv, TypeOK
    <3>3. QED
      BY <1>1, <2>1, <2>2, <3>2 DEF AttemptInv, Storing, Unrecorded
  <2>3. CASE b # a
    <3>1. cursor'[b] = cursor[b] /\ absent'[b] = absent[b]
      BY <1>1, <1>2, <2>3 DEF TypeOK
    <3>2. \A m \in Names(b) : m # n
      BY <1>1, <2>3, NamesFacts
    <3>3. \A m \in Names(b) : m \in objects' <=> m \in objects
      BY <1>2, <3>2
    <3>4. QED
      BY <1>1, <2>1, <3>1, <3>3 DEF AttemptInv
  <2>4. QED
    BY <2>2, <2>3
<1>4. AllOrNothing'
  BY <1>1 DEF DestinationInv, AllOrNothing, Names, Token
<1>5. PublishedBacked' /\ OrphansJournalled'
  BY <1>1, <1>2 DEF DestinationInv, PublishedBacked, OrphansJournalled
<1>6. QED
  BY <1>3, <1>4, <1>5 DEF DestinationInv

\* compensate_writes closes the journal only of objects that are gone.
LEMMA CompensateDestinations ==
    ASSUME JournalEnabled, TypeOK, DestinationInv, NEW a \in Attempt, Compensate(a)
    PROVE  DestinationInv'
<1> USE DEF row, queue, handlers, Goto
<1>1. /\ pc[a] = "rollback"
      /\ pc' = [pc EXCEPT ![a] = "refresh"]
      /\ UNCHANGED <<output, files, objects, cursor, absent>>
  BY DEF Compensate
<1>2. CASE UNCHANGED journal
  BY <1>1, <1>2, StageFrame DEF Stage, Executing, Storing, Unrecorded
<1>3. CASE journal' = [n \in Name |->
                         IF JournalEnabled /\ n \in Names(a) /\ journal[n] = "planned"
                         THEN Settled(a, n) ELSE journal[n]]
  <2>1. \A n \in Name : journal'[n] = "committed" <=> journal[n] = "committed"
    BY <1>3 DEF Settled
  <2>2. ASSUME NEW b \in Attempt PROVE AttemptInv(b)'
    <3>1. AttemptInv(b) /\ Names(b)' = Names(b)
      BY DEF DestinationInv, Names, Token
    <3>2. CASE b = a
      <4>1. pc'[a] = "refresh"
        BY <1>1 DEF TypeOK
      <4>2. QED
        BY <1>1, <3>1, <3>2, <4>1 DEF AttemptInv, Storing, Unrecorded
    <3>3. CASE b # a
      <4>1. pc'[b] = pc[b]
        BY <1>1, <3>3 DEF TypeOK
      <4>2. \A n \in Names(b) : journal'[n] = journal[n]
        BY <1>3, <3>3, NamesFacts
      <4>3. QED
        BY <1>1, <3>1, <4>1, <4>2 DEF AttemptInv
    <3>4. QED
      BY <3>2, <3>3
  <2>3. AllOrNothing'
    BY <1>1, <2>1 DEF DestinationInv, AllOrNothing, Names, Token
  <2>4. PublishedBacked'
    BY <1>1 DEF DestinationInv, PublishedBacked
  <2>5. ASSUME NEW n \in objects' \ files'
        PROVE  journal'[n] \in {"planned", "needs_review"}
    <3>1. n \in Name /\ n \in objects /\ journal[n] \in {"planned", "needs_review"}
      BY <1>1 DEF TypeOK, DestinationInv, OrphansJournalled
    <3>2. n \in Names(a) => n[2] \notin absent[a]
      BY <3>1 DEF DestinationInv, AttemptInv
    <3>3. QED
      BY <1>3, <3>1, <3>2 DEF Settled
  <2>6. QED
    BY <2>2, <2>3, <2>4, <2>5 DEF DestinationInv, OrphansJournalled
<1>4. QED
  BY <1>2, <1>3 DEF Compensate

\* Every step keeps journal, objects and saved files in agreement.
LEMMA NextDestinationInv ==
    ASSUME JournalEnabled, TypeOK, RowInv, DestinationInv, [Next]_vars
    PROVE  DestinationInv'
<1> USE DEF row, stores, queue, attempts, handlers, Goto, Leave
<1>1. ASSUME NEW a \in Attempt, Work(a) PROVE DestinationInv'
  <2> USE DEF Stage, Executing, Storing, Unrecorded
  <2>1. CASE Start(a)
    BY <2>1, StageFrame DEF Start
  <2>2. CASE Claim(a)
    BY <2>2, StageFrame DEF Claim
  <2>3. CASE LegacyStart(a)
    BY <2>3 DEF LegacyStart
  <2>4. CASE Progress(a, "load", "progress80")
    BY <2>4, StageFrame DEF Progress
  <2>5. CASE Progress(a, "progress80", "check")
    BY <2>5, StageFrame DEF Progress
  <2>6. CASE CheckCancelled(a)
    BY <2>6, StageFrame DEF CheckCancelled
  <2>7. CASE CheckLease(a)
    BY <2>7, StageFrame DEF CheckLease
  <2>8. CASE WriteJournal(a) \/ Store(a) \/ Flush(a)
    BY <2>8, WriteJournalDestinations, StoreDestinations, FlushDestinations
  <2>9. CASE Publish(a) \/ Cleanup(a) \/ Compensate(a)
    BY <2>9, PublishDestinations, CleanupDestinations, CompensateDestinations
  <2>10. CASE Refresh(a)
    BY <2>10, StageFrame DEF Refresh
  <2>11. CASE MarkFailed(a)
    BY <2>11, StageFrame DEF MarkFailed
  <2>12. CASE AutoArchive(a)
    BY <2>12, StageFrame DEF AutoArchive
  <2>13. CASE Notify(a)
    BY <2>13, StageFrame DEF Notify
  <2>14. QED
    BY <1>1, <2>1, <2>2, <2>3, <2>4, <2>5, <2>6, <2>7, <2>8, <2>9, <2>10, <2>11,
       <2>12, <2>13 DEF Work
<1>2. ASSUME NEW a \in Attempt, Heartbeat(a) PROVE DestinationInv'
  BY <1>2, StoreFrame DEF Heartbeat
<1>3. ASSUME NEW a \in Attempt, Crash(a) \/ StopHorse(a) PROVE DestinationInv'
  BY <1>3, StageFrame DEF Crash, StopHorse, Stage, Executing, Storing, Unrecorded
<1>4. CASE Environment
  BY <1>4, StoreFrame DEF Environment, Tick, Abandon, Enqueue, RecordQueueId, FailEnqueue,
     CreatorCrash, CancelRead, CancelQueue, CancelWrite, ClearRead, ClearDelete,
     RecoverInspect, RecoverApply
<1>5. CASE UNCHANGED vars
  BY <1>5, StoreFrame DEF vars
<1>6. QED
  BY <1>1, <1>2, <1>3, <1>4, <1>5 DEF Next

-----------------------------------------------------------------------------
(* The safety theorems of the fenced worker.                               *)

\* The strengthened invariant is inductive for the fenced worker.
LEMMA Inductive ==
    ASSUME JournalEnabled
    PROVE  /\ Init => IInv
           /\ IInv /\ [Next]_vars => IInv'
BY InitTypeOK, InitRowInv, InitDestinationInv, NextTypeOK, NextRowInv, NextDestinationInv
   DEF IInv

\* In every reachable state of the fenced worker, row, leases, journal, objects
\* and saved files agree.
THEOREM Invariant == JournalEnabled => (Spec => []IInv)
<1> SUFFICES ASSUME JournalEnabled PROVE Spec => []IInv
  OBVIOUS
<1>1. Init => IInv
  BY Inductive
<1>2. IInv /\ [Next]_vars => IInv'
  BY Inductive
<1>3. QED
  BY <1>1, <1>2, PTL DEF Spec

\* At most one attempt of a job executes, however often the queue delivers it.
THEOREM OneExecutor == JournalEnabled => (Spec => []SingleExecutor)
<1>1. IInv => SingleExecutor
  BY DEF IInv, RowInv
<1>2. QED
  BY <1>1, Invariant, PTL

\* A published file has its object, whatever other attempts clean up.
THEOREM PublishedFilesExist == JournalEnabled => (Spec => []PublishedBacked)
<1>1. IInv => PublishedBacked
  BY DEF IInv, DestinationInv
<1>2. QED
  BY <1>1, Invariant, PTL

\* No crash leaves an object without either an owner or an open journal row.
THEOREM NoUnknownOrphan == JournalEnabled => (Spec => []OrphansJournalled)
<1>1. IInv => OrphansJournalled
  BY DEF IInv, DestinationInv
<1>2. QED
  BY <1>1, Invariant, PTL

-----------------------------------------------------------------------------
(* Action properties: each follows from the invariant at both ends of the  *)
(* step.  The first lemma lists the steps that write the row or publish.   *)

LEMMA RowSteps ==
    ASSUME JournalEnabled, TypeOK, [Next]_vars
    PROVE  \/ UNCHANGED <<status, token, epoch, files, output>>
           \/ \E a \in Attempt : Claim(a) \/ Publish(a) \/ MarkFailed(a)
           \/ RecordQueueId \/ FailEnqueue \/ CancelWrite \/ ClearDelete \/ RecoverApply
<1> USE DEF row, stores, queue, attempts, handlers
<1>1. ASSUME NEW a \in Attempt, Work(a)
      PROVE  \/ UNCHANGED <<status, token, epoch, files, output>>
             \/ Claim(a) \/ Publish(a) \/ MarkFailed(a)
  <2> SUFFICES ASSUME ~Claim(a), ~Publish(a), ~MarkFailed(a)
               PROVE  UNCHANGED <<status, token, epoch, files, output>>
    OBVIOUS
  <2>1. CASE Start(a) \/ CheckCancelled(a) \/ CheckLease(a) \/ WriteJournal(a)
    BY <2>1 DEF Start, CheckCancelled, CheckLease, WriteJournal
  <2>2. CASE Progress(a, "load", "progress80") \/ Progress(a, "progress80", "check")
    BY <2>2 DEF Progress
  <2>3. CASE Store(a) \/ Flush(a) \/ Cleanup(a) \/ Compensate(a)
    BY <2>3 DEF Store, Flush, Cleanup, Compensate
  <2>4. CASE LegacyStart(a) \/ Refresh(a) \/ AutoArchive(a) \/ Notify(a)
    BY <2>4 DEF LegacyStart, Refresh, AutoArchive, Notify
  <2>5. QED
    BY <1>1, <2>1, <2>2, <2>3, <2>4 DEF Work
<1>2. ASSUME NEW a \in Attempt, Heartbeat(a) \/ Crash(a) \/ StopHorse(a)
      PROVE  UNCHANGED <<status, token, epoch, files, output>>
  BY <1>2 DEF Heartbeat, Crash, StopHorse
<1>3. CASE Environment
  BY <1>3 DEF Environment, Tick, Abandon, Enqueue, CreatorCrash, CancelRead, CancelQueue,
     ClearRead, RecoverInspect
<1>4. QED
  BY <1>1, <1>2, <1>3 DEF Next, vars

\* A lease that ran out is not extended and not granted again: a heartbeat
\* needs time left on it, and a claim needs a job that nobody has claimed.
THEOREM ExpiredLeaseStaysExpired == JournalEnabled => (Spec => LeaseNeverRevives)
<1> SUFFICES ASSUME JournalEnabled PROVE Spec => LeaseNeverRevives
  OBVIOUS
<1>1. ASSUME IInv, [Next]_vars, token # None, lease <= 0 PROVE lease' <= 0
  <2> USE DEF row, stores, queue, attempts, handlers
  <2>1. lease \in Int /\ status # "queued"
    BY <1>1, BoundsAssumption DEF IInv, TypeOK, RowInv
  <2>2. ASSUME NEW a \in Attempt, Work(a) PROVE lease' = lease
    BY <2>1, <2>2 DEF Work, Start, Claim, Claimable, LegacyStart, Progress, CheckCancelled,
       CheckLease, WriteJournal, Store, Flush, Publish, Cleanup, Compensate, Refresh,
       MarkFailed, AutoArchive, Notify
  <2>3. ASSUME NEW a \in Attempt PROVE ~Heartbeat(a)
    BY <1>1, <2>1 DEF Heartbeat, Renewed, BeatAllowed, LeaseCurrent
  <2>4. ASSUME NEW a \in Attempt, Crash(a) \/ StopHorse(a) PROVE lease' = lease
    BY <2>4 DEF Crash, StopHorse
  <2>5. CASE Tick
    BY <1>1, <2>1, <2>5 DEF Tick
  <2>6. CASE Environment /\ ~Tick
    BY <1>1, <2>6 DEF Environment, Abandon, Enqueue, RecordQueueId, FailEnqueue,
       CreatorCrash, CancelRead, CancelQueue, CancelWrite, ClearRead, ClearDelete,
       RecoverInspect, RecoverApply
  <2>7. CASE UNCHANGED vars
    BY <1>1, <2>7 DEF vars
  <2>8. QED
    BY <1>1, <2>2, <2>3, <2>4, <2>5, <2>6, <2>7 DEF Next
<1>2. IInv /\ [Next]_vars => [token # None /\ lease <= 0 => lease' <= 0]_vars
  BY <1>1
<1>3. QED
  BY <1>2, Invariant, PTL DEF Spec, LeaseNeverRevives

\* A recovered job is out of reach of every worker.
THEOREM RecoveredStaysFailed == JournalEnabled => (Spec => RecoveryIsFinal)
<1> SUFFICES ASSUME JournalEnabled PROVE Spec => RecoveryIsFinal
  OBVIOUS
<1>1. ASSUME IInv, [Next]_vars, epoch > 0, token = None
      PROVE  /\ UNCHANGED <<files, output, token>>
             /\ status' \notin {"queued", "running", "completed"}
  <2>1. status \in {"failed", "cancelled", "deleted"} /\ TypeOK
    BY <1>1 DEF IInv, RowInv
  <2>2. ~(\E a \in Attempt : Claim(a) /\ status = "queued")
    BY <2>1
  <2>3. QED
    BY <1>1, <2>1, RowSteps DEF Claim, Claimable, Publish, PublishAllowed, LeaseCurrent,
       MarkFailed, FailureAllowed, RecordQueueId, FailEnqueue, CancelWrite, ClearDelete,
       RecoverApply, Expired, stores
<1>2. IInv /\ [Next]_vars =>
        [epoch > 0 /\ token = None => /\ UNCHANGED <<files, output, token>>
                                      /\ status' \notin {"queued", "running", "completed"}]_vars
  BY <1>1
<1>3. QED
  BY <1>2, Invariant, PTL DEF Spec, RecoveryIsFinal

\* A cancellation that committed before the results did keeps them back.
THEOREM CancellationHolds == JournalEnabled => (Spec => CancelStopsPublication)
<1> SUFFICES ASSUME JournalEnabled PROVE Spec => CancelStopsPublication
  OBVIOUS
<1>1. ASSUME IInv, [Next]_vars, cancel = "done", files = {} PROVE files' = {}
  <2>1. status # "running" /\ TypeOK
    BY <1>1 DEF IInv, RowInv
  <2>2. QED
    BY <1>1, <2>1, RowSteps DEF Claim, Publish, PublishAllowed, LeaseCurrent, MarkFailed,
       RecordQueueId, FailEnqueue, CancelWrite, ClearDelete, RecoverApply, stores
<1>2. IInv /\ [Next]_vars => [cancel = "done" /\ files = {} => files' = {}]_vars
  BY <1>1 DEF vars, stores
<1>3. QED
  BY <1>2, Invariant, PTL DEF Spec, CancelStopsPublication

\* Neither the worker nor the recovery fails a job whose results are out.
THEOREM PublishedNotFailed == JournalEnabled => (Spec => NoFailureAfterPublish)
<1> SUFFICES ASSUME JournalEnabled PROVE Spec => NoFailureAfterPublish
  OBVIOUS
<1>1. ASSUME IInv, [Next]_vars, files # {}, status # "failed", status' = "failed"
      PROVE  creator = "late"
  <2>1. status # "running" /\ output # None /\ TypeOK
    BY <1>1 DEF IInv, RowInv, DestinationInv, AllOrNothing
  <2>2. QED
    BY <1>1, <2>1, RowSteps DEF Claim, Publish, MarkFailed, FailureAllowed, LeaseCurrent,
       RecordQueueId, FailEnqueue, CancelWrite, ClearDelete, RecoverApply, Expired
<1>2. IInv /\ [Next]_vars =>
        [files # {} /\ status # "failed" /\ status' = "failed" => creator = "late"]_vars
  BY <1>1
<1>3. QED
  BY <1>2, Invariant, PTL DEF Spec, NoFailureAfterPublish

-----------------------------------------------------------------------------
(* Refinement: every step of the fenced worker and its handlers is a step  *)
(* of JobLifecycle or leaves status and results alone.                     *)

\* What a caller is promised about a job is kept by the code that runs it.
THEOREM JobRefinement == JournalEnabled => (Spec => ImplementsLifecycle)
<1> SUFFICES ASSUME JournalEnabled PROVE Spec => ImplementsLifecycle
  OBVIOUS
<1> DEFINE B == {Names(a) : a \in Attempt}
<1>1. Init => Lifecycle!Init
  BY DEF Init, Lifecycle!Init
<1>2. ASSUME IInv, [Next]_vars PROVE [Lifecycle!Next]_(Lifecycle!vars)
  <2> USE DEF Lifecycle!vars, Lifecycle!Next, stores
  <2>1. /\ TypeOK /\ RowInv
        /\ status = "running" => files = {}
    BY <1>2 DEF IInv, RowInv, DestinationInv, AllOrNothing
  <2>2. CASE UNCHANGED <<status, token, epoch, files, output>>
    BY <2>2
  <2>3. ASSUME NEW a \in Attempt, Claim(a) PROVE [Lifecycle!Next]_(Lifecycle!vars)
    BY <2>3 DEF Claim, Claimable, Lifecycle!Start
  <2>4. ASSUME NEW a \in Attempt, Publish(a) PROVE [Lifecycle!Next]_(Lifecycle!vars)
    <3>1. CASE UNCHANGED <<status, files>>
      BY <3>1
    <3>2. CASE /\ PublishAllowed(a) /\ status' = "completed"
               /\ files' = files \cup Bundle(a)
      BY <2>1, <3>2 DEF PublishAllowed, LeaseCurrent, Bundle, Lifecycle!Complete
    <3>3. QED
      BY <2>4, <3>1, <3>2 DEF Publish
  <2>5. ASSUME NEW a \in Attempt, MarkFailed(a) PROVE [Lifecycle!Next]_(Lifecycle!vars)
    BY <2>1, <2>5 DEF MarkFailed, FailureAllowed, LeaseCurrent, Lifecycle!WorkerFail
  <2>6. CASE RecordQueueId
    BY <2>6 DEF RecordQueueId
  <2>7. CASE FailEnqueue
    BY <2>7 DEF FailEnqueue, Lifecycle!ApiFail
  <2>8. CASE CancelWrite
    BY <2>8 DEF CancelWrite, Lifecycle!ApiCancel
  <2>9. CASE ClearDelete
    BY <2>1, <2>9 DEF ClearDelete, RowInv, TypeOK, Status, Terminal,
       Lifecycle!ClearHistory, Lifecycle!Terminal
  <2>10. CASE RecoverApply
    BY <2>1, <2>10 DEF RecoverApply, Expired, Lifecycle!WorkerFail
  <2>11. QED
    BY <1>2, <2>1, <2>2, <2>3, <2>4, <2>5, <2>6, <2>7, <2>8, <2>9, <2>10, RowSteps
<1>3. QED
  BY <1>1, <1>2, Invariant, PTL DEF Spec, ImplementsLifecycle, Lifecycle!Spec
-----------------------------------------------------------------------------
(* The legacy worker.  It has no fence, so the argument is about the one   *)
(* step: which code writes a status that is not an end.                    *)

\* An attempt that is past its start writes "queued" or "running" over nothing,
\* and "completed" only over "running".
LEMMA WorkPastStart ==
    ASSUME TypeOK, NEW a \in Attempt, pc[a] \notin {"idle", "claim"}, Work(a)
    PROVE  \/ status' = status
           \/ status' = "completed" /\ status = "running"
           \/ status' = "failed"
<1> USE DEF row
<1>1. ~Start(a) /\ ~Claim(a) /\ ~LegacyStart(a)
  BY DEF Start, Claim, LegacyStart
<1>2. CASE Publish(a)
  BY <1>2 DEF Publish, PublishAllowed, LeaseCurrent
<1>3. CASE MarkFailed(a)
  BY <1>3 DEF MarkFailed
<1>4. CASE CheckCancelled(a) \/ CheckLease(a) \/ WriteJournal(a)
  BY <1>4 DEF CheckCancelled, CheckLease, WriteJournal
<1>5. CASE Progress(a, "load", "progress80") \/ Progress(a, "progress80", "check")
  BY <1>5 DEF Progress
<1>6. CASE Store(a) \/ Flush(a) \/ Cleanup(a) \/ Compensate(a)
  BY <1>6 DEF Store, Flush, Cleanup, Compensate
<1>7. CASE Refresh(a) \/ AutoArchive(a) \/ Notify(a)
  BY <1>7 DEF Refresh, AutoArchive, Notify
<1>8. QED
  BY <1>1, <1>2, <1>3, <1>4, <1>5, <1>6, <1>7 DEF Work

\* The handlers, the queue and the recovery write outcomes and nothing else.
LEMMA EnvironmentEnds ==
    ASSUME Environment
    PROVE  status' = status \/ status' \in {"failed", "cancelled", "deleted"}
<1> USE DEF row
<1>1. CASE Tick \/ Abandon \/ Enqueue \/ RecordQueueId \/ CreatorCrash
  BY <1>1 DEF Tick, Abandon, Enqueue, RecordQueueId, CreatorCrash
<1>2. CASE FailEnqueue \/ CancelWrite \/ ClearDelete \/ RecoverApply
  BY <1>2 DEF FailEnqueue, CancelWrite, ClearDelete, RecoverApply
<1>3. CASE CancelRead \/ CancelQueue \/ ClearRead \/ RecoverInspect
  BY <1>3 DEF CancelRead, CancelQueue, ClearRead, RecoverInspect
<1>4. QED
  BY <1>1, <1>2, <1>3 DEF Environment

\* With or without the fence, a job that has ended and that no delivery is about
\* to start neither runs nor completes any more, for any number of deliveries:
\* the guard of the completion is what the legacy worker has in its place.
THEOREM EndedStaysEnded == Spec => NoResurrection
<1> DEFINE Ended == /\ status \in Terminal
                    /\ \A a \in Attempt : pc[a] \notin {"idle", "claim"}
           Kept  == status' = status \/ status' \notin {"queued", "running", "completed"}
<1>1. ASSUME TypeOK, [Next]_vars, Ended PROVE Kept
  <2>1. ASSUME NEW a \in Attempt, Work(a) PROVE Kept
    BY <1>1, <2>1, WorkPastStart DEF Terminal
  <2>2. ASSUME NEW a \in Attempt, Heartbeat(a) \/ Crash(a) \/ StopHorse(a) PROVE Kept
    BY <2>2 DEF Heartbeat, Renewed, Crash, StopHorse, row
  <2>3. CASE Environment
    BY <2>3, EnvironmentEnds
  <2>4. CASE UNCHANGED vars
    BY <2>4 DEF vars, row
  <2>5. QED
    BY <1>1, <2>1, <2>2, <2>3, <2>4 DEF Next
<1>2. TypeOK /\ [Next]_vars => [Ended => Kept]_vars
  BY <1>1
<1>3. QED
  BY <1>2, TypeCorrect, PTL DEF Spec, NoResurrection

-----------------------------------------------------------------------------
(* Both workers.  Without the fence the destinations of all attempts are    *)
(* the same, so what is left is what the order of the steps alone ensures.  *)

\* Only the completing commit writes the result.
LEMMA PublishAlone ==
    ASSUME [Next]_vars
    PROVE  UNCHANGED <<files, output>> \/ \E a \in Attempt : Publish(a)
<1> USE DEF row, stores, queue, attempts, handlers
<1>1. ASSUME NEW a \in Attempt, Work(a), ~Publish(a) PROVE UNCHANGED <<files, output>>
  <2>1. CASE Start(a) \/ Claim(a) \/ LegacyStart(a) \/ CheckCancelled(a) \/ CheckLease(a) \/ WriteJournal(a)
    BY <2>1 DEF Start, Claim, LegacyStart, CheckCancelled, CheckLease, WriteJournal
  <2>2. CASE Progress(a, "load", "progress80") \/ Progress(a, "progress80", "check")
    BY <2>2 DEF Progress
  <2>3. CASE Store(a) \/ Flush(a) \/ Cleanup(a) \/ Compensate(a)
    BY <2>3 DEF Store, Flush, Cleanup, Compensate
  <2>4. CASE Refresh(a) \/ MarkFailed(a) \/ AutoArchive(a) \/ Notify(a)
    BY <2>4 DEF Refresh, MarkFailed, AutoArchive, Notify
  <2>5. QED
    BY <1>1, <2>1, <2>2, <2>3, <2>4 DEF Work
<1>2. ASSUME NEW a \in Attempt, Heartbeat(a) \/ Crash(a) \/ StopHorse(a) PROVE UNCHANGED <<files, output>>
  BY <1>2 DEF Heartbeat, Crash, StopHorse
<1>3. CASE Environment
  BY <1>3 DEF Environment, Tick, Abandon, Enqueue, RecordQueueId, FailEnqueue, CreatorCrash,
     CancelRead, CancelQueue, CancelWrite, ClearRead, ClearDelete, RecoverInspect, RecoverApply
<1>4. QED
  BY <1>1, <1>2, <1>3 DEF Next, vars

\* The results of a job are all or none, whichever worker runs it and however
\* its attempts overlap; with the fence they are those of one attempt, and the
\* journal calls exactly them committed.
THEOREM PublicationAtomic == Spec => []AllOrNothing
<1>1. CASE JournalEnabled
  <2>1. IInv => AllOrNothing
    BY DEF IInv, DestinationInv
  <2>2. QED
    BY <1>1, <2>1, Invariant, PTL
<1>2. CASE ~JournalEnabled
  <2>1. Init => AllOrNothing
    BY <1>2 DEF Init, AllOrNothing
  <2>2. ASSUME TypeOK, AllOrNothing, [Next]_vars PROVE AllOrNothing'
    <3>1. CASE UNCHANGED <<files, output>>
      BY <1>2, <2>2, <3>1 DEF AllOrNothing, Names, Token
    <3>2. ASSUME NEW a \in Attempt, Publish(a) PROVE AllOrNothing'
      <4>1. \A b \in Attempt : Names(b) = Names(a)
        BY <1>2 DEF Names, Token
      <4>2. files \subseteq Names(a)
        BY <2>2, <4>1 DEF AllOrNothing, TypeOK
      <4>3. \/ UNCHANGED <<files, output>>
            \/ files' = files \cup Names(a) /\ output' = a
        BY <3>2 DEF Publish, Bundle
      <4>4. CASE files' = files \cup Names(a) /\ output' = a
        <5>1. files' = Names(a) /\ output' # None
          BY <4>2, <4>4, NamesAssumption
        <5>2. QED
          BY <1>2, <4>4, <5>1 DEF AllOrNothing, Names, Token
      <4>5. QED
        BY <3>1, <4>3, <4>4
    <3>3. QED
      BY <2>2, <3>1, <3>2, PublishAlone
  <2>3. QED
    BY <2>1, <2>2, TypeCorrect, PTL DEF Spec
<1>3. QED
  BY <1>1, <1>2

\* An attempt has uploaded what it has counted, and when it comes to publish it
\* has counted all.
StoredInv(a) ==
    /\ pc[a] \in Unrecorded => cursor[a] = 0
    /\ pc[a] \in Storing => \A i \in 1 .. cursor[a] : NameOf(a, i) \in objects
    /\ pc[a] = "publish" => cursor[a] = NumParts

BackedInv == PublishedBacked /\ \A a \in Attempt : StoredInv(a)

LEMMA InitBacked == Init => BackedInv
BY DEF Init, BackedInv, PublishedBacked, StoredInv, Storing

\* A step of an attempt that touches no object and does not start to store.
LEMMA StoredFrame ==
    ASSUME BackedInv, TypeOK, NEW a \in Attempt, UNCHANGED <<files, objects, cursor>>,
           NEW s \in Stage \ Storing, pc' = [pc EXCEPT ![a] = s],
           s \in Unrecorded => pc[a] \in Unrecorded
    PROVE  BackedInv'
BY DEF BackedInv, PublishedBacked, StoredInv, TypeOK, NameOf, Token, Storing

LEMMA StoredStands ==
    ASSUME BackedInv, UNCHANGED <<files, objects, cursor, pc>>
    PROVE  BackedInv'
BY DEF BackedInv, PublishedBacked, StoredInv, NameOf, Token

\* An attempt turns to its first upload with nothing counted.
LEMMA StoringBegins ==
    ASSUME BackedInv, TypeOK, NEW a \in Attempt, UNCHANGED <<files, objects, cursor>>,
           pc[a] \in Unrecorded, pc' = [pc EXCEPT ![a] = "store"]
    PROVE  BackedInv'
<1>1. cursor[a] = 0 /\ 1 .. 0 = {}
  BY DEF BackedInv, StoredInv
<1>2. QED
  BY <1>1 DEF BackedInv, PublishedBacked, StoredInv, TypeOK, NameOf, Token, Storing, Unrecorded

LEMMA StoreBacked ==
    ASSUME BackedInv, TypeOK, NEW a \in Attempt, Store(a)
    PROVE  BackedInv'
<1> DEFINE i == cursor[a] + 1
<1>1. /\ pc[a] = "store" /\ i \in Parts /\ cursor' = [cursor EXCEPT ![a] = i] /\ files' = files
      /\ objects \subseteq objects'
      /\ \/ pc' = [pc EXCEPT ![a] = "flush"] /\ NameOf(a, i) \in objects'
         \/ pc' = [pc EXCEPT ![a] = "rollback"]
  BY DEF Store, Goto
<1>2. cursor[a] \in Nat /\ pc \in [Attempt -> Stage] /\ cursor \in [Attempt -> 0 .. NumParts]
  BY BoundsAssumption DEF TypeOK
<1>3. PublishedBacked'
  BY <1>1 DEF BackedInv, PublishedBacked
<1>4. ASSUME NEW b \in Attempt, b # a PROVE StoredInv(b)'
  BY <1>1, <1>2, <1>4 DEF BackedInv, StoredInv, NameOf, Token
<1>5. StoredInv(a)'
  <2>1. pc'[a] \in {"flush", "rollback"} /\ cursor'[a] = i
    BY <1>1, <1>2
  <2>2. ASSUME pc'[a] = "flush", NEW j \in 1 .. i PROVE NameOf(a, j) \in objects'
    <3>1. j \in 1 .. cursor[a] \/ j = i
      BY <1>2
    <3>2. j \in 1 .. cursor[a] => NameOf(a, j) \in objects
      BY <1>1 DEF BackedInv, StoredInv, Storing
    <3>3. NameOf(a, i) \in objects'
      BY <1>1, <1>2, <2>2
    <3>4. QED
      BY <1>1, <3>1, <3>2, <3>3
  <2>3. QED
    BY <2>1, <2>2 DEF StoredInv, Storing, Unrecorded, NameOf, Token
<1>6. QED
  BY <1>3, <1>4, <1>5 DEF BackedInv

LEMMA FlushBacked ==
    ASSUME BackedInv, TypeOK, NEW a \in Attempt, Flush(a)
    PROVE  BackedInv'
<1>1. /\ pc[a] = "flush" /\ UNCHANGED <<files, objects, cursor>>
      /\ \/ pc' = [pc EXCEPT ![a] = "rollback"] \/ pc' = [pc EXCEPT ![a] = "store"]
         \/ pc' = [pc EXCEPT ![a] = "publish"] /\ cursor[a] = NumParts
  BY DEF Flush, Goto, stores
<1>2. QED
  BY <1>1 DEF BackedInv, PublishedBacked, StoredInv, TypeOK, NameOf, Token, Storing, Unrecorded

LEMMA PublishBacked ==
    ASSUME BackedInv, TypeOK, NEW a \in Attempt, Publish(a)
    PROVE  BackedInv'
<1>1. /\ pc[a] = "publish" /\ UNCHANGED <<objects, cursor>>
      /\ files' = files \/ files' = files \cup Names(a)
      /\ pc' = [pc EXCEPT ![a] = "rollback"] \/ pc' = [pc EXCEPT ![a] = "archive"]
  BY DEF Publish, Goto, Bundle
<1>2. Names(a) \subseteq objects
  <2>1. \A i \in Parts : NameOf(a, i) \in objects
    BY <1>1 DEF BackedInv, StoredInv, Storing, Parts
  <2>2. QED
    BY <2>1 DEF Names, NameOf
<1>3. PublishedBacked'
  BY <1>1, <1>2 DEF BackedInv, PublishedBacked
<1>4. ASSUME NEW b \in Attempt PROVE StoredInv(b)'
  BY <1>1 DEF BackedInv, StoredInv, TypeOK, NameOf, Token, Storing, Unrecorded
<1>5. QED
  BY <1>3, <1>4 DEF BackedInv

\* Clean-up takes an object from under another attempt only if that one is at
\* work at the same time.
LEMMA CleanupBacked ==
    ASSUME BackedInv, TypeOK, SingleExecutor, NEW a \in Attempt, Cleanup(a)
    PROVE  BackedInv'
<1> DEFINE n == NameOf(a, cursor[a])
<1>1. /\ pc[a] = "rollback" /\ UNCHANGED <<files, pc>> /\ cursor' = [cursor EXCEPT ![a] = cursor[a] - 1]
      /\ objects' = objects \/ (n \notin files /\ objects' = objects \ {n})
  BY DEF Cleanup, Deletable
<1>2. PublishedBacked'
  BY <1>1 DEF BackedInv, PublishedBacked
<1>3. ASSUME NEW b \in Attempt PROVE StoredInv(b)'
  <2>1. CASE b = a
    BY <1>1, <2>1 DEF StoredInv, Storing, Unrecorded
  <2>2. CASE b # a
    <3>1. pc[b] \notin Executing
      BY <1>1, <2>2 DEF SingleExecutor, Executing
    <3>2. pc'[b] \notin Storing /\ pc'[b] # "publish" /\ cursor'[b] = cursor[b] /\ pc'[b] = pc[b]
      BY <1>1, <2>2, <3>1 DEF Executing, Storing, TypeOK
    <3>3. QED
      BY <3>2 DEF BackedInv, StoredInv
  <2>3. QED
    BY <2>1, <2>2
<1>4. QED
  BY <1>2, <1>3 DEF BackedInv

LEMMA BackedStep ==
    ASSUME TypeOK, SingleExecutor, BackedInv, [Next]_vars
    PROVE  BackedInv'
<1> USE DEF row, stores, queue, attempts, handlers, Goto, Leave
<1>1. ASSUME NEW a \in Attempt, Work(a) PROVE BackedInv'
  <2> USE DEF Stage, Executing, Storing, Unrecorded
  <2>1. CASE Start(a)
    BY <2>1, StoredFrame DEF Start
  <2>2. CASE Claim(a)
    BY <2>2, StoredFrame DEF Claim
  <2>3. CASE LegacyStart(a)
    BY <2>3, StoredFrame DEF LegacyStart
  <2>4. CASE Progress(a, "load", "progress80")
    BY <2>4, StoredFrame DEF Progress
  <2>5. CASE Progress(a, "progress80", "check")
    BY <2>5, StoredFrame DEF Progress
  <2>6. CASE CheckCancelled(a)
    <3>1. pc[a] = "check" /\ UNCHANGED <<files, objects, cursor>>
          /\ \E s \in {"done", "reserve", "rollback", "store"} : pc' = [pc EXCEPT ![a] = s]
      BY <2>6 DEF CheckCancelled
    <3>2. QED
      BY <3>1, StoredFrame, StoringBegins
  <2>7. CASE CheckLease(a)
    BY <2>7, StoredFrame DEF CheckLease
  <2>8. CASE WriteJournal(a)
    <3>1. pc[a] = "journal" /\ UNCHANGED <<files, objects, cursor>>
          /\ \E s \in {"rollback", "store"} : pc' = [pc EXCEPT ![a] = s]
      BY <2>8 DEF WriteJournal
    <3>2. QED
      BY <3>1, StoredFrame, StoringBegins
  <2>9. CASE Store(a) \/ Flush(a) \/ Publish(a) \/ Cleanup(a)
    BY <2>9, StoreBacked, FlushBacked, PublishBacked, CleanupBacked
  <2>10. CASE Compensate(a)
    BY <2>10, StoredFrame DEF Compensate
  <2>11. CASE Refresh(a)
    BY <2>11, StoredFrame DEF Refresh
  <2>12. CASE MarkFailed(a)
    BY <2>12, StoredFrame DEF MarkFailed
  <2>13. CASE AutoArchive(a)
    BY <2>13, StoredFrame DEF AutoArchive
  <2>14. CASE Notify(a)
    BY <2>14, StoredFrame DEF Notify
  <2>15. QED
    BY <1>1, <2>1, <2>2, <2>3, <2>4, <2>5, <2>6, <2>7, <2>8, <2>9, <2>10, <2>11,
       <2>12, <2>13, <2>14 DEF Work
<1>2. ASSUME NEW a \in Attempt, Heartbeat(a) PROVE BackedInv'
  BY <1>2, StoredStands DEF Heartbeat
<1>3. ASSUME NEW a \in Attempt, Crash(a) \/ StopHorse(a) PROVE BackedInv'
  BY <1>3, StoredFrame DEF Crash, StopHorse, Stage, Executing, Storing, Unrecorded
<1>4. CASE Environment
  BY <1>4, StoredStands DEF Environment, Tick, Abandon, Enqueue, RecordQueueId, FailEnqueue,
     CreatorCrash, CancelRead, CancelQueue, CancelWrite, ClearRead, ClearDelete,
     RecoverInspect, RecoverApply
<1>5. CASE UNCHANGED vars
  BY <1>5, StoredStands DEF vars
<1>6. QED
  BY <1>1, <1>2, <1>3, <1>4, <1>5 DEF Next

\* A published file has its object as long as no two attempts have executed at
\* a time, with the fence or without: for the legacy worker the order of its
\* steps ensures it for any number of deliveries one after the other, after any
\* crash of the ones before.
THEOREM UndisturbedFilesExist == Spec /\ []SingleExecutor => []PublishedBacked
<1>1. Init => BackedInv
  BY InitBacked
<1>2. TypeOK /\ SingleExecutor /\ BackedInv /\ [Next]_vars => BackedInv'
  BY BackedStep
<1>3. BackedInv => PublishedBacked
  BY DEF BackedInv
<1>4. QED
  BY <1>1, <1>2, <1>3, TypeCorrect, PTL DEF Spec

\* A job that is delivered once (the legacy worker's published files).
THEOREM OneDeliveryFilesExist == (\A a, b \in Attempt : a = b) => (Spec => []PublishedBacked)
<1> SUFFICES ASSUME \A a, b \in Attempt : a = b PROVE Spec => []PublishedBacked
  OBVIOUS
<1>1. SingleExecutor
  BY DEF SingleExecutor
<1>2. QED
  BY <1>1, UndisturbedFilesExist, PTL

-----------------------------------------------------------------------------
(* What the recovery of a stuck job rests on.  That a stuck job comes within *)
(* its reach is a liveness property; these are the facts it is made of.      *)

\* Nobody works on the job although it is "running".
Unattended == status = "running" /\ \A a \in Attempt : pc[a] \notin Executing

\* A running job was claimed.
LEMMA RunningWasClaimed ==
    ASSUME JournalEnabled, TypeOK, status = "running" => epoch > 0, [Next]_vars
    PROVE  (status = "running" => epoch > 0)'
<1>1. CASE UNCHANGED <<status, token, epoch, files, output>>
  BY <1>1
<1>2. ASSUME NEW a \in Attempt, Claim(a) \/ Publish(a) \/ MarkFailed(a)
      PROVE  (status = "running" => epoch > 0)'
  BY <1>2 DEF Claim, Publish, MarkFailed, TypeOK
<1>3. CASE RecordQueueId \/ FailEnqueue \/ CancelWrite \/ ClearDelete \/ RecoverApply
  BY <1>3 DEF RecordQueueId, FailEnqueue, CancelWrite, ClearDelete, RecoverApply
<1>4. QED
  BY <1>1, <1>2, <1>3, RowSteps

\* Evidence never stands against the recovery of an expired job: as long as it
\* is running it has an owner, no result, and no destination that the journal
\* calls committed, so that only time, the queue's verdict and a missing queue
\* id can hold the operator back (inspect_or_recover_expired_job).
THEOREM EvidenceAllowsRecovery ==
    JournalEnabled => (Spec => [](status = "running" /\ lease <= -Grace /\ rqRef /\ QueueOver => Recoverable))
<1> SUFFICES ASSUME JournalEnabled
             PROVE  Spec => [](status = "running" /\ lease <= -Grace /\ rqRef /\ QueueOver => Recoverable)
  OBVIOUS
<1> DEFINE Claimed == status = "running" => epoch > 0
<1>1. Init => Claimed
  BY DEF Init
<1>2. IInv /\ Claimed /\ [Next]_vars => Claimed'
  BY RunningWasClaimed DEF IInv
<1>3. IInv /\ Claimed => (status = "running" /\ lease <= -Grace /\ rqRef /\ QueueOver => Recoverable)
  <2> SUFFICES ASSUME IInv, Claimed, status = "running", lease <= -Grace, rqRef, QueueOver
               PROVE  Recoverable
    OBVIOUS
  <2>1. output = None /\ token # None
    BY DEF IInv, RowInv
  <2>2. \A n \in Name : journal[n] # "committed"
    BY <2>1 DEF IInv, DestinationInv, AllOrNothing
  <2>3. QED
    BY <2>1, <2>2 DEF Recoverable, Expired
<1>4. QED
  BY <1>1, <1>2, <1>3, Invariant, PTL DEF Spec

\* A running job that nobody executes is never taken up again, by whatever
\* delivery, and its lease only runs down, until its status changes.
THEOREM StuckOnlyAges ==
    JournalEnabled => (Spec => [][Unattended => lease' <= lease /\ (Unattended' \/ status' # "running")]_vars)
<1> DEFINE Ages == lease' <= lease /\ (Unattended' \/ status' # "running")
<1> SUFFICES ASSUME JournalEnabled PROVE Spec => [][Unattended => Ages]_vars
  OBVIOUS
<1>1. ASSUME TypeOK, [Next]_vars, Unattended PROVE Ages
  <2> USE DEF row, stores, queue, attempts, handlers, Goto, Leave
  <2>1. lease \in Int /\ lease <= lease
    BY <1>1, BoundsAssumption DEF TypeOK
  <2>2. ASSUME UNCHANGED lease, pc' = pc PROVE Ages
    BY <1>1, <2>1, <2>2 DEF Unattended
  <2>3. ASSUME NEW a \in Attempt, NEW s \in {"claim", "done", "dead"}, UNCHANGED lease, pc' = [pc EXCEPT ![a] = s]
        PROVE  Ages
    BY <1>1, <2>1, <2>3 DEF Unattended, Executing, Storing, TypeOK
  <2>4. ASSUME NEW a \in Attempt, Work(a) PROVE Ages
    <3>1. pc[a] \notin Executing
      BY <1>1 DEF Unattended
    <3>2. CASE Start(a)
      BY <2>3, <3>2 DEF Start
    <3>3. CASE Claim(a)
      BY <1>1, <2>3, <3>3 DEF Claim, Claimable, Unattended
    <3>4. CASE LegacyStart(a)
      BY <3>4 DEF LegacyStart
    <3>5. ~Progress(a, "load", "progress80") /\ ~Progress(a, "progress80", "check") /\ ~CheckCancelled(a)
          /\ ~CheckLease(a) /\ ~WriteJournal(a) /\ ~Store(a) /\ ~Flush(a) /\ ~Publish(a)
      BY <3>1 DEF Executing, Storing, Progress, CheckCancelled, CheckLease, WriteJournal, Store, Flush, Publish
    <3>6. ~Cleanup(a) /\ ~Compensate(a) /\ ~Refresh(a) /\ ~MarkFailed(a) /\ ~AutoArchive(a) /\ ~Notify(a)
      BY <3>1 DEF Executing, Cleanup, Compensate, Refresh, MarkFailed, AutoArchive, Notify
    <3>7. QED
      BY <2>4, <3>2, <3>3, <3>4, <3>5, <3>6 DEF Work
  <2>5. ASSUME NEW a \in Attempt, Heartbeat(a) PROVE Ages
    BY <1>1, <2>5 DEF Heartbeat, Unattended
  <2>6. ASSUME NEW a \in Attempt, Crash(a) \/ StopHorse(a) PROVE Ages
    BY <2>3, <2>6 DEF Crash, StopHorse
  <2>7. CASE Tick
    <3>1. lease' = lease - 1 /\ pc' = pc /\ status' = status
      BY <2>7 DEF Tick
    <3>2. lease' <= lease
      BY <2>1, <3>1
    <3>3. QED
      BY <1>1, <3>1, <3>2 DEF Unattended
  <2>8. CASE Environment /\ ~Tick
    BY <2>2, <2>8 DEF Environment, Abandon, Enqueue, RecordQueueId, FailEnqueue, CreatorCrash,
       CancelRead, CancelQueue, CancelWrite, ClearRead, ClearDelete, RecoverInspect, RecoverApply
  <2>9. CASE UNCHANGED vars
    BY <2>2, <2>9 DEF vars
  <2>10. QED
    BY <1>1, <2>4, <2>5, <2>6, <2>7, <2>8, <2>9 DEF Next
<1>2. QED
  BY <1>1, TypeCorrect, PTL DEF Spec
=============================================================================
