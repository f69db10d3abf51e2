------------------------ MODULE WebhookDeliveryProofs ------------------------
(***************************************************************************)
(* Theorems about WebhookDelivery, for any deliveries, jobs, budget, batch *)
(* size, back-off and number of crashes and replays.  The types and what   *)
(* the dispatcher holds are proved for any replay requests; the counts and *)
(* the state machine for requests that do not overlap: the run             *)
(* WebhookReplayFinding shows what happens if they do.                     *)
(***************************************************************************)
EXTENDS WebhookDelivery, FiniteSetTheorems, SequenceTheorems, TLAPS

OneAtATime == \A r, s \in Request : r = s

Held == batch \cup {flight}

\* The types of the variables other than the times and the order of due rows.
ColumnsOK ==
    /\ status \in [Delivery -> RowStatus \cup {"absent"}]
    /\ attempts \in [Delivery -> 0 .. MaxAttempts]
    /\ jobs \in SUBSET Job
    /\ born \in SUBSET Delivery
    /\ batch \in SUBSET Delivery
    /\ loaded \in SUBSET Job
    /\ seen \in [Delivery -> 0 .. MaxAttempts]
    /\ flight \in Delivery \cup {None}
    /\ request \in [Request -> Delivery \cup {None}]
    /\ tries \in [Delivery -> Nat]
    /\ lost \in [Delivery -> Nat]

\* The times, the order of due rows and the two bounds.
TimesOK ==
    /\ wait \in [Delivery -> 0 .. MaxDelay]
    /\ line \in Seq(Delivery)
    /\ crashes \in 0 .. MaxCrashes
    /\ replays \in 0 .. MaxReplays

\* A row that may still be sent has budget left, and so has the copy of it
\* that the dispatcher holds.
BudgetInv ==
    /\ \A d \in Delivery : status[d] \in Active => attempts[d] < MaxAttempts
    /\ \A d \in Delivery : d \in Held => seen[d] < MaxAttempts

\* A delivery that was never queued has left no trace.  So far there have been
\* finitely many.
UnbornInv ==
    /\ \A d \in Delivery : d \notin born =>
        /\ status[d] = "absent"
        /\ attempts[d] = 0 /\ tries[d] = 0 /\ lost[d] = 0
    /\ IsFiniteSet(born)

\* What the dispatcher holds has been queued and is still to be sent, unless
\* the row is gone; it sends one request at a time.
DueInv ==
    /\ flight \notin batch
    /\ \A d \in Delivery : d \in Held =>
          d \in born /\ status[d] \in Active \cup {"absent"}

\* What holds however replay requests overlap.
BaseInv == ColumnsOK /\ BudgetInv /\ UnbornInv /\ DueInv

\* The dispatcher will count from what the row says, unless the row is gone;
\* what a replay holds is still dead, unless it is gone.
HeldInv ==
    /\ \A d \in Delivery : d \in Held => (status[d] # "absent" => seen[d] = attempts[d])
    /\ \A r \in Request : request[r] # None =>
          request[r] \in born /\ status[request[r]] \in {"dead", "absent"}

IInv == BaseInv /\ HeldInv /\ AttemptsAccounted /\ DeadAfterBudget

-----------------------------------------------------------------------------
(* The back-off and the order of due rows are recursive functions.  That   *)
(* they exist, and have their type, is shown by the smallest number for    *)
(* which it would fail.                                                    *)

\* Of some subsets of a finite set, one contains no other.
LEMMA SmallestSet ==
    ASSUME NEW U, IsFiniteSet(U), NEW T, T \subseteq SUBSET U, T # {}
    PROVE  \E s \in T : \A t \in T : t \subseteq s => t = s
<1>1. IsWellFoundedOn(StrictSubsetOrdering(U), SUBSET U)
  BY FS_StrictSubsetOrderingWellFounded, FS_FiniteSubsetsOfFinite
<1>2. PICK s \in T : \A t \in T : <<t, s>> \notin StrictSubsetOrdering(U)
  BY <1>1, WFMin
<1>3. QED
  BY <1>2 DEF StrictSubsetOrdering

\* A set of numbers has a least one.
LEMMA SmallestNumber ==
    ASSUME NEW T, T \subseteq Nat, T # {}
    PROVE  \E m \in T : \A k \in T : m <= k
<1>1. PICK n \in T : TRUE
  OBVIOUS
<1> DEFINE U == 0 .. n
           Below == {s \in SUBSET U : \E k \in T : k <= n /\ s = 0 .. k}
<1>2. IsFiniteSet(U) /\ Below \subseteq SUBSET U /\ U \in Below
  BY <1>1, FS_Interval
<1>3. PICK s \in Below : \A t \in Below : t \subseteq s => t = s
  <2> HIDE DEF U, Below
  <2>1. QED
    BY <1>2, SmallestSet
<1>4. PICK m \in T : m <= n /\ s = 0 .. m
  BY <1>3
<1>5. ASSUME NEW k \in T, k < m PROVE FALSE
  <2>1. 0 .. k \in Below /\ 0 .. k \subseteq s
    BY <1>1, <1>4, <1>5
  <2>2. 0 .. k = 0 .. m
    BY <1>3, <1>4, <2>1
  <2>3. m \in 0 .. m /\ m \notin 0 .. k
    BY <1>5
  <2>4. QED
    BY <2>2, <2>3
<1>6. QED
  BY <1>4, <1>5

\* The recurrence of PowerOfTwo, and a function that satisfies it up to n.
Powers(f, n) == f = [k \in 0 .. n |-> IF k = 0 THEN 1 ELSE 2 * f[k - 1]]

LEMMA PowersExist == ASSUME NEW n \in Nat PROVE \E f : Powers(f, n)
<1> DEFINE Missing == {m \in Nat : ~ \E f : Powers(f, m)}
<1>1. SUFFICES ASSUME Missing # {} PROVE FALSE
  OBVIOUS
<1>2. PICK m \in Missing : \A k \in Missing : m <= k
  <2>1. Missing \subseteq Nat
    OBVIOUS
  <2> HIDE DEF Missing
  <2>2. QED
    BY <1>1, <2>1, SmallestNumber
<1>3. m \in Nat /\ ~ \E f : Powers(f, m)
  BY <1>2
<1>4. m # 0
  <2>1. Powers([k \in 0 .. 0 |-> 1], 0)
    BY DEF Powers
  <2>2. QED
    BY <1>3, <2>1
<1>5. PICK g : Powers(g, m - 1)
  <2>1. m - 1 \in Nat /\ ~ (m <= m - 1)
    BY <1>3, <1>4
  <2>2. QED
    BY <1>2, <2>1
<1> DEFINE h == [k \in 0 .. m |-> IF k = m THEN 2 * g[m - 1] ELSE g[k]]
<1>6. ASSUME NEW k \in 0 .. m PROVE h[k] = IF k = 0 THEN 1 ELSE 2 * h[k - 1]
  <2>1. CASE k = m
    BY <1>3, <1>4, <2>1
  <2>2. CASE k # m
    <3>1. k \in 0 .. (m - 1) /\ h[k] = g[k] /\ (k # 0 => k - 1 \in 0 .. m /\ k - 1 # m)
      BY <1>3, <2>2
    <3>2. g[k] = IF k = 0 THEN 1 ELSE 2 * g[k - 1]
      BY <1>5, <3>1 DEF Powers
    <3>3. QED
      BY <3>1, <3>2
  <2>3. QED
    BY <2>1, <2>2
<1>7. Powers(h, m)
  <2>1. h = [k \in 0 .. m |-> h[k]]
    OBVIOUS
  <2> HIDE DEF h
  <2>2. QED
    BY <1>6, <2>1 DEF Powers
<1>8. QED
  BY <1>3, <1>7

\* A power of two is a number, and not nothing.
LEMMA PowerType == ASSUME NEW n \in Nat PROVE PowerOfTwo(n) \in Nat \ {0}
<1> DEFINE p == CHOOSE f : Powers(f, n)
<1>1. PowerOfTwo(n) = p[n]
  BY DEF PowerOfTwo, Powers
<1>2. Powers(p, n)
  BY PowersExist
<1>3. ASSUME NEW k \in 0 .. n PROVE p[k] = IF k = 0 THEN 1 ELSE 2 * p[k - 1]
  <2> HIDE DEF p
  <2>1. QED
    BY <1>2 DEF Powers
<1> HIDE DEF p
<1> DEFINE Odd == {k \in 0 .. n : p[k] \notin Nat \ {0}}
<1>4. Odd = {}
  <2> SUFFICES ASSUME Odd # {} PROVE FALSE
    OBVIOUS
  <2>1. PICK m \in Odd : \A k \in Odd : m <= k
    <3>1. Odd \subseteq Nat
      OBVIOUS
    <3> HIDE DEF Odd
    <3>2. QED
      BY <3>1, SmallestNumber
  <2>2. m # 0
    BY <1>3
  <2>3. m - 1 \in 0 .. n /\ m - 1 \notin Odd
    BY <2>1, <2>2
  <2>4. p[m] = 2 * p[m - 1] /\ p[m - 1] \in Nat \ {0}
    BY <1>3, <2>2, <2>3
  <2>5. QED
    BY <2>4
<1>5. QED
  BY <1>1, <1>4

\* The back-off of the n-th attempt is positive and within its limit.
LEMMA DelayType == ASSUME NEW n \in Nat \ {0} PROVE Delay(n) \in 1 .. MaxDelay
<1>1. PowerOfTwo(n - 1) \in Nat \ {0}
  BY PowerType
<1>2. InitialDelay \in Nat \ {0} /\ MaxDelay \in Nat \ {0}
  BY ConstantsAssumption
<1>3. ASSUME NEW a \in Nat \ {0}, NEW b \in Nat \ {0} PROVE a * b \in Nat \ {0}
  OBVIOUS
<1>4. InitialDelay * PowerOfTwo(n - 1) \in Nat \ {0}
  BY <1>1, <1>2, <1>3
<1>5. QED
  BY <1>2, <1>4 DEF Delay, Smaller

\* The recurrence of Without, and a function that satisfies it up to m.
Keeps(f, m, D) ==
    f = [n \in 0 .. m |->
            IF n = 0 THEN <<>>
            ELSE IF line[n] \in D THEN f[n - 1]
            ELSE Append(f[n - 1], line[n])]

LEMMA KeptExists == ASSUME NEW D, NEW l \in Nat PROVE \E f : Keeps(f, l, D)
<1> DEFINE Missing == {m \in Nat : ~ \E f : Keeps(f, m, D)}
<1>1. SUFFICES ASSUME Missing # {} PROVE FALSE
  OBVIOUS
<1>2. PICK m \in Missing : \A k \in Missing : m <= k
  <2>1. Missing \subseteq Nat
    OBVIOUS
  <2> HIDE DEF Missing
  <2>2. QED
    BY <1>1, <2>1, SmallestNumber
<1>3. m \in Nat /\ ~ \E f : Keeps(f, m, D)
  BY <1>2
<1>4. m # 0
  <2>1. Keeps([n \in 0 .. 0 |-> <<>>], 0, D)
    BY DEF Keeps
  <2>2. QED
    BY <1>3, <2>1
<1>5. PICK g : Keeps(g, m - 1, D)
  <2>1. m - 1 \in Nat /\ ~ (m <= m - 1)
    BY <1>3, <1>4
  <2>2. QED
    BY <1>2, <2>1
<1> DEFINE last == IF line[m] \in D THEN g[m - 1] ELSE Append(g[m - 1], line[m])
           h == [n \in 0 .. m |-> IF n = m THEN last ELSE g[n]]
<1>6. ASSUME NEW n \in 0 .. m
      PROVE  h[n] = IF n = 0 THEN <<>>
                    ELSE IF line[n] \in D THEN h[n - 1]
                    ELSE Append(h[n - 1], line[n])
  <2>1. CASE n = m
    BY <1>3, <1>4, <2>1
  <2>2. CASE n # m
    <3>1. n \in 0 .. (m - 1) /\ h[n] = g[n] /\ (n # 0 => n - 1 \in 0 .. m /\ n - 1 # m)
      BY <1>3, <2>2
    <3>2. g[n] = IF n = 0 THEN <<>>
                 ELSE IF line[n] \in D THEN g[n - 1]
                 ELSE Append(g[n - 1], line[n])
      BY <1>5, <3>1 DEF Keeps
    <3>3. n # 0 => h[n - 1] = g[n - 1]
      BY <3>1
    <3>4. QED
      BY <3>1, <3>2, <3>3
  <2>3. QED
    BY <2>1, <2>2
<1>7. Keeps(h, m, D)
  <2>1. h = [n \in 0 .. m |-> h[n]]
    OBVIOUS
  <2> HIDE DEF h
  <2>2. QED
    BY <1>6, <2>1 DEF Keeps
<1>8. QED
  BY <1>3, <1>7

\* What is left of the line is a line.
LEMMA WithoutType ==
    ASSUME line \in Seq(Delivery), NEW D PROVE Without(D) \in Seq(Delivery)
<1> DEFINE l == Len(line)
           kept == CHOOSE f : Keeps(f, l, D)
<1>1. Without(D) = kept[l]
  BY DEF Without, Keeps
<1>2. l \in Nat
  OBVIOUS
<1>3. Keeps(kept, l, D)
  BY <1>2, KeptExists
<1>4. ASSUME NEW n \in 0 .. l
      PROVE  kept[n] = IF n = 0 THEN <<>>
                       ELSE IF line[n] \in D THEN kept[n - 1]
                       ELSE Append(kept[n - 1], line[n])
  <2> HIDE DEF kept, l
  <2>1. QED
    BY <1>3 DEF Keeps
<1> HIDE DEF kept
<1> DEFINE Odd == {n \in 0 .. l : kept[n] \notin Seq(Delivery)}
<1>5. Odd = {}
  <2> SUFFICES ASSUME Odd # {} PROVE FALSE
    OBVIOUS
  <2>1. PICK m \in Odd : \A k \in Odd : m <= k
    <3>1. Odd \subseteq Nat
      BY <1>2
    <3> HIDE DEF Odd
    <3>2. QED
      BY <3>1, SmallestNumber
  <2>2. m # 0
    <3>1. kept[0] = <<>> /\ <<>> \in Seq(Delivery)
      BY <1>2, <1>4
    <3>2. QED
      BY <2>1, <3>1
  <2>3. m \in 1 .. l /\ m - 1 \in 0 .. l /\ m - 1 \notin Odd
    BY <1>2, <2>1, <2>2
  <2>4. kept[m - 1] \in Seq(Delivery) /\ line[m] \in Delivery
    BY <2>3
  <2>5. kept[m] = IF line[m] \in D THEN kept[m - 1] ELSE Append(kept[m - 1], line[m])
    BY <1>4, <2>2
  <2>6. kept[m] \in Seq(Delivery)
    BY <2>4, <2>5
  <2>7. QED
    BY <2>1, <2>6
<1>6. QED
  BY <1>1, <1>2, <1>5

-----------------------------------------------------------------------------
(* The times and the line, whatever the columns.                           *)

\* A commit of the row.
LEMMA SettleTimes ==
    ASSUME TimesOK, NEW d \in Delivery, NEW s, NEW delay \in 0 .. MaxDelay,
           Settle(d, s, delay)
    PROVE  wait' \in [Delivery -> 0 .. MaxDelay] /\ line' \in Seq(Delivery)
<1>1. Without({d}) \in Seq(Delivery)
  BY WithoutType DEF TimesOK
<1>2. Append(Without({d}), d) \in Seq(Delivery)
  BY <1>1
<1>3. QED
  BY <1>1, <1>2 DEF Settle, TimesOK

\* The rows that come due join the line in some order.
LEMMA TickTimes == ASSUME BaseInv, TimesOK, Tick PROVE TimesOK'
<1> DEFINE due == {d \in Delivery : status[d] \in Active /\ wait[d] = 1}
<1>1. due \subseteq born
  BY DEF BaseInv, UnbornInv, Active
<1>2. Cardinality(due) \in Nat
  BY <1>1, FS_Subset, FS_CardinalityType DEF BaseInv, UnbornInv
<1>3. PICK order \in SetToSeqs(due) : line' = line \o order
  BY DEF Tick
<1>4. order \in [1 .. Cardinality(due) -> due] /\ due \subseteq Delivery
  BY <1>3 DEF SetToSeqs
<1>5. order \in Seq(Delivery)
  <2> HIDE DEF due
  <2>1. QED
    BY <1>2, <1>4
<1>6. line' \in Seq(Delivery)
  BY <1>3, <1>5 DEF TimesOK
<1>7. wait' \in [Delivery -> 0 .. MaxDelay]
  <2>1. wait' = [d \in Delivery |-> IF wait[d] > 0 THEN wait[d] - 1 ELSE 0]
    BY DEF Tick
  <2>2. MaxDelay \in Nat /\ wait \in [Delivery -> 0 .. MaxDelay]
    BY ConstantsAssumption DEF TimesOK
  <2>3. ASSUME NEW d \in Delivery
        PROVE  (IF wait[d] > 0 THEN wait[d] - 1 ELSE 0) \in 0 .. MaxDelay
    BY <2>2
  <2>4. QED
    BY <2>1, <2>3
<1>8. QED
  BY <1>6, <1>7 DEF TimesOK, Tick, bounds

\* The outcome of a request, and the back-off before the next.
LEMMA RecordTimes == ASSUME BaseInv, TimesOK, Record PROVE TimesOK'
<1> DEFINE d == flight
           n == seen[d] + 1
<1>1. d \in Delivery /\ n \in Nat \ {0}
  BY ConstantsAssumption DEF Record, BaseInv, ColumnsOK
<1>2. 0 \in 0 .. MaxDelay
  BY ConstantsAssumption
<1>3. Delay(n) \in 0 .. MaxDelay
  BY <1>1, DelayType
<1>4. \/ UNCHANGED <<wait, line>>
      \/ Settle(d, "delivered", 0)
      \/ Settle(d, "dead", 0)
      \/ Settle(d, "retrying", Delay(n))
  BY DEF Record, Counted, rows
<1>5. wait' \in [Delivery -> 0 .. MaxDelay] /\ line' \in Seq(Delivery)
  <2>1. CASE UNCHANGED <<wait, line>>
    BY <2>1 DEF TimesOK
  <2>2. CASE Settle(d, "delivered", 0)
    BY <1>1, <1>2, <2>2, SettleTimes
  <2>3. CASE Settle(d, "dead", 0)
    BY <1>1, <1>2, <2>3, SettleTimes
  <2>4. CASE Settle(d, "retrying", Delay(n))
    BY <1>1, <1>3, <2>4, SettleTimes
  <2>5. QED
    BY <1>4, <2>1, <2>2, <2>3, <2>4
<1>6. QED
  BY <1>5 DEF TimesOK, Record, bounds

LEMMA NextTimes == ASSUME BaseInv, TimesOK, [Next]_vars PROVE TimesOK'
<1>1. 0 \in 0 .. MaxDelay
  BY ConstantsAssumption
<1>2. ASSUME NEW d \in Delivery, Insert(d) PROVE TimesOK'
  BY <1>2 DEF Insert, TimesOK, bounds
<1>3. ASSUME NEW j \in Job, ClearHistory(j) PROVE TimesOK'
  <2>1. line' \in Seq(Delivery)
    BY <1>3, WithoutType DEF ClearHistory, TimesOK
  <2>2. QED
    BY <1>3, <2>1 DEF ClearHistory, TimesOK, bounds
<1>4. ASSUME NEW d \in Delivery, DeadLetterOrphan(d) PROVE TimesOK'
  <2>1. wait' \in [Delivery -> 0 .. MaxDelay] /\ line' \in Seq(Delivery)
    <3>1. CASE UNCHANGED <<wait, line>>
      BY <3>1 DEF TimesOK
    <3>2. CASE Settle(d, OrphanStatus, 0)
      BY <1>1, <3>2, SettleTimes
    <3>3. QED
      BY <1>4, <3>1, <3>2 DEF DeadLetterOrphan
  <2>2. QED
    BY <1>4, <2>1 DEF DeadLetterOrphan, TimesOK, bounds
<1>5. ASSUME NEW r \in Request, ReplayWrite(r) PROVE TimesOK'
  <2>1. request[r] \in Delivery
    BY <1>5 DEF ReplayWrite, BaseInv, ColumnsOK
  <2>2. wait' \in [Delivery -> 0 .. MaxDelay] /\ line' \in Seq(Delivery)
    <3>1. CASE UNCHANGED <<wait, line>>
      BY <3>1 DEF TimesOK
    <3>2. CASE Settle(request[r], "queued", 0)
      BY <1>1, <2>1, <3>2, SettleTimes
    <3>3. QED
      BY <1>5, <3>1, <3>2 DEF ReplayWrite, rows
  <2>3. QED
    BY <1>5, <2>2 DEF ReplayWrite, TimesOK, bounds
<1>6. ASSUME NEW r \in Request, NEW d \in Delivery, ReplayRead(r, d) PROVE TimesOK'
  BY <1>6, ConstantsAssumption DEF ReplayRead, TimesOK, rows
<1>7. CASE Crash
  BY <1>7, ConstantsAssumption DEF Crash, TimesOK, rows
<1>8. CASE UNCHANGED <<wait, line, crashes, replays>>
  BY <1>8 DEF TimesOK
<1>9. QED
  BY <1>2, <1>3, <1>4, <1>5, <1>6, <1>7, <1>8, TickTimes, RecordTimes
     DEF Next, Dispatch, Fetch, Post, rows, bounds, vars

-----------------------------------------------------------------------------
\* No delivery yet.
LEMMA InitInv == Init => IInv /\ TimesOK
<1> SUFFICES ASSUME Init PROVE IInv /\ TimesOK
  OBVIOUS
<1>1. BaseInv
  BY ConstantsAssumption, FS_EmptySet
     DEF Init, BaseInv, ColumnsOK, BudgetInv, UnbornInv, DueInv, Held, RowStatus, Active
<1>2. HeldInv /\ AttemptsAccounted /\ DeadAfterBudget
  BY ConstantsAssumption
     DEF Init, HeldInv, Held, AttemptsAccounted, DeadAfterBudget, RowStatus, Active
<1>3. TimesOK
  BY ConstantsAssumption DEF Init, TimesOK
<1>4. QED
  BY <1>1, <1>2, <1>3 DEF IInv

-----------------------------------------------------------------------------
(* What holds however replay requests overlap: one lemma per action.       *)

\* queue_job_webhook.
LEMMA InsertBase == ASSUME BaseInv, NEW d \in Delivery, Insert(d) PROVE BaseInv'
<1>1. IsFiniteSet(born')
  BY FS_AddElement DEF Insert, BaseInv, UnbornInv
<1>2. QED
  BY <1>1, ConstantsAssumption
     DEF Insert, BaseInv, ColumnsOK, BudgetInv, UnbornInv, DueInv, Held, RowStatus, Active,
         dispatcher, history

\* clear_terminal_jobs.
LEMMA ClearBase == ASSUME BaseInv, NEW j \in Job, ClearHistory(j) PROVE BaseInv'
BY DEF ClearHistory, BaseInv, ColumnsOK, BudgetInv, UnbornInv, DueInv, Held, RowStatus,
       Active, dispatcher, history

\* The query of process_due_webhooks.
LEMMA FetchBase == ASSUME BaseInv, Fetch PROVE BaseInv'
<1>1. UNCHANGED <<status, attempts, jobs, born, flight, request, tries, lost>>
  BY DEF Fetch, rows, history
<1>2. \A d \in batch' : d \in Delivery /\ status[d] \in Active /\ d \in born
                         /\ seen'[d] = attempts[d]
  BY DEF Fetch, BaseInv, UnbornInv, Active
<1>3. /\ flight = None
      /\ batch' \in SUBSET Delivery
      /\ loaded' = {}
      /\ seen' \in [Delivery -> 0 .. MaxAttempts]
  BY ConstantsAssumption DEF Fetch, BaseInv, ColumnsOK
<1>4. QED
  BY <1>1, <1>2, <1>3, ConstantsAssumption
     DEF BaseInv, ColumnsOK, BudgetInv, UnbornInv, DueInv, Held

\* The dispatcher gives up its batch.
LEMMA AbortBase ==
    ASSUME BaseInv, Abort,
           UNCHANGED <<status, attempts, jobs, born, request, tries>>,
           lost' = IF flight = None THEN lost ELSE [lost EXCEPT ![flight] = @ + 1]
    PROVE  BaseInv'
<1>1. flight # None => flight \in Delivery
  BY DEF BaseInv, ColumnsOK
<1>2. lost' \in [Delivery -> Nat]
  BY <1>1 DEF BaseInv, ColumnsOK
<1>3. flight' = None /\ batch' = {} /\ loaded' = {} /\ seen' = [d \in Delivery |-> 0]
  BY DEF Abort
<1>4. ColumnsOK'
  BY <1>2, <1>3, ConstantsAssumption DEF BaseInv, ColumnsOK
<1>5. BudgetInv'
  BY <1>3, ConstantsAssumption DEF BaseInv, BudgetInv, Held
<1>6. UnbornInv'
  BY <1>1 DEF BaseInv, UnbornInv, DueInv, Held, ColumnsOK
<1>7. DueInv'
  BY <1>3, ConstantsAssumption DEF BaseInv, DueInv, Held
<1>8. QED
  BY <1>4, <1>5, <1>6, <1>7 DEF BaseInv

\* A delivery whose job is gone: its row may be gone too.
OrphanSettled(d) ==
    /\ status[d] # "absent"
    /\ status' = [status EXCEPT ![d] = "dead"]
    /\ batch' = batch \ {d}
    /\ seen' = [seen EXCEPT ![d] = 0]
    /\ UNCHANGED <<loaded, flight>>

LEMMA OrphanSteps ==
    ASSUME NEW d \in Delivery, DeadLetterOrphan(d)
    PROVE  /\ flight = None /\ d \in batch /\ JobOf[d] \notin jobs
           /\ UNCHANGED <<attempts, jobs, born, request, tries, lost>>
           /\ \/ status[d] = "absent" /\ Abort /\ UNCHANGED status
              \/ OrphanSettled(d)
BY DEF DeadLetterOrphan, InSession, history, Settle, OrphanStatus, OrphanSettled

LEMMA OrphanBase == ASSUME BaseInv, NEW d \in Delivery, DeadLetterOrphan(d) PROVE BaseInv'
<1>1. /\ flight = None /\ d \in batch
      /\ UNCHANGED <<attempts, jobs, born, request, tries, lost>>
  BY OrphanSteps
<1>2. CASE status[d] = "absent" /\ Abort /\ UNCHANGED status
  BY <1>1, <1>2, AbortBase
<1>3. CASE OrphanSettled(d)
  <2>1. ColumnsOK'
    BY <1>1, <1>3, ConstantsAssumption DEF OrphanSettled, BaseInv, ColumnsOK, RowStatus
  <2>2. Held' \subseteq Held
    BY <1>1, <1>3 DEF OrphanSettled, Held
  <2>3. BudgetInv'
    BY <1>1, <1>3, <2>2, ConstantsAssumption
       DEF OrphanSettled, BaseInv, ColumnsOK, BudgetInv, Active
  <2>4. UnbornInv'
    BY <1>1, <1>3 DEF OrphanSettled, BaseInv, ColumnsOK, UnbornInv
  <2>5. DueInv'
    BY <1>1, <1>3, ConstantsAssumption DEF OrphanSettled, BaseInv, ColumnsOK, DueInv, Held
  <2>6. QED
    BY <2>1, <2>3, <2>4, <2>5 DEF BaseInv
<1>4. QED
  BY <1>2, <1>3, OrphanSteps

\* The request goes out.
LEMMA PostBase == ASSUME BaseInv, NEW d \in Delivery, Post(d) PROVE BaseInv'
<1>1. /\ flight = None /\ d \in batch
      /\ flight' = d /\ batch' = batch \ {d}
      /\ loaded' = loaded \cup {JobOf[d]}
      /\ tries' = [tries EXCEPT ![d] = @ + 1]
      /\ UNCHANGED <<status, attempts, jobs, born, seen, request, lost>>
  BY DEF Post, rows
<1>2. Held' \subseteq Held \cup {None} /\ d \in Held
  BY <1>1 DEF Held
<1>3. JobOf[d] \in Job
  BY ConstantsAssumption
<1>4. ColumnsOK'
  BY <1>1, <1>3 DEF BaseInv, ColumnsOK
<1>5. BudgetInv'
  BY <1>1, <1>2, ConstantsAssumption DEF BaseInv, BudgetInv
<1>6. UnbornInv'
  BY <1>1, <1>2 DEF BaseInv, ColumnsOK, UnbornInv, DueInv
<1>7. DueInv'
  BY <1>1, <1>2, ConstantsAssumption DEF BaseInv, ColumnsOK, DueInv
<1>8. QED
  BY <1>4, <1>5, <1>6, <1>7 DEF BaseInv

\* The outcome s of the request in flight is committed.
Outcome(s) ==
    LET d == flight
        n == seen[d] + 1
    IN  /\ status[d] # "absent"
        /\ flight' = None
        /\ attempts' = [attempts EXCEPT ![d] = n]
        /\ seen' = [seen EXCEPT ![d] = 0]
        /\ UNCHANGED <<batch, loaded, lost>>
        /\ status' = [status EXCEPT ![d] = s]
        /\ s = "retrying" => n < MaxAttempts
        /\ s = "dead" => n >= MaxAttempts

LEMMA RecordSteps ==
    ASSUME BaseInv, Record
    PROVE  /\ flight # None /\ flight \in Delivery /\ flight \in Held
           /\ seen[flight] + 1 \in 1 .. MaxAttempts
           /\ UNCHANGED <<jobs, born, request, tries>>
           /\ \/ /\ status[flight] = "absent" /\ Abort /\ UNCHANGED <<status, attempts>>
                 /\ lost' = [lost EXCEPT ![flight] = @ + 1]
              \/ \E s \in {"delivered", "dead", "retrying"} : Outcome(s)
<1> DEFINE d == flight
           n == seen[d] + 1
<1>1. /\ d # None /\ d \in Delivery /\ d \in Held /\ n \in 1 .. MaxAttempts
      /\ UNCHANGED <<jobs, born, request, tries>>
  BY ConstantsAssumption DEF Record, BaseInv, ColumnsOK, BudgetInv, Held
<1>2. \/ status[d] = "absent" /\ Abort /\ UNCHANGED <<status, attempts>>
         /\ lost' = [lost EXCEPT ![d] = @ + 1]
      \/ /\ status[d] # "absent"
         /\ flight' = None
         /\ attempts' = [attempts EXCEPT ![d] = n]
         /\ seen' = [seen EXCEPT ![d] = 0]
         /\ UNCHANGED <<batch, loaded, lost>>
         /\ \/ Settle(d, "delivered", 0)
            \/ Spent(n) /\ Settle(d, "dead", 0)
            \/ ~Spent(n) /\ Settle(d, "retrying", Delay(n))
  BY DEF Record, Counted, rows
<1>3. Spent(n) <=> n >= MaxAttempts
  BY DEF Spent
<1>4. ~Spent(n) => n < MaxAttempts
  BY <1>1, <1>3, ConstantsAssumption
<1>5. QED
  BY <1>1, <1>2, <1>3, <1>4 DEF Settle, Outcome

LEMMA RecordBase == ASSUME BaseInv, Record PROVE BaseInv'
<1>1. CASE /\ status[flight] = "absent" /\ Abort /\ UNCHANGED <<status, attempts>>
           /\ lost' = [lost EXCEPT ![flight] = @ + 1]
  BY <1>1, RecordSteps, AbortBase
<1>2. ASSUME NEW s \in {"delivered", "dead", "retrying"}, Outcome(s) PROVE BaseInv'
  <2>1. ColumnsOK'
    BY <1>2, RecordSteps, ConstantsAssumption DEF Outcome, BaseInv, ColumnsOK, RowStatus
  <2>2. BudgetInv'
    BY <1>2, RecordSteps, ConstantsAssumption
       DEF Outcome, BaseInv, ColumnsOK, BudgetInv, DueInv, Held, Active
  <2>3. UnbornInv'
    BY <1>2, RecordSteps DEF Outcome, BaseInv, ColumnsOK, UnbornInv, DueInv
  <2>4. DueInv'
    BY <1>2, RecordSteps, ConstantsAssumption DEF Outcome, BaseInv, ColumnsOK, DueInv, Held, Active
  <2>5. QED
    BY <2>1, <2>2, <2>3, <2>4 DEF BaseInv
<1>3. QED
  BY <1>1, <1>2, RecordSteps

\* A replay puts back a row the dispatcher may hold by now, as a row it may send.
LEMMA ReplayWriteBase == ASSUME BaseInv, NEW r \in Request, ReplayWrite(r) PROVE BaseInv'
<1> DEFINE d == request[r]
<1>1. /\ d # None /\ d \in Delivery
      /\ request' = [request EXCEPT ![r] = None]
      /\ UNCHANGED <<jobs, born, batch, loaded, seen, flight>>
  BY DEF ReplayWrite, BaseInv, ColumnsOK, dispatcher
<1>2. CASE UNCHANGED <<status, attempts, tries, lost>>
  BY <1>1, <1>2 DEF BaseInv, ColumnsOK, BudgetInv, UnbornInv, DueInv, Held
<1>3. CASE /\ status[d] # "absent"
           /\ status' = [status EXCEPT ![d] = "queued"]
           /\ attempts' = [attempts EXCEPT ![d] = 0]
           /\ tries' = [tries EXCEPT ![d] = 0]
           /\ lost' = [lost EXCEPT ![d] = 0]
  <2>1. d \in born
    BY <1>1, <1>3 DEF BaseInv, UnbornInv
  <2>2. ColumnsOK'
    BY <1>1, <1>3, ConstantsAssumption DEF BaseInv, ColumnsOK, RowStatus
  <2>3. BudgetInv' /\ UnbornInv' /\ DueInv'
    BY <1>1, <1>3, <2>1, ConstantsAssumption
       DEF BaseInv, ColumnsOK, BudgetInv, UnbornInv, DueInv, Held, Active
  <2>4. QED
    BY <2>2, <2>3 DEF BaseInv
<1>4. QED
  BY <1>2, <1>3 DEF ReplayWrite, Settle, rows, history

\* Every step of dispatcher, clock, workers, history clearing and replay.
LEMMA NextBase == ASSUME BaseInv, [Next]_vars PROVE BaseInv'
<1>1. CASE Crash
  BY <1>1, AbortBase DEF Crash, rows
<1>2. ASSUME NEW r \in Request, NEW d \in Delivery, ReplayRead(r, d) PROVE BaseInv'
  BY <1>2
     DEF ReplayRead, rows, dispatcher, history, BaseInv, ColumnsOK, BudgetInv, UnbornInv,
         DueInv, Held
<1>3. CASE UNCHANGED <<status, attempts, jobs, born, batch, loaded, seen, flight, request, tries, lost>>
  BY <1>3 DEF BaseInv, ColumnsOK, BudgetInv, UnbornInv, DueInv, Held
<1>4. QED
  BY <1>1, <1>2, <1>3, InsertBase, ClearBase, FetchBase, OrphanBase, PostBase, RecordBase,
     ReplayWriteBase
     DEF Next, Dispatch, Tick, vars, rows, dispatcher, history

THEOREM BaseInvariant == Spec => [](BaseInv /\ TimesOK)
<1>1. Init => BaseInv /\ TimesOK
  BY InitInv DEF IInv
<1>2. BaseInv /\ TimesOK /\ [Next]_vars => BaseInv' /\ TimesOK'
  BY NextBase, NextTimes
<1>3. QED
  BY <1>1, <1>2, PTL DEF Spec

\* The rows, the line of those that are due and what the dispatcher and the
\* administrators hold have their types: no count passes webhook_max_attempts
\* and no back-off webhook_retry_max_seconds (_retry_delay, deliver_webhook).
THEOREM TypesHold == Spec => []TypeOK
<1>1. BaseInv /\ TimesOK => TypeOK
  BY DEF BaseInv, ColumnsOK, TimesOK, TypeOK
<1>2. QED
  BY <1>1, BaseInvariant, PTL

\* However replay requests overlap, the dispatcher never sends from a batch
\* that has gone stale: no row it still holds has been delivered or given up
\* since, so nothing it sends has a final status (process_due_webhooks).
THEOREM NothingSettledIsSent ==
    Spec => [][\A d \in Delivery : Post(d) => status[d] \in Active \cup {"absent"}]_vars
<1>1. BaseInv => [\A d \in Delivery : Post(d) => status[d] \in Active \cup {"absent"}]_vars
  BY DEF BaseInv, DueInv, Held, Post
<1>2. QED
  BY <1>1, BaseInvariant, PTL

-----------------------------------------------------------------------------
(* What holds when replay requests do not overlap: the counts.             *)

LEMMA InsertInv == ASSUME IInv, NEW d \in Delivery, Insert(d) PROVE IInv'
<1>1. BaseInv'
  BY InsertBase DEF IInv
<1>2. /\ d \notin born /\ d \notin Held /\ attempts[d] = 0 /\ tries[d] = 0 /\ lost[d] = 0
      /\ status' = [status EXCEPT ![d] = "queued"]
      /\ born' = born \cup {d}
      /\ UNCHANGED <<attempts, jobs, batch, seen, flight, request, tries, lost>>
  BY DEF Insert, IInv, BaseInv, UnbornInv, DueInv, dispatcher, history
<1>3. HeldInv'
  BY <1>2 DEF IInv, BaseInv, ColumnsOK, HeldInv, Held
<1>4. AttemptsAccounted' /\ DeadAfterBudget'
  BY <1>2 DEF IInv, BaseInv, ColumnsOK, Held, AttemptsAccounted, DeadAfterBudget
<1>5. QED
  BY <1>1, <1>3, <1>4 DEF IInv

LEMMA ClearInv == ASSUME IInv, NEW j \in Job, ClearHistory(j) PROVE IInv'
BY ClearBase, ConstantsAssumption
   DEF ClearHistory, IInv, BaseInv, ColumnsOK, HeldInv, Held, AttemptsAccounted,
       DeadAfterBudget, RowStatus, dispatcher, history

LEMMA FetchInv == ASSUME IInv, Fetch PROVE IInv'
<1>1. UNCHANGED <<status, attempts, jobs, born, flight, request, tries, lost>>
  BY DEF Fetch, rows, history
<1>2. \A d \in batch' : d \in Delivery /\ seen'[d] = attempts[d]
  BY DEF Fetch
<1>3. flight = None
  BY DEF Fetch
<1>4. QED
  BY <1>1, <1>2, <1>3, FetchBase, ConstantsAssumption
     DEF IInv, HeldInv, Held, AttemptsAccounted, DeadAfterBudget

LEMMA AbortInv ==
    ASSUME IInv, Abort,
           UNCHANGED <<status, attempts, jobs, born, request, tries>>,
           lost' = IF flight = None THEN lost ELSE [lost EXCEPT ![flight] = @ + 1]
    PROVE  IInv'
<1>1. flight # None => flight \in Delivery
  BY DEF IInv, BaseInv, ColumnsOK
<1>2. flight' = None /\ batch' = {}
  BY DEF Abort
<1>3. HeldInv'
  BY <1>2, ConstantsAssumption DEF IInv, HeldInv, Held
<1>4. AttemptsAccounted'
  <2> SUFFICES ASSUME NEW d \in Delivery, status[d] # "absent"
               PROVE  tries[d] = attempts[d] + lost'[d] + (IF flight' = d THEN 1 ELSE 0)
    BY DEF AttemptsAccounted
  <2>1. tries[d] = attempts[d] + lost[d] + (IF flight = d THEN 1 ELSE 0)
    BY DEF IInv, AttemptsAccounted
  <2>2. flight' # d
    BY <1>2, ConstantsAssumption
  <2>3. lost'[d] = lost[d] + (IF flight = d THEN 1 ELSE 0)
    BY <1>1, ConstantsAssumption DEF IInv, BaseInv, ColumnsOK
  <2>4. QED
    BY <2>1, <2>2, <2>3 DEF IInv, BaseInv, ColumnsOK
<1>5. DeadAfterBudget'
  BY DEF IInv, DeadAfterBudget
<1>6. QED
  BY <1>3, <1>4, <1>5, AbortBase DEF IInv

LEMMA OrphanInv == ASSUME IInv, NEW d \in Delivery, DeadLetterOrphan(d) PROVE IInv'
<1>1. CASE status[d] = "absent" /\ Abort /\ UNCHANGED status
  BY <1>1, OrphanSteps, AbortInv
<1>2. CASE OrphanSettled(d)
  <2>1. BaseInv'
    BY OrphanBase DEF IInv
  <2>2. HeldInv'
    BY <1>2, OrphanSteps, ConstantsAssumption
       DEF OrphanSettled, IInv, BaseInv, ColumnsOK, DueInv, HeldInv, Held, Active
  <2>3. AttemptsAccounted'
    BY <1>2, OrphanSteps DEF OrphanSettled, IInv, BaseInv, ColumnsOK, AttemptsAccounted
  <2>4. DeadAfterBudget'
    BY <1>2, OrphanSteps DEF OrphanSettled, IInv, BaseInv, ColumnsOK, DeadAfterBudget
  <2>5. QED
    BY <2>1, <2>2, <2>3, <2>4 DEF IInv
<1>3. QED
  BY <1>1, <1>2, OrphanSteps

LEMMA PostInv == ASSUME IInv, NEW d \in Delivery, Post(d) PROVE IInv'
<1>1. /\ flight = None /\ d \in batch
      /\ flight' = d /\ batch' = batch \ {d}
      /\ tries' = [tries EXCEPT ![d] = @ + 1]
      /\ UNCHANGED <<status, attempts, jobs, born, seen, request, lost>>
  BY DEF Post, rows
<1>2. Held' \subseteq Held \cup {None}
  BY <1>1 DEF Held
<1>3. HeldInv'
  BY <1>1, <1>2, ConstantsAssumption DEF IInv, HeldInv
<1>4. AttemptsAccounted' /\ DeadAfterBudget'
  BY <1>1, ConstantsAssumption
     DEF IInv, BaseInv, ColumnsOK, AttemptsAccounted, DeadAfterBudget
<1>5. QED
  BY <1>3, <1>4, PostBase DEF IInv

LEMMA RecordInv == ASSUME IInv, Record PROVE IInv'
<1>1. CASE /\ status[flight] = "absent" /\ Abort /\ UNCHANGED <<status, attempts>>
           /\ lost' = [lost EXCEPT ![flight] = @ + 1]
  BY <1>1, RecordSteps, AbortInv DEF IInv
<1>2. ASSUME NEW s \in {"delivered", "dead", "retrying"}, Outcome(s) PROVE IInv'
  <2> DEFINE d == flight
             n == seen[d] + 1
  <2>1. /\ d # None /\ d \in Delivery /\ d \in Held /\ n \in 1 .. MaxAttempts
        /\ UNCHANGED <<jobs, born, request, tries>>
    BY RecordSteps DEF IInv
  <2>2. seen[d] = attempts[d] /\ tries[d] = attempts[d] + lost[d] + 1
    BY <1>2, <2>1 DEF Outcome, IInv, HeldInv, AttemptsAccounted
  <2>3. HeldInv'
    BY <1>2, <2>1, ConstantsAssumption
       DEF Outcome, IInv, BaseInv, ColumnsOK, DueInv, HeldInv, Held, Active
  <2>4. AttemptsAccounted'
    BY <1>2, <2>1, <2>2, ConstantsAssumption
       DEF Outcome, IInv, BaseInv, ColumnsOK, AttemptsAccounted
  <2>5. DeadAfterBudget'
    BY <1>2, <2>1, <2>2, ConstantsAssumption
       DEF Outcome, IInv, BaseInv, ColumnsOK, DeadAfterBudget
  <2>6. QED
    BY <2>3, <2>4, <2>5, RecordBase DEF IInv
<1>3. QED
  BY <1>1, <1>2, RecordSteps DEF IInv

\* Replay: the dead row is read, and written if it is still there.
LEMMA ReplayReadInv ==
    ASSUME IInv, NEW r \in Request, NEW d \in Delivery, ReplayRead(r, d)
    PROVE  IInv'
<1>1. /\ status[d] = "dead"
      /\ request' = [request EXCEPT ![r] = d]
      /\ UNCHANGED <<status, attempts, jobs, born, batch, loaded, seen, flight, tries, lost>>
  BY DEF ReplayRead, Replayable, rows, dispatcher, history
<1>2. d \in born
  BY <1>1 DEF IInv, BaseInv, UnbornInv
<1>3. BaseInv'
  BY <1>1 DEF IInv, BaseInv, ColumnsOK, BudgetInv, UnbornInv, DueInv, Held
<1>4. QED
  BY <1>1, <1>2, <1>3
     DEF IInv, BaseInv, ColumnsOK, HeldInv, Held, AttemptsAccounted, DeadAfterBudget

LEMMA ReplayWriteInv ==
    ASSUME OneAtATime, IInv, NEW r \in Request, ReplayWrite(r)
    PROVE  IInv'
<1> DEFINE d == request[r]
<1>1. /\ d # None /\ d \in Delivery
      /\ status[d] \in {"dead", "absent"}
      /\ request' = [request EXCEPT ![r] = None]
      /\ UNCHANGED <<jobs, born, batch, loaded, seen, flight>>
  BY DEF ReplayWrite, IInv, BaseInv, ColumnsOK, HeldInv, dispatcher
<1>2. \A q \in Request : request'[q] = None
  BY <1>1 DEF OneAtATime, IInv, BaseInv, ColumnsOK
<1>3. BaseInv'
  BY ReplayWriteBase DEF IInv
<1>4. CASE UNCHANGED <<status, attempts, tries, lost>>
  BY <1>1, <1>2, <1>3, <1>4 DEF IInv, HeldInv, Held, AttemptsAccounted, DeadAfterBudget
<1>5. CASE /\ status[d] # "absent"
           /\ status' = [status EXCEPT ![d] = "queued"]
           /\ attempts' = [attempts EXCEPT ![d] = 0]
           /\ tries' = [tries EXCEPT ![d] = 0]
           /\ lost' = [lost EXCEPT ![d] = 0]
  <2>1. status[d] = "dead" /\ d \notin Held
    BY <1>1, <1>5 DEF IInv, BaseInv, DueInv, Active
  <2>2. HeldInv'
    BY <1>1, <1>2, <1>5, <2>1 DEF IInv, BaseInv, ColumnsOK, HeldInv, Held
  <2>3. AttemptsAccounted' /\ DeadAfterBudget'
    BY <1>1, <1>5, <2>1, ConstantsAssumption
       DEF IInv, BaseInv, ColumnsOK, Held, AttemptsAccounted, DeadAfterBudget
  <2>4. QED
    BY <1>3, <2>2, <2>3 DEF IInv
<1>6. QED
  BY <1>4, <1>5 DEF ReplayWrite, Settle, rows, history

LEMMA NextInv == ASSUME OneAtATime, IInv, [Next]_vars PROVE IInv'
<1>1. CASE Crash
  BY <1>1, AbortInv DEF Crash, rows
<1>2. CASE UNCHANGED <<status, attempts, jobs, born, batch, loaded, seen, flight, request, tries, lost>>
  BY <1>2
     DEF IInv, BaseInv, ColumnsOK, BudgetInv, UnbornInv, DueInv, HeldInv, Held,
         AttemptsAccounted, DeadAfterBudget
<1>3. QED
  BY <1>1, <1>2, InsertInv, ClearInv, FetchInv, OrphanInv, PostInv, RecordInv,
     ReplayReadInv, ReplayWriteInv
     DEF Next, Dispatch, Tick, vars, rows, dispatcher, history

\* The strengthened invariant holds as long as replay requests do not overlap.
THEOREM Invariant == OneAtATime => (Spec => []IInv)
<1>1. OneAtATime /\ IInv /\ [Next]_vars => IInv'
  BY NextInv
<1>2. SUFFICES ASSUME OneAtATime PROVE Spec => []IInv
  OBVIOUS
<1>3. IInv /\ [Next]_vars => IInv'
  BY <1>1, <1>2
<1>4. QED
  BY <1>3, InitInv, PTL DEF Spec

-----------------------------------------------------------------------------
\* A delivery is given up after its budget of requests or for want of its job.
THEOREM BudgetSpent == OneAtATime => (Spec => []DeadAfterBudget)
<1>1. IInv => DeadAfterBudget
  BY DEF IInv
<1>2. QED
  BY <1>1, Invariant, PTL

\* The attempt number on the row, the requests cut off before their commit and
\* the one under way are all the requests the receiver has seen.
THEOREM RequestsAccounted == OneAtATime => (Spec => []AttemptsAccounted)
<1>1. IInv => AttemptsAccounted
  BY DEF IInv
<1>2. QED
  BY <1>1, Invariant, PTL

\* An event that has been delivered is not sent again by a later or a stale
\* batch.
THEOREM NoSecondDelivery == OneAtATime => (Spec => DeliveredNotRepeated)
<1>1. SUFFICES ASSUME OneAtATime PROVE Spec => DeliveredNotRepeated
  OBVIOUS
<1>2. IInv /\ [Next]_vars => [\A d \in Delivery : status[d] = "delivered" => tries'[d] = tries[d]]_vars
  <2> SUFFICES ASSUME IInv, [Next]_vars, NEW d \in Delivery, status[d] = "delivered"
               PROVE  tries'[d] = tries[d]
    OBVIOUS
  <2>1. d \notin Held
    BY DEF IInv, BaseInv, DueInv, Active
  <2>2. ASSUME NEW e \in Delivery, Post(e) PROVE tries'[d] = tries[d]
    BY <2>1, <2>2 DEF Post, Held, IInv, BaseInv, ColumnsOK
  <2>3. ASSUME NEW r \in Request, ReplayWrite(r) PROVE tries'[d] = tries[d]
    BY <2>3 DEF ReplayWrite, IInv, BaseInv, ColumnsOK, HeldInv, history
  <2>4. CASE UNCHANGED tries
    BY <2>4
  <2>5. QED
    BY <2>2, <2>3, <2>4
       DEF Next, Dispatch, Insert, ClearHistory, Tick, Fetch, DeadLetterOrphan, Record, Crash,
           ReplayRead, vars, history
<1>3. QED
  BY <1>1, <1>2, Invariant, PTL DEF Spec, DeliveredNotRepeated

\* The rows move along the state machine of the documentation.
THEOREM DocumentedTransitions == OneAtATime => (Spec => LegalTransitions)
<1>1. SUFFICES ASSUME OneAtATime PROVE Spec => LegalTransitions
  OBVIOUS
<1> DEFINE Legal(d) == status'[d] # status[d] => <<status[d], status'[d]>> \in LegalSteps
<1>2. IInv /\ [Next]_vars => [\A d \in Delivery : Legal(d)]_vars
  <2> SUFFICES ASSUME IInv, [Next]_vars, NEW d \in Delivery PROVE Legal(d)
    OBVIOUS
  <2>1. status[d] \in RowStatus \cup {"absent"}
    BY DEF IInv, BaseInv, ColumnsOK
  <2>2. ASSUME NEW e \in Delivery, Insert(e) PROVE Legal(d)
    BY <2>2 DEF Insert, IInv, BaseInv, ColumnsOK, UnbornInv, LegalSteps
  <2>3. ASSUME NEW j \in Job, ClearHistory(j) PROVE Legal(d)
    BY <2>1, <2>3 DEF ClearHistory, LegalSteps
  <2>4. ASSUME NEW e \in Delivery, DeadLetterOrphan(e) PROVE Legal(d)
    BY <2>4 DEF DeadLetterOrphan, Settle, OrphanStatus, IInv, BaseInv, ColumnsOK, DueInv, Held,
               LegalSteps, Active
  <2>5. CASE Record
    <3>1. flight \in Delivery /\ status[flight] \in Active \cup {"absent"}
      BY <2>5 DEF Record, IInv, BaseInv, ColumnsOK, DueInv, Held
    <3>2. \/ UNCHANGED status
          \/ /\ status[flight] # "absent"
             /\ \E s \in {"delivered", "dead", "retrying"} :
                    status' = [status EXCEPT ![flight] = s]
      BY <2>5 DEF Record, Settle, rows
    <3>3. QED
      BY <3>1, <3>2 DEF IInv, BaseInv, ColumnsOK, LegalSteps, Active
  <2>6. ASSUME NEW r \in Request, ReplayWrite(r) PROVE Legal(d)
    BY <2>6 DEF ReplayWrite, Settle, IInv, BaseInv, ColumnsOK, HeldInv, LegalSteps, rows
  <2>7. CASE UNCHANGED status
    BY <2>7
  <2>8. QED
    BY <2>2, <2>3, <2>4, <2>5, <2>6, <2>7
       DEF Next, Dispatch, Tick, Fetch, Post, Crash, ReplayRead, vars, rows
<1>3. QED
  BY <1>1, <1>2, Invariant, PTL DEF Spec, LegalTransitions
=============================================================================
