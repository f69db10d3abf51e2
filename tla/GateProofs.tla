----------------------------- MODULE GateProofs -----------------------------
(***************************************************************************)
(* Theorems about the two services that take signed requests, for any      *)
(* number of requests and connections, any clocks, and any times to live   *)
(* that satisfy TtlAssumption: a request is worked on once in the life of  *)
(* a service, and no permit is lost or made.                               *)
(***************************************************************************)
EXTENDS MCServices, FiniteSetTheorems, TLAPS

\* The types of the variables the argument reads, without their bounds.
GateTypes ==
    /\ service \in {"native", "url"} /\ clock \in Nat
    /\ stamp \in [Request -> Nat]
    /\ thread \in [Connection -> {"closed", "headers", "body", "admitted", "working"}]
    /\ serves \in [Connection -> Request] /\ arrived \in [Connection -> Nat]
    /\ seen \in [Request -> Nat] /\ runs \in [Request -> Nat]
    /\ slots \in Int /\ busy \in Int

\* A thread that waits for a body read its headers while the stamp could pass.
HeadersWereTimely ==
    \A c \in Connection : thread[c] = "body" =>
        /\ arrived[c] <= clock
        /\ stamp[serves[c]] <= arrived[c] + Skew /\ arrived[c] <= stamp[serves[c]] + Skew

\* A request that was let in is remembered until its stamp cannot pass any more,
\* and a Spare longer.
SpentIsKnown ==
    \A q \in Request : Gate!Spent(q) =>
        \/ seen[q] # 0 /\ seen[q] >= stamp[q] + Skew + Gate!Spare
        \/ clock > stamp[q] + Skew + Gate!Spare

GateInv == GateTypes /\ HeadersWereTimely /\ SpentIsKnown

\* Those who hold a permit of each semaphore.
Inside == {c \in Connection : thread[c] # "closed"}
AtWork == {c \in Connection : thread[c] = "working" \/ (service = "native" /\ thread[c] \in {"body", "admitted"})}

-----------------------------------------------------------------------------
(* The inductive invariant.                                                *)

LEMMA SpareIsNat == Gate!Spare \in Nat
BY TtlAssumption DEF Gate!Spare

\* A service starts with nothing let in.
LEMMA GateInit == Gate!Init => GateInv
BY TtlAssumption, GateAssumption
   DEF Gate!Init, Gate!Started, Gate!Slots, Gate!Busy, GateInv, GateTypes, HeadersWereTimely, SpentIsKnown,
       Gate!LetIn, Gate!Spent

\* A thread that leaves, whatever it gives back, is closed and serves nobody.
LEMMA LeavingThread ==
    ASSUME GateInv, NEW c \in Connection, NEW n \in Int, Gate!Leave(c, n)
    PROVE  /\ thread' = [thread EXCEPT ![c] = "closed"]
           /\ serves' \in [Connection -> Request] /\ arrived' \in [Connection -> Nat]
           /\ \A b \in Connection \ {c} : serves'[b] = serves[b] /\ arrived'[b] = arrived[b]
           /\ slots' = slots + 1 /\ busy' = busy + n
           /\ UNCHANGED <<service, clock, stamp, lease, runs>>
BY GateAssumption DEF GateInv, GateTypes, Gate!Leave, Gate!Move, Gate!Fixed

\* Nobody new is let in by a thread that leaves, so only what is remembered
\* matters: each nonce is kept, or was over.
LEMMA LeavingKeeps ==
    ASSUME GateInv, NEW c \in Connection, NEW n \in Int, Gate!Leave(c, n),
           seen' \in [Request -> Nat],
           \A q \in Request : seen'[q] = seen[q] \/ seen[q] = 0 \/ seen[q] < clock
    PROVE  GateInv'
<1>1. GateTypes'
  BY LeavingThread DEF GateInv, GateTypes
<1>2. HeadersWereTimely'
  BY LeavingThread DEF GateInv, GateTypes, HeadersWereTimely
<1>3. \A b \in Connection, q \in Request : Gate!LetIn(b, q)' => Gate!LetIn(b, q)
  BY LeavingThread DEF GateInv, GateTypes, Gate!LetIn
<1>4. SpentIsKnown'
  <2>1. \A q \in Request : Gate!Spent(q)' => Gate!Spent(q)
    BY <1>3, LeavingThread DEF Gate!Spent
  <2>2. UNCHANGED <<clock, stamp>>
    BY LeavingThread
  <2>3. QED
    BY <2>1, <2>2, SpareIsNat, TtlAssumption DEF GateInv, GateTypes, SpentIsKnown
<1>6. QED
  BY <1>1, <1>2, <1>4 DEF GateInv

LEMMA ConnectStep ==
    ASSUME GateInv, NEW c \in Connection, NEW q \in Request, Gate!Connect(c, q)
    PROVE  GateInv'
<1> USE DEF GateInv, GateTypes, Gate!Connect, Gate!Move, Gate!Fixed
<1>1. GateTypes'
  OBVIOUS
<1>2. HeadersWereTimely'
  BY DEF HeadersWereTimely
<1>3. \A b \in Connection, p \in Request : Gate!LetIn(b, p)' = Gate!LetIn(b, p)
  BY DEF Gate!LetIn
<1>4. SpentIsKnown'
  BY <1>3 DEF SpentIsKnown, Gate!Spent
<1>6. QED
  BY <1>1, <1>2, <1>4

\* The stamp is looked at when the headers are read.
LEMMA ReadHeadersStep ==
    ASSUME GateInv, NEW c \in Connection, Gate!ReadHeaders(c)
    PROVE  GateInv'
<1>1. CASE Gate!Leave(c, 0) /\ UNCHANGED seen
  BY <1>1, LeavingKeeps DEF GateInv, GateTypes
<1>2. CASE /\ Gate!Timely(c) /\ arrived' = [arrived EXCEPT ![c] = clock] /\ Gate!Move(c, "body")
           /\ busy' = IF service = "native" THEN busy - 1 ELSE busy
           /\ UNCHANGED <<serves, seen, slots, runs>> /\ Gate!Fixed
  <2> USE <1>2 DEF GateInv, GateTypes, Gate!Move, Gate!Fixed
  <2>1. GateTypes'
    OBVIOUS
  <2>2. HeadersWereTimely'
    BY TtlAssumption DEF HeadersWereTimely, Gate!Timely
  <2>3. \A b \in Connection, p \in Request : Gate!LetIn(b, p)' => Gate!LetIn(b, p)
    BY DEF Gate!LetIn
  <2>4. SpentIsKnown'
    BY <2>3 DEF SpentIsKnown, Gate!Spent
    <2>6. QED
    BY <2>1, <2>2, <2>4
<1>3. QED
  BY <1>1, <1>2 DEF Gate!ReadHeaders

\* A thread that finds its nonce fresh before its body has taken longer than Spare
\* serves a request that was never let in: had it been, it would be remembered.
LEMMA FreshIsUnspent ==
    ASSUME GateInv, NEW c \in Connection, thread[c] = "body", Gate!Fresh(c),
           clock <= arrived[c] + Gate!Spare
    PROVE  ~Gate!Spent(serves[c])
<1>1. clock <= stamp[serves[c]] + Skew + Gate!Spare
  BY SpareIsNat, TtlAssumption DEF GateInv, GateTypes, HeadersWereTimely
<1>2. Gate!NonceTime(c) <= clock /\ Gate!NonceTime(c) \in Nat
  BY DEF GateInv, GateTypes, HeadersWereTimely, Gate!NonceTime
<1>3. seen[serves[c]] = 0 \/ seen[serves[c]] < Gate!NonceTime(c)
  BY <1>2 DEF GateInv, GateTypes, Gate!Fresh, Gate!Remembered
<1>4. QED
  BY <1>1, <1>2, <1>3, SpareIsNat, TtlAssumption DEF GateInv, GateTypes, SpentIsKnown

\* A nonce that is dropped has expired.
LEMMA DroppedIsOver ==
    ASSUME GateInv, NEW c \in Connection, thread[c] = "body", NEW q \in Request,
           q \notin Gate!Remembered(c)
    PROVE  seen[q] = 0 \/ seen[q] < clock
BY DEF GateInv, GateTypes, HeadersWereTimely, Gate!NonceTime, Gate!Remembered

LEMMA ReadBodyStep ==
    ASSUME GateInv, NEW c \in Connection, Gate!ReadBody(c)
    PROVE  GateInv'
<1>0. thread[c] = "body" /\ Gate!Given(c) \in Int
  BY DEF Gate!ReadBody, Gate!Given
<1>1. CASE Gate!Leave(c, Gate!Given(c)) /\ UNCHANGED seen
  BY <1>0, <1>1, LeavingKeeps DEF GateInv, GateTypes
<1>2. CASE /\ Gate!Leave(c, Gate!Given(c))
           /\ seen' = [q \in Request |-> IF q \in Gate!Remembered(c) THEN seen[q] ELSE 0]
  <2>1. seen' \in [Request -> Nat]
    BY <1>2 DEF GateInv, GateTypes
  <2>2. \A q \in Request : seen'[q] = seen[q] \/ seen[q] = 0 \/ seen[q] < clock
    BY <1>0, <1>2, DroppedIsOver
  <2>3. QED
    BY <1>0, <1>2, <2>1, <2>2, LeavingKeeps
<1>3. CASE /\ Gate!Fresh(c) /\ Gate!Move(c, "admitted")
           /\ seen' = [q \in Request |-> IF q \in Gate!Remembered(c) THEN seen[q]
                                         ELSE IF q = serves[c] THEN Gate!Expiry(c) ELSE 0]
           /\ UNCHANGED <<serves, arrived, slots, busy, runs>> /\ Gate!Fixed
  <2> DEFINE p == serves[c]
  <2>0. p \in Request
    BY DEF GateInv, GateTypes
  <2>1. Gate!Expiry(c) \in Nat \ {0} /\ Gate!Expiry(c) >= stamp[p] + Skew + Gate!Spare
    BY <1>0, <2>0, TtlAssumption DEF GateInv, GateTypes, HeadersWereTimely, Gate!Expiry, Gate!NonceTime,
       Gate!Spare
  <2>2. thread' = [thread EXCEPT ![c] = "admitted"]
        /\ UNCHANGED <<service, clock, stamp, lease, serves, arrived, slots, busy, runs>>
    BY <1>3 DEF Gate!Move, Gate!Fixed
  <2>3. p \notin Gate!Remembered(c)
    BY <1>3 DEF Gate!Fresh
  <2>4. seen'[p] = Gate!Expiry(c)
        /\ \A q \in Request \ {p} : seen'[q] = seen[q] \/ seen[q] = 0 \/ seen[q] < clock
    BY <1>0, <1>3, <2>0, <2>3, DroppedIsOver
  <2>5. \A b \in Connection, q \in Request : Gate!LetIn(b, q)' <=> Gate!LetIn(b, q) \/ (b = c /\ q = p)
    BY <1>0, <2>2 DEF GateInv, GateTypes, Gate!LetIn
  <2>7. GateTypes'
    BY <1>3, <2>1, <2>2 DEF GateInv, GateTypes
  <2>8. HeadersWereTimely'
    BY <2>2 DEF GateInv, GateTypes, HeadersWereTimely
  <2>9. SpentIsKnown'
    <3> SUFFICES ASSUME NEW q \in Request, Gate!Spent(q)'
                 PROVE  (\/ seen[q] # 0 /\ seen[q] >= stamp[q] + Skew + Gate!Spare
                         \/ clock > stamp[q] + Skew + Gate!Spare)'
      BY DEF SpentIsKnown
    <3>1. CASE q = p
      BY <3>1, <2>0, <2>1, <2>2, <2>4
    <3>2. CASE q # p
      <4>1. Gate!Spent(q)
        BY <3>2, <2>2, <2>5 DEF Gate!Spent
      <4>2. QED
        BY <3>2, <4>1, <2>2, <2>4, SpareIsNat, TtlAssumption DEF GateInv, GateTypes, SpentIsKnown
    <3>3. QED
      BY <3>1, <3>2
  <2>10. QED
    BY <2>7, <2>8, <2>9 DEF GateInv
<1>4. QED
  BY <1>1, <1>2, <1>3 DEF Gate!ReadBody

\* A thread works on the request it was let in for.
LEMMA WorkBeginsStep ==
    ASSUME GateInv, NEW c \in Connection, Gate!Begin(c)
    PROVE  GateInv'
<1>1. CASE Gate!Leave(c, 0) /\ UNCHANGED seen
  BY <1>1, LeavingKeeps DEF GateInv, GateTypes
<1>2. CASE /\ Gate!Run(c) /\ Gate!Move(c, "working") /\ busy' \in {busy, busy - 1}
           /\ UNCHANGED <<serves, arrived, seen, slots>> /\ Gate!Fixed
  <2> DEFINE p == serves[c]
  <2>1. p \in Request /\ Gate!LetIn(c, p)
    BY DEF GateInv, GateTypes, Gate!LetIn, Gate!Begin
  <2>2. thread' = [thread EXCEPT ![c] = "working"] /\ runs' = [runs EXCEPT ![p] = @ + 1]
        /\ UNCHANGED <<service, clock, stamp, lease, serves, arrived, seen, slots>>
    BY <1>2 DEF Gate!Move, Gate!Run, Gate!Fixed
  <2>3. GateTypes'
    BY <1>2, <2>1, <2>2 DEF GateInv, GateTypes
  <2>4. HeadersWereTimely'
    BY <2>2 DEF GateInv, GateTypes, HeadersWereTimely
  <2>5. \A b \in Connection, q \in Request : Gate!LetIn(b, q)' <=> Gate!LetIn(b, q) /\ b # c
    BY <2>1, <2>2 DEF GateInv, GateTypes, Gate!LetIn
  <2>6. \A q \in Request : Gate!Spent(q)' => Gate!Spent(q)
    BY <2>1, <2>2, <2>5 DEF GateInv, GateTypes, Gate!Spent
  <2>7. SpentIsKnown'
    BY <2>2, <2>6 DEF GateInv, SpentIsKnown
  <2>8. QED
    BY <2>3, <2>4, <2>7 DEF GateInv
<1>3. QED
  BY <1>1, <1>2 DEF Gate!Begin

\* A clock that ticks makes a nonce expire only when its stamp has.
LEMMA TickStep ==
    ASSUME GateInv, Gate!Tick
    PROVE  GateInv'
<1> USE DEF GateInv, GateTypes, Gate!Tick
<1>1. GateTypes'
  OBVIOUS
<1>2. HeadersWereTimely'
  BY TtlAssumption DEF HeadersWereTimely
<1>3. \A b \in Connection, p \in Request : Gate!LetIn(b, p)' = Gate!LetIn(b, p)
  BY DEF Gate!LetIn
<1>4. SpentIsKnown'
  BY <1>3, SpareIsNat, TtlAssumption DEF SpentIsKnown, Gate!Spent
<1>6. QED
  BY <1>1, <1>2, <1>4

LEMMA RestartStep ==
    ASSUME GateInv, Gate!Restart
    PROVE  GateInv'
BY GateAssumption DEF GateInv, GateTypes, HeadersWereTimely, SpentIsKnown, Gate!LetIn, Gate!Spent,
       Gate!Restart, Gate!Fixed, Gate!Slots, Gate!Busy

LEMMA GateStep ==
    ASSUME GateInv, Gate!Next \/ UNCHANGED sidecar
    PROVE  GateInv'
<1>1. ASSUME NEW c \in Connection, Gate!Finish(c) PROVE GateInv'
  BY <1>1, LeavingKeeps DEF Gate!Finish, GateInv, GateTypes
<1>2. CASE Gate!LeaseTurns
  BY <1>2 DEF Gate!LeaseTurns, GateInv, GateTypes, HeadersWereTimely, SpentIsKnown, Gate!LetIn, Gate!Spent
<1>3. CASE UNCHANGED sidecar
  BY <1>3 DEF sidecar, GateInv, GateTypes, HeadersWereTimely, SpentIsKnown, Gate!LetIn, Gate!Spent
<1>4. QED
  BY <1>1, <1>2, <1>3, ConnectStep, ReadHeadersStep, ReadBodyStep, WorkBeginsStep, TickStep, RestartStep
     DEF Gate!Next

-----------------------------------------------------------------------------
(* The permits.                                                            *)

\* Connections are few enough to count.
LEMMA Counting ==
    /\ IsFiniteSet(Inside) /\ Cardinality(Inside) \in Nat
    /\ IsFiniteSet(AtWork) /\ Cardinality(AtWork) \in Nat
<1>1. Inside \in SUBSET Connection /\ AtWork \in SUBSET Connection
  BY DEF Inside, AtWork
<1>2. QED
  BY <1>1, GateAssumption, FS_Subset, FS_CardinalityType

\* PermitsReturn in terms of who holds what, before and after a step.
PermitsOut == /\ slots + Cardinality(Inside) = Gate!Slots[service]
        /\ busy + Cardinality(AtWork) = Gate!Busy[service]

LEMMA PermitsHeld == (Gate!PermitsReturn <=> PermitsOut) /\ (Gate!PermitsReturn' <=> PermitsOut')
<1>1. \A S : Gate!Cardinality(S) = Cardinality(S)
  BY DEF Gate!Cardinality, Cardinality
<1>2. QED
  BY <1>1 DEF Gate!PermitsReturn, PermitsOut, Inside, AtWork

\* A permit taken by a thread that did not hold one, or given back by one that did.
LEMMA OneMore ==
    ASSUME NEW S, IsFiniteSet(S), NEW c, c \notin S
    PROVE  Cardinality(S \cup {c}) = Cardinality(S) + 1
BY FS_AddElement

LEMMA OneFewer ==
    ASSUME NEW S, IsFiniteSet(S), NEW c, c \in S
    PROVE  Cardinality(S \ {c}) = Cardinality(S) - 1
BY FS_RemoveElement

PermitInv == GateTypes /\ Gate!PermitsReturn

LEMMA PermitInit == Gate!Init => PermitInv
<1> SUFFICES ASSUME Gate!Init PROVE PermitInv
  OBVIOUS
<1>1. GateTypes
  BY GateInit DEF GateInv
<1>2. Inside = {} /\ AtWork = {}
  BY DEF Gate!Init, Gate!Started, Inside, AtWork
<1>3. slots = Gate!Slots[service] /\ busy = Gate!Busy[service]
      /\ Gate!Slots[service] \in Int /\ Gate!Busy[service] \in Int
  BY DEF Gate!Init, Gate!Started, Gate!Slots, Gate!Busy
<1>4. QED
  BY <1>1, <1>2, <1>3, PermitsHeld, FS_EmptySet DEF PermitInv, PermitsOut

\* A thread that leaves gives back the permit it came in with, and its working
\* permit if it held one.
LEMMA LeavingReturns ==
    ASSUME GateInv, PermitInv, NEW c \in Connection, thread[c] # "closed", NEW n \in Int,
           Gate!Leave(c, n), n = IF c \in AtWork THEN 1 ELSE 0
    PROVE  Gate!PermitsReturn'
<1>1. Inside' = Inside \ {c} /\ c \in Inside
  BY LeavingThread DEF Inside, GateInv, GateTypes
<1>2. AtWork' = AtWork \ {c}
  BY LeavingThread DEF AtWork, GateInv, GateTypes
<1>3. Cardinality(Inside') = Cardinality(Inside) - 1
  BY <1>1, Counting, OneFewer
<1>4. Cardinality(AtWork') = Cardinality(AtWork) - n
  <2>1. CASE c \in AtWork
    BY <2>1, <1>2, Counting, OneFewer
  <2>2. CASE c \notin AtWork
    <3>1. AtWork' = AtWork
      BY <2>2, <1>2
    <3>2. QED
      BY <2>2, <3>1, Counting
  <2>3. QED
    BY <2>1, <2>2
<1>5. slots' = slots + 1 /\ busy' = busy + n /\ service' = service /\ slots \in Int /\ busy \in Int
  BY LeavingThread DEF GateInv, GateTypes
<1>6. QED
  BY <1>3, <1>4, <1>5, Counting, PermitsHeld DEF PermitInv, PermitsOut, Gate!Slots, Gate!Busy

\* Steps after which the same threads hold the same permits.
LEMMA SamePermits ==
    ASSUME PermitInv, Inside' = Inside, AtWork' = AtWork, UNCHANGED <<service, slots, busy>>
    PROVE  Gate!PermitsReturn'
BY PermitsHeld DEF PermitInv, PermitsOut

\* A thread that takes the working permit.
LEMMA TakingWork ==
    ASSUME PermitInv, NEW c, c \notin AtWork, AtWork' = AtWork \cup {c}, Inside' = Inside,
           busy' = busy - 1, UNCHANGED <<service, slots>>
    PROVE  Gate!PermitsReturn'
<1>1. Cardinality(AtWork') = Cardinality(AtWork) + 1
  BY Counting, OneMore
<1>2. QED
  BY <1>1, Counting, PermitsHeld DEF PermitInv, PermitsOut, GateTypes

LEMMA PermitStep ==
    ASSUME GateInv, PermitInv, Gate!Next \/ UNCHANGED sidecar
    PROVE  Gate!PermitsReturn'
<1> USE DEF GateInv, GateTypes, Inside, AtWork
<1>1. ASSUME NEW c \in Connection, NEW q \in Request, Gate!Connect(c, q)
      PROVE  Gate!PermitsReturn'
  <2>1. Inside' = Inside \cup {c} /\ c \notin Inside /\ AtWork' = AtWork
    BY <1>1 DEF Gate!Connect, Gate!Move, Gate!Fixed
  <2>2. slots' = slots - 1 /\ UNCHANGED <<busy, service>>
    BY <1>1 DEF Gate!Connect, Gate!Fixed
  <2>3. Cardinality(Inside') = Cardinality(Inside) + 1
    BY <2>1, Counting, OneMore
  <2> HIDE DEF Inside, AtWork
  <2>4. QED
    BY <2>1, <2>2, <2>3, Counting, PermitsHeld DEF PermitInv, PermitsOut
<1>2. ASSUME NEW c \in Connection, Gate!ReadHeaders(c)
      PROVE  Gate!PermitsReturn'
  <2>0. thread[c] = "headers" /\ c \notin AtWork
    BY <1>2 DEF Gate!ReadHeaders
  <2>1. CASE Gate!Leave(c, 0)
    BY <2>0, <2>1, LeavingReturns
  <2>2. CASE /\ busy' = IF service = "native" THEN busy - 1 ELSE busy
             /\ Gate!Move(c, "body") /\ UNCHANGED <<service, slots>>
    <3>1. Inside' = Inside
      BY <2>0, <2>2 DEF Gate!Move
    <3>2. CASE service = "native"
      <4>1. AtWork' = AtWork \cup {c}
        BY <2>0, <2>2, <3>2 DEF Gate!Move
      <4> HIDE DEF Inside, AtWork
      <4>2. QED
        BY <2>0, <2>2, <3>1, <3>2, <4>1, TakingWork
    <3>3. CASE service # "native"
      <4>1. AtWork' = AtWork
        BY <2>0, <2>2, <3>3 DEF Gate!Move
      <4> HIDE DEF Inside, AtWork
      <4>2. QED
        BY <2>2, <3>1, <3>3, <4>1, SamePermits
    <3>4. QED
      BY <3>2, <3>3
  <2>3. QED
    BY <1>2, <2>1, <2>2 DEF Gate!ReadHeaders, Gate!Fixed
<1>3. ASSUME NEW c \in Connection, Gate!ReadBody(c)
      PROVE  Gate!PermitsReturn'
  <2>0. thread[c] = "body" /\ Gate!Given(c) = IF c \in AtWork THEN 1 ELSE 0
    BY <1>3 DEF Gate!ReadBody, Gate!Given
  <2>1. CASE Gate!Leave(c, Gate!Given(c))
    BY <2>0, <2>1, LeavingReturns
  <2>2. CASE Gate!Move(c, "admitted") /\ UNCHANGED <<service, slots, busy>>
    <3>1. Inside' = Inside /\ AtWork' = AtWork
      BY <2>0, <2>2 DEF Gate!Move
    <3> HIDE DEF Inside, AtWork
    <3>2. QED
      BY <2>2, <3>1, SamePermits
  <2>3. QED
    BY <1>3, <2>1, <2>2 DEF Gate!ReadBody, Gate!Fixed
<1>4. ASSUME NEW c \in Connection, Gate!Begin(c)
      PROVE  Gate!PermitsReturn'
  <2>0. thread[c] = "admitted" /\ (c \in AtWork <=> service = "native")
    BY <1>4 DEF Gate!Begin
  <2>1. CASE service = "url" /\ Gate!Leave(c, 0)
    BY <2>0, <2>1, LeavingReturns
  <2>2. CASE service = "native" /\ Gate!Move(c, "working") /\ UNCHANGED <<service, slots, busy>>
    <3>1. Inside' = Inside /\ AtWork' = AtWork
      BY <2>0, <2>2 DEF Gate!Move
    <3> HIDE DEF Inside, AtWork
    <3>2. QED
      BY <2>2, <3>1, SamePermits
  <2>3. CASE service = "url" /\ Gate!Move(c, "working") /\ busy' = busy - 1 /\ UNCHANGED <<service, slots>>
    <3>1. Inside' = Inside /\ AtWork' = AtWork \cup {c}
      BY <2>0, <2>3 DEF Gate!Move
    <3> HIDE DEF Inside, AtWork
    <3>2. QED
      BY <2>0, <2>3, <3>1, TakingWork
  <2>4. QED
    BY <1>4, <2>1, <2>2, <2>3 DEF Gate!Begin, Gate!Fixed
<1>5. ASSUME NEW c \in Connection, Gate!Finish(c)
      PROVE  Gate!PermitsReturn'
  <2>1. thread[c] = "working" /\ c \in AtWork
    BY <1>5 DEF Gate!Finish
  <2>2. QED
    BY <1>5, <2>1, LeavingReturns DEF Gate!Finish
<1>6. CASE Gate!Tick \/ Gate!LeaseTurns \/ UNCHANGED sidecar
  <2>1. UNCHANGED <<thread, service, slots, busy>>
    BY <1>6 DEF Gate!Tick, Gate!LeaseTurns, sidecar
  <2>2. Inside' = Inside /\ AtWork' = AtWork
    BY <2>1
  <2> HIDE DEF Inside, AtWork
  <2>3. QED
    BY <2>1, <2>2, SamePermits
<1>7. CASE Gate!Restart
  <2>1. Inside' = {} /\ AtWork' = {}
    BY <1>7 DEF Gate!Restart
  <2>2. slots' = Gate!Slots[service'] /\ busy' = Gate!Busy[service']
        /\ Gate!Slots[service'] \in Int /\ Gate!Busy[service'] \in Int
    BY <1>7 DEF Gate!Restart, Gate!Fixed, Gate!Slots, Gate!Busy
  <2> HIDE DEF Inside, AtWork
  <2>3. QED
    BY <2>1, <2>2, PermitsHeld, FS_EmptySet DEF PermitsOut
<1>8. QED
  BY <1>1, <1>2, <1>3, <1>4, <1>5, <1>6, <1>7 DEF Gate!Next

-----------------------------------------------------------------------------
\* The service in focus moves by its own actions, and stays in focus.
LEMMA GateFocus ==
    [Next]_vars => /\ focus = "sidecar" => Gate!Next \/ UNCHANGED sidecar
                   /\ UNCHANGED focus
BY DEF Next, vars

\* The inductive invariant of the two services, in every state in which they are in focus.
THEOREM GateInvariant == Spec => [](focus = "sidecar" => GateInv /\ PermitInv)
<1> DEFINE Inv == focus = "sidecar" => GateInv /\ PermitInv
<1>1. Init => Inv
  BY GateInit, PermitInit DEF Init
<1>2. Inv /\ [Next]_vars => Inv'
  BY GateFocus, GateStep, PermitStep DEF PermitInv, GateInv
<1>3. QED
  BY <1>1, <1>2, PTL DEF Spec

\* However often a signed request arrives, a service lets it in once in its life,
\* unless a repeat's body takes longer than the nonce has to spare: do_POST with
\* _use_nonce (decoder) and _check_nonce (URL fetcher), for any clocks, any
\* bodies and any number of nonces.
THEOREM RequestWorkedOnOnce == Spec => WorkedOnOnce
<1> DEFINE Inv == focus = "sidecar" => GateInv /\ PermitInv
<1>1. ASSUME GateInv, Gate!Next \/ UNCHANGED sidecar PROVE Gate!OnlyTrickled
  <2> SUFFICES ASSUME NEW c \in Connection, Gate!LetInAgain(c)
               PROVE  clock > arrived[c] + Gate!Spare
    BY DEF Gate!OnlyTrickled
  <2>1. thread[c] = "body" /\ thread'[c] = "admitted" /\ Gate!Spent(serves[c])
    BY DEF Gate!LetInAgain
  <2>2. Gate!ReadBody(c)
    BY <1>1, <2>1
    DEF Gate!Next, GateInv, GateTypes, sidecar, Gate!Connect, Gate!ReadHeaders, Gate!ReadBody,
        Gate!Begin, Gate!Finish, Gate!Leave, Gate!Move, Gate!Tick, Gate!LeaseTurns, Gate!Restart
  <2>3. Gate!Fresh(c)
    <3>1. Gate!Given(c) \in Int
      BY DEF Gate!Given
    <3>2. ~Gate!Leave(c, Gate!Given(c))
      BY <1>1, <2>1, <3>1, LeavingThread DEF GateInv, GateTypes
    <3>3. QED
      BY <2>2, <3>2 DEF Gate!ReadBody
  <2>4. QED
    BY <1>1, <2>1, <2>3, FreshIsUnspent, SpareIsNat DEF GateInv, GateTypes
<1>2. Inv /\ [Next]_vars => [focus = "sidecar" => Gate!OnlyTrickled]_sidecar
  BY <1>1, GateFocus
<1>3. QED
  BY <1>2, GateInvariant, PTL DEF Spec, WorkedOnOnce

\* What is missing from either semaphore is what threads of the service hold:
\* process_request and the finally clauses of do_POST, on every path out.
THEOREM NoPermitLost == Spec => []PermitsReturn
<1>1. PermitInv => Gate!PermitsReturn
  BY DEF PermitInv
<1>2. QED
  BY <1>1, GateInvariant, PTL DEF PermitsReturn

\* The bounds of the clock, of the times that are remembered and of the permits.
GateBounds ==
    /\ lease \in BOOLEAN /\ clock \in 0..MaxClock /\ stamp \in [Request -> 0..(2 * Skew)]
    /\ arrived \in [Connection -> 0..MaxClock] /\ seen \in [Request -> 0..(MaxClock + Ttl)]
    /\ slots >= 0 /\ busy >= 0

\* A nonce is remembered until a time that is Ttl from now at most.
LEMMA RememberedUntil ==
    ASSUME GateBounds, NEW c \in Connection
    PROVE  Gate!Expiry(c) \in 0..(MaxClock + Ttl)
<1>1. Gate!NonceTime(c) \in 0..MaxClock
  BY TtlAssumption DEF GateBounds, Gate!NonceTime
<1>2. QED
  BY <1>1, TtlAssumption DEF Gate!Expiry

\* A thread that leaves gives permits back.
LEMMA LeavingBounds ==
    ASSUME GateInv, GateBounds, NEW c \in Connection, NEW n \in Nat, Gate!Leave(c, n),
           seen' \in [Request -> 0..(MaxClock + Ttl)]
    PROVE  GateBounds'
BY TtlAssumption DEF GateInv, GateTypes, GateBounds, Gate!Leave, Gate!Fixed

LEMMA BoundsStep ==
    ASSUME GateInv, GateBounds, Gate!Next \/ UNCHANGED sidecar
    PROVE  GateBounds'
<1> USE TtlAssumption DEF Gate!Fixed
<1>1. ASSUME NEW c \in Connection, NEW q \in Request, Gate!Connect(c, q) PROVE GateBounds'
  BY <1>1 DEF Gate!Connect, GateInv, GateTypes, GateBounds
<1>2. ASSUME NEW c \in Connection, Gate!ReadHeaders(c) PROVE GateBounds'
  <2>1. CASE Gate!Leave(c, 0) /\ UNCHANGED seen
    BY <2>1, LeavingBounds DEF GateBounds
  <2>2. CASE ~(Gate!Leave(c, 0) /\ UNCHANGED seen)
    BY <1>2, <2>2 DEF Gate!ReadHeaders, GateInv, GateTypes, GateBounds
  <2>3. QED
    BY <2>1, <2>2
<1>3. ASSUME NEW c \in Connection, Gate!ReadBody(c) PROVE GateBounds'
  <2>1. Gate!Given(c) \in Nat
    BY DEF Gate!Given
  <2>2. seen' \in [Request -> 0..(MaxClock + Ttl)]
    BY <1>3, RememberedUntil DEF Gate!ReadBody, GateBounds
  <2>3. CASE Gate!Leave(c, Gate!Given(c))
    BY <2>1, <2>2, <2>3, LeavingBounds
  <2>4. CASE UNCHANGED <<service, clock, stamp, lease, arrived, slots, busy>>
    BY <2>2, <2>4 DEF GateBounds
  <2>5. QED
    BY <1>3, <2>3, <2>4 DEF Gate!ReadBody
<1>4. ASSUME NEW c \in Connection, Gate!Begin(c) PROVE GateBounds'
  <2>1. CASE Gate!Leave(c, 0) /\ UNCHANGED seen
    BY <2>1, LeavingBounds DEF GateBounds
  <2>2. CASE ~(Gate!Leave(c, 0) /\ UNCHANGED seen)
    BY <1>4, <2>2 DEF Gate!Begin, GateInv, GateTypes, GateBounds
  <2>3. QED
    BY <2>1, <2>2
<1>5. ASSUME NEW c \in Connection, Gate!Finish(c) PROVE GateBounds'
  BY <1>5, LeavingBounds DEF Gate!Finish, GateBounds
<1>6. CASE Gate!Tick \/ Gate!LeaseTurns
  <2>1. lease' \in BOOLEAN
    BY <1>6 DEF Gate!Tick, Gate!LeaseTurns, GateBounds
  <2>2. clock' \in 0..MaxClock /\ UNCHANGED <<stamp, arrived, seen, slots, busy>>
    BY <1>6 DEF Gate!Tick, Gate!LeaseTurns, GateBounds
  <2>3. QED
    BY <2>1, <2>2 DEF GateBounds
<1>7. CASE Gate!Restart
  BY <1>7 DEF Gate!Restart, Gate!Slots, Gate!Busy, GateInv, GateTypes, GateBounds
<1>8. CASE UNCHANGED sidecar
  BY <1>8 DEF sidecar, GateBounds
<1>9. QED
  BY <1>1, <1>2, <1>3, <1>4, <1>5, <1>6, <1>7, <1>8 DEF Gate!Next

\* No more permits than the semaphores were made with, none below nothing, and
\* no nonce kept past its time to live (_use_nonce, _check_nonce, do_POST).
THEOREM GateTypesHold == Spec => [](focus = "sidecar" => Gate!TypeOK)
<1> DEFINE Inv == focus = "sidecar" => GateInv /\ GateBounds
<1>1. Init => Inv
  <2>1. Gate!Init => GateBounds
    BY TtlAssumption DEF Gate!Init, Gate!Started, Gate!Slots, Gate!Busy, GateBounds
  <2>2. QED
    BY <2>1, GateInit DEF Init
<1>2. Inv /\ [Next]_vars => Inv'
  BY GateFocus, GateStep, BoundsStep
<1>3. GateInv /\ PermitInv /\ GateBounds => Gate!TypeOK
  <2> SUFFICES ASSUME GateInv, PermitInv, GateBounds PROVE Gate!TypeOK
    OBVIOUS
  <2>1. slots \in 0..Gate!Slots[service] /\ busy \in 0..Gate!Busy[service]
    <3>1. Cardinality(Inside) \in Nat /\ Cardinality(AtWork) \in Nat
      BY Counting
    <3>2. slots + Cardinality(Inside) = Gate!Slots[service] /\ busy + Cardinality(AtWork) = Gate!Busy[service]
      BY PermitsHeld DEF PermitInv, PermitsOut
    <3>3. Gate!Slots[service] \in Nat /\ Gate!Busy[service] \in Nat
      BY DEF GateInv, GateTypes, Gate!Slots, Gate!Busy
    <3>4. QED
      BY <3>1, <3>2, <3>3 DEF GateInv, GateTypes, GateBounds
  <2>2. QED
    BY <2>1 DEF GateInv, GateTypes, GateBounds, Gate!TypeOK
<1>4. QED
  BY <1>1, <1>2, <1>3, GateInvariant, PTL DEF Spec
=============================================================================
