---------------------------- MODULE PolicyProofs ----------------------------
(***************************************************************************)
(* Theorems about the limits a service works under: its calls per minute,  *)
(* for any number of calls and any limit, and its quotas, for any writers, *)
(* sizes and limits.                                                       *)
(***************************************************************************)
EXTENDS MCServices, FiniteSetTheorems, TLAPS

-----------------------------------------------------------------------------
(* The rate limit.                                                         *)

\* The types of the variables, without the bounds of the counters.
RateTypes ==
    /\ perMinute \in PerMinute \cap Nat
    /\ time \in 0..MaxTime
    /\ bucket \in [Call -> Rate!Minute]
    /\ rank \in [Call -> Nat]
    /\ verdict \in [Call -> {"new", "first", "counted", "admitted", "refused"}]
    /\ count \in [Rate!Minute -> Nat]
    /\ deadline \in [Rate!Minute -> Nat]

\* A counter outlives the half minutes in which some clock names its minute.
CounterOutlives ==
    \A m \in Rate!Minute : deadline[m] >= 2 * m + 3 \/ deadline[m] > MaxTime

\* A call that was counted has a rank of its own in its minute, no higher than
\* the counter, until no clock names that minute any more.
Ranked ==
    /\ \A c \in Call : rank[c] > 0 =>
          /\ 2 * bucket[c] <= time + 1
          /\ rank[c] <= count[bucket[c]] \/ time >= 2 * bucket[c] + 2
    /\ \A b, c \in Call :
          rank[b] > 0 /\ rank[b] = rank[c] /\ bucket[b] = bucket[c] => b = c

\* What is let through was counted, within the limit if there is one.
WithinLimit ==
    \A c \in Call :
        /\ verdict[c] \in {"first", "counted"} => rank[c] > 0
        /\ verdict[c] = "admitted" => perMinute = 0 \/ rank[c] \in 1..perMinute

RateInv == RateTypes /\ CounterOutlives /\ Ranked /\ WithinLimit

\* No call has been counted yet.
LEMMA RateInit == Rate!Init => RateInv
BY RateAssumption
   DEF Rate!Init, Rate!Minute, Rate!Never, RateInv, RateTypes, CounterOutlives, Ranked, WithinLimit

\* A minute is named by some clock from half a minute before it begins.
LEMMA NamedMinute ==
    ASSUME time \in 0..MaxTime, NEW m \in Rate!MinuteNow
    PROVE  m \in Rate!Minute /\ 2 * m <= time + 1 /\ time < 2 * m + 2
BY RateAssumption DEF Rate!MinuteNow, Rate!Minute

\* A call takes a rank above all there are in its minute.
LEMMA IncrStep ==
    ASSUME RateInv, NEW c \in Call, Rate!Incr(c)
    PROVE  RateInv'
<1> USE RateAssumption DEF RateInv, RateTypes
<1>1. PICK m \in Rate!MinuteNow :
          /\ bucket' = [bucket EXCEPT ![c] = m]
          /\ count' = [count EXCEPT ![m] = @ + 1]
          /\ rank' = [rank EXCEPT ![c] = count[m] + 1]
          /\ verdict' = [verdict EXCEPT ![c] = IF count[m] = 0 THEN "first" ELSE "counted"]
          /\ UNCHANGED <<perMinute, time, deadline>>
  BY DEF Rate!Incr
<1>2. m \in Rate!Minute /\ 2 * m <= time + 1 /\ time < 2 * m + 2 /\ m \in Nat
  BY NamedMinute DEF Rate!Minute
<1>3. RateTypes'
  BY <1>1, <1>2
<1>4. CounterOutlives'
  BY <1>1 DEF CounterOutlives
<1>5. Ranked'
  <2>1. \A b \in Call \ {c} : rank'[b] = rank[b] /\ bucket'[b] = bucket[b]
    BY <1>1
  <2>2. rank'[c] = count[m] + 1 /\ bucket'[c] = m /\ count'[m] = count[m] + 1
    BY <1>1, <1>2
  <2>3. \A n \in Rate!Minute : count'[n] >= count[n]
    BY <1>1, <1>2
  <2>4. \A b \in Call : rank[b] > 0 /\ bucket[b] = m => rank[b] <= count[m]
    BY <1>2 DEF Ranked
  <2>5. \A b \in Call : bucket[b] \in Rate!Minute /\ bucket[b] \in Nat
    BY DEF Rate!Minute
  <2>6. \A b \in Call : rank'[b] > 0 =>
          /\ 2 * bucket'[b] <= time' + 1
          /\ rank'[b] <= count'[bucket'[b]] \/ time' >= 2 * bucket'[b] + 2
    <3> SUFFICES ASSUME NEW b \in Call, rank'[b] > 0
                 PROVE  /\ 2 * bucket'[b] <= time' + 1
                        /\ rank'[b] <= count'[bucket'[b]] \/ time' >= 2 * bucket'[b] + 2
      OBVIOUS
    <3>1. CASE b = c
      BY <3>1, <1>1, <1>2, <2>2
    <3>2. CASE b # c
      <4>1. /\ 2 * bucket[b] <= time + 1
            /\ rank[b] <= count[bucket[b]] \/ time >= 2 * bucket[b] + 2
        BY <3>2, <2>1 DEF Ranked
      <4>2. rank[b] <= count[bucket[b]] => rank[b] <= count'[bucket[b]]
        BY <2>3, <2>5, <1>3
      <4>3. QED
        BY <3>2, <4>1, <4>2, <2>1, <1>1
    <3>3. QED
      BY <3>1, <3>2
  <2>7. \A a, b \in Call :
          rank'[a] > 0 /\ rank'[a] = rank'[b] /\ bucket'[a] = bucket'[b] => a = b
    <3> SUFFICES ASSUME NEW a \in Call, NEW b \in Call, rank'[a] > 0, rank'[a] = rank'[b],
                        bucket'[a] = bucket'[b], a # b
                 PROVE  FALSE
      OBVIOUS
    <3>1. CASE a # c /\ b # c
      BY <3>1, <2>1 DEF Ranked
    <3>2. CASE a = c
      BY <3>2, <2>1, <2>2, <2>4
    <3>3. CASE b = c
      BY <3>3, <2>1, <2>2, <2>4
    <3>4. QED
      BY <3>1, <3>2, <3>3
  <2>8. QED
    BY <2>6, <2>7 DEF Ranked
<1>6. WithinLimit'
  BY <1>1, <1>2 DEF WithinLimit
<1>7. QED
  BY <1>3, <1>4, <1>5, <1>6

\* A call that is refused because Valkey failed may have raised the counter.
LEMMA IncrFailsStep ==
    ASSUME RateInv, NEW c \in Call, Rate!IncrFails(c)
    PROVE  RateInv'
<1> USE RateAssumption DEF RateInv, RateTypes
<1>1. /\ verdict' = [verdict EXCEPT ![c] = "refused"]
      /\ UNCHANGED <<perMinute, time, bucket, rank, deadline>>
  BY DEF Rate!IncrFails
<1>2. count' \in [Rate!Minute -> Nat] /\ \A n \in Rate!Minute : count'[n] >= count[n]
  BY NamedMinute DEF Rate!IncrFails
<1>3. Ranked'
  <2>1. \A b \in Call : bucket[b] \in Rate!Minute
    OBVIOUS
  <2>2. \A b \in Call : rank[b] <= count[bucket[b]] => rank[b] <= count'[bucket[b]]
    BY <1>2, <2>1
  <2>3. QED
    BY <1>1, <2>2 DEF Ranked
<1>4. QED
  BY <1>1, <1>2, <1>3 DEF CounterOutlives, WithinLimit

\* The expiry is set no earlier than half a minute before the minute begins.
LEMMA SetExpiryStep ==
    ASSUME RateInv, NEW c \in Call, Rate!SetExpiry(c)
    PROVE  RateInv'
<1> USE RateAssumption DEF RateInv, RateTypes
<1>1. /\ verdict[c] = "first" /\ UNCHANGED <<perMinute, time, bucket, rank, count>>
      /\ verdict' \in {[verdict EXCEPT ![c] = "counted"], [verdict EXCEPT ![c] = "refused"]}
      /\ deadline' \in {deadline, [deadline EXCEPT ![bucket[c]] = time + 4]}
  BY DEF Rate!SetExpiry, Rate!CounterTTL
<1>2. 2 * bucket[c] <= time + 1
  BY <1>1 DEF WithinLimit, Ranked
<1>3. CounterOutlives'
  <2>1. \A m \in Rate!Minute : deadline'[m] = deadline[m] \/ (deadline'[m] = time + 4 /\ m = bucket[c])
    BY <1>1
  <2>2. bucket[c] \in Nat
    BY DEF Rate!Minute
  <2>3. QED
    BY <1>2, <2>1, <2>2 DEF CounterOutlives
<1>4. RateTypes'
  <2>1. time + 4 \in Nat
    OBVIOUS
  <2>2. QED
    BY <1>1, <2>1
<1>5. Ranked'
  BY <1>1 DEF Ranked
<1>6. WithinLimit'
  BY <1>1 DEF WithinLimit
<1>7. QED
  BY <1>3, <1>4, <1>5, <1>6

\* Without a limit a call is let through uncounted.
LEMMA UnlimitedStep ==
    ASSUME RateInv, NEW c \in Call, Rate!Unlimited(c)
    PROVE  RateInv'
BY RateAssumption DEF Rate!Unlimited, RateInv, RateTypes, CounterOutlives, Ranked, WithinLimit

LEMMA DecideStep ==
    ASSUME RateInv, NEW c \in Call, Rate!Decide(c)
    PROVE  RateInv'
BY RateAssumption DEF Rate!Decide, RateInv, RateTypes, CounterOutlives, Ranked, WithinLimit

\* A counter goes only when no clock names its minute any more.
LEMMA ClockStep ==
    ASSUME RateInv, Rate!Tick
    PROVE  RateInv'
<1> USE RateAssumption DEF RateInv, RateTypes
<1>1. /\ time < MaxTime /\ time' = time + 1 /\ UNCHANGED <<perMinute, bucket, rank, verdict>>
      /\ count' = [m \in Rate!Minute |-> IF deadline[m] <= time' THEN 0 ELSE count[m]]
      /\ deadline' = [m \in Rate!Minute |-> IF deadline[m] <= time' THEN Rate!Never ELSE deadline[m]]
  BY DEF Rate!Tick
<1>2. RateTypes'
  BY <1>1 DEF Rate!Never
<1>3. CounterOutlives'
  BY <1>1 DEF CounterOutlives, Rate!Never, Rate!Minute
<1>4. \A m \in Rate!Minute : count'[m] = count[m] \/ time' >= 2 * m + 2
  <2>1. \A m \in Rate!Minute : m \in Nat
    BY DEF Rate!Minute
  <2>2. \A m \in Rate!Minute : deadline[m] <= time' => time' >= 2 * m + 3
    BY <1>1, <2>1 DEF CounterOutlives
  <2>3. QED
    BY <1>1, <2>1, <2>2
<1>5. Ranked'
  <2>1. \A b \in Call : bucket[b] \in Rate!Minute /\ bucket[b] \in Nat
    BY DEF Rate!Minute
  <2>2. QED
    BY <1>1, <1>4, <2>1 DEF Ranked
<1>6. WithinLimit'
  BY <1>1 DEF WithinLimit
<1>7. QED
  BY <1>2, <1>3, <1>5, <1>6

LEMMA RateStep ==
    ASSUME RateInv, Rate!Next \/ UNCHANGED rate
    PROVE  RateInv'
<1>1. CASE UNCHANGED rate
  BY <1>1 DEF rate, RateInv, RateTypes, CounterOutlives, Ranked, WithinLimit
<1>2. QED
  BY <1>1, UnlimitedStep, IncrStep, IncrFailsStep, SetExpiryStep, DecideStep, ClockStep DEF Rate!Next

\* The ranks of the calls admitted in a minute are different numbers up to the
\* limit, so there are no more of them than that.
LEMMA AdmittedFit ==
    ASSUME RateInv, perMinute > 0, NEW m \in Rate!Minute
    PROVE  Cardinality({c \in Call : verdict[c] = "admitted" /\ bucket[c] = m}) <= perMinute
<1> DEFINE A == {c \in Call : verdict[c] = "admitted" /\ bucket[c] = m}
<1> DEFINE f == [c \in A |-> rank[c]]
<1>1. \A c \in A : rank[c] \in 1..perMinute
  BY RateAssumption DEF RateInv, RateTypes, WithinLimit
<1>2. \A b, c \in A : rank[b] = rank[c] => b = c
  BY RateAssumption DEF RateInv, RateTypes, WithinLimit, Ranked
<1>3. f \in Injection(A, 1..perMinute)
  <2> HIDE DEF A
  <2>1. QED
    BY <1>1, <1>2 DEF Injection, IsInjective
<1>4. IsFiniteSet(1..perMinute) /\ Cardinality(1..perMinute) = perMinute
  <2>1. perMinute \in Nat
    BY DEF RateInv, RateTypes
  <2>2. QED
    BY <2>1, FS_Interval
<1>5. Cardinality(A) <= Cardinality(1..perMinute)
  <2> HIDE DEF A, f
  <2>1. QED
    BY <1>3, <1>4, FS_Injection
<1>6. QED
  BY <1>4, <1>5

\* The limit in focus moves by its own actions, and stays in focus.
LEMMA RateFocus ==
    [Next]_vars => /\ focus = "rate" => Rate!Next \/ UNCHANGED rate
                   /\ UNCHANGED focus
BY DEF Next, vars

\* Where there is a limit no minute lets more calls through, whichever call counted
\* first, died before it set the expiry, or read its clock early, and whenever
\* Valkey failed (ensure_rate_limit).
THEOREM RateIsHeld == Spec => []RateHeld
<1> DEFINE Inv == focus = "rate" => RateInv
<1>1. Init => Inv
  BY RateInit DEF Init
<1>2. Inv /\ [Next]_vars => Inv'
  BY RateFocus, RateStep
<1>3. RateInv => Rate!RateHeld
  <2>1. \A S : Rate!Cardinality(S) = Cardinality(S)
    BY DEF Rate!Cardinality, Cardinality
  <2>2. QED
    BY <2>1, AdmittedFit DEF Rate!RateHeld
<1>4. Inv => RateHeld
  BY <1>3 DEF RateHeld
<1>5. QED
  BY <1>1, <1>2, <1>4, PTL DEF Spec

\* Each call raises one counter at most, so none passes the number of calls.
CountsFit == \A m \in Rate!Minute : count[m] <= Cardinality({c \in Call : verdict[c] # "new"})

\* A call that comes to be counted is one more that has been.
LEMMA OneMoreCall ==
    ASSUME RateInv, NEW c \in Call, verdict[c] = "new", NEW v \in {"first", "counted", "admitted", "refused"},
           verdict' = [verdict EXCEPT ![c] = v]
    PROVE  /\ Cardinality({b \in Call : verdict[b] # "new"}) \in Nat
           /\ Cardinality({b \in Call : verdict'[b] # "new"})
                 = Cardinality({b \in Call : verdict[b] # "new"}) + 1
<1> DEFINE Came == {b \in Call : verdict[b] # "new"}
<1>1. {b \in Call : verdict'[b] # "new"} = Came \cup {c} /\ c \notin Came
  BY DEF RateInv, RateTypes
<1>2. IsFiniteSet(Came)
  BY RateAssumption, FS_Subset
<1>3. QED
  BY <1>1, <1>2, FS_AddElement, FS_CardinalityType

LEMMA CountsStep ==
    ASSUME RateInv, CountsFit, Rate!Next \/ UNCHANGED rate
    PROVE  CountsFit'
<1> DEFINE Came == {b \in Call : verdict[b] # "new"}
<1>1. \A m \in Rate!Minute : count[m] \in Nat
  BY DEF RateInv, RateTypes
<1>2. ASSUME NEW c \in Call, Rate!Incr(c) \/ Rate!IncrFails(c) PROVE CountsFit'
  <2>1. /\ verdict[c] = "new"
        /\ \E v \in {"first", "counted", "refused"} : verdict' = [verdict EXCEPT ![c] = v]
        /\ count' = count \/ \E m \in Rate!MinuteNow : count' = [count EXCEPT ![m] = @ + 1]
    BY <1>2 DEF Rate!Incr, Rate!IncrFails
  <2>2. Cardinality(Came) \in Nat /\ Cardinality(Came') = Cardinality(Came) + 1
    BY <2>1, OneMoreCall
  <2>3. \A m \in Rate!Minute : count'[m] <= count[m] + 1
    BY <1>1, <2>1 DEF RateInv, RateTypes
  <2>4. count' \in [Rate!Minute -> Nat]
    BY <1>2, IncrStep, IncrFailsStep DEF RateInv, RateTypes
  <2>5. \A m \in Rate!Minute : count'[m] <= Cardinality(Came')
    <3> HIDE DEF Came
    <3> SUFFICES ASSUME NEW m \in Rate!Minute PROVE count'[m] <= Cardinality(Came')
      OBVIOUS
    <3>1. count[m] <= Cardinality(Came)
      BY DEF CountsFit, Came
    <3>2. QED
      BY <1>1, <2>2, <2>3, <2>4, <3>1
  <2>6. QED
    BY <2>5 DEF CountsFit
<1>3. ASSUME NEW c \in Call, Rate!SetExpiry(c) \/ Rate!Decide(c) PROVE CountsFit'
  <2>1. Came' = Came /\ count' = count
    BY <1>3 DEF Rate!SetExpiry, Rate!Decide, RateInv, RateTypes
  <2>2. QED
    BY <2>1 DEF CountsFit
<1>4. CASE Rate!Tick
  <2>1. verdict' = verdict /\ \A m \in Rate!Minute : count'[m] \in {0, count[m]}
    BY <1>4 DEF Rate!Tick
  <2>2. Cardinality(Came) \in Nat
    BY RateAssumption, FS_Subset, FS_CardinalityType
  <2>3. QED
    BY <1>1, <2>1, <2>2 DEF CountsFit
<1>5. CASE UNCHANGED rate
  BY <1>5 DEF rate, CountsFit
<1>6. ASSUME NEW c \in Call, Rate!Unlimited(c) PROVE CountsFit'
  <2>1. count' = count /\ verdict[c] = "new" /\ verdict' = [verdict EXCEPT ![c] = "admitted"]
    BY <1>6 DEF Rate!Unlimited
  <2>2. Cardinality(Came) \in Nat /\ Cardinality(Came') = Cardinality(Came) + 1
    BY <2>1, OneMoreCall
  <2>3. \A m \in Rate!Minute : count'[m] <= Cardinality(Came')
    <3> HIDE DEF Came
    <3> SUFFICES ASSUME NEW m \in Rate!Minute PROVE count[m] <= Cardinality(Came')
      BY <2>1
    <3>1. count[m] <= Cardinality(Came)
      BY DEF CountsFit, Came
    <3>2. QED
      BY <1>1, <2>2, <3>1
  <2>4. QED
    BY <2>3 DEF CountsFit
<1>7. QED
  BY <1>2, <1>3, <1>4, <1>5, <1>6 DEF Rate!Next

\* Ranks come from the counters.
LEMMA RanksStep ==
    ASSUME RateInv, CountsFit', Rate!Next \/ UNCHANGED rate,
           \A c \in Call : rank[c] <= Cardinality(Call)
    PROVE  \A c \in Call : rank'[c] <= Cardinality(Call)
<1>1. RateInv'
  BY RateStep
<1>2. \A m \in Rate!Minute : count'[m] \in Nat /\ count'[m] <= Cardinality(Call)
  <2>1. {c \in Call : verdict'[c] # "new"} \subseteq Call
    OBVIOUS
  <2>2. /\ Cardinality({c \in Call : verdict'[c] # "new"}) \in Nat /\ Cardinality(Call) \in Nat
        /\ Cardinality({c \in Call : verdict'[c] # "new"}) <= Cardinality(Call)
    BY <2>1, RateAssumption, FS_Subset, FS_CardinalityType
  <2>3. QED
    BY <1>1, <2>2 DEF CountsFit, RateInv, RateTypes
<1>3. ASSUME NEW c \in Call, Rate!Incr(c)
      PROVE  \A b \in Call : rank'[b] = rank[b] \/ \E m \in Rate!Minute : rank'[b] = count'[m]
  <2>1. PICK m \in Rate!MinuteNow : /\ count' = [count EXCEPT ![m] = @ + 1]
                                     /\ rank' = [rank EXCEPT ![c] = count[m] + 1]
    BY <1>3 DEF Rate!Incr
  <2>2. m \in Rate!Minute
    BY NamedMinute DEF RateInv, RateTypes
  <2>3. QED
    BY <2>1, <2>2 DEF RateInv, RateTypes
<1>4. rank' = rank \/ \E c \in Call : Rate!Incr(c)
  BY DEF Rate!Next, Rate!Unlimited, Rate!IncrFails, Rate!SetExpiry, Rate!Decide, Rate!Tick, rate
<1>5. QED
  BY <1>2, <1>3, <1>4

RateTyped == RateInv /\ CountsFit /\ \A c \in Call : rank[c] <= Cardinality(Call)

\* No counter and no rank passes the number of calls, and the minutes that are
\* counted are those of the time that passes (ensure_rate_limit).
THEOREM RateTypesHold == Spec => [](focus = "rate" => Rate!TypeOK)
<1> DEFINE Inv == focus = "rate" => RateTyped
<1>1. Init => Inv
  <2> SUFFICES ASSUME Rate!Init PROVE RateTyped
    BY DEF Init
  <2>1. \A c \in Call : rank[c] = 0
    BY DEF Rate!Init
  <2>2. \A m \in Rate!Minute : count[m] = 0
    BY DEF Rate!Init
  <2>3. Cardinality(Call) \in Nat /\ Cardinality({c \in Call : verdict[c] # "new"}) \in Nat
    BY RateAssumption, FS_Subset, FS_CardinalityType
  <2>4. QED
    BY <2>1, <2>2, <2>3, RateInit DEF RateTyped, CountsFit
<1>2. Inv /\ [Next]_vars => Inv'
  BY RateFocus, RateStep, CountsStep, RanksStep DEF RateTyped
<1>3. RateTyped => Rate!TypeOK
  <2> SUFFICES ASSUME RateTyped PROVE Rate!TypeOK
    OBVIOUS
  <2>1. Rate!Cardinality(Call) = Cardinality(Call)
    BY DEF Rate!Cardinality, Cardinality
  <2>2. /\ Cardinality({c \in Call : verdict[c] # "new"}) \in Nat /\ Cardinality(Call) \in Nat
        /\ Cardinality({c \in Call : verdict[c] # "new"}) <= Cardinality(Call)
    BY RateAssumption, FS_Subset, FS_CardinalityType
  <2>3. \A m \in Rate!Minute : count[m] \in 0 .. Cardinality(Call)
    BY <2>2 DEF RateTyped, CountsFit, RateInv, RateTypes
  <2>4. \A c \in Call : rank[c] \in 0 .. Cardinality(Call)
    BY <2>2 DEF RateTyped, RateInv, RateTypes
  <2>5. QED
    BY <2>1, <2>3, <2>4 DEF RateTyped, RateInv, RateTypes, Rate!TypeOK
<1>4. QED
  BY <1>1, <1>2, <1>3, PTL DEF Spec

-----------------------------------------------------------------------------
(* Sums over finite sets.  MapThenSumSet adds the elements in an order of   *)
(* its own, by a recursive function; these lemmas say that the order does   *)
(* not matter.  Instead of an induction each takes a smallest set for which *)
(* it would fail.                                                           *)

Pick(s) == CHOOSE x \in s : TRUE
Adds(g, f, S) == g = [s \in SUBSET S |-> IF s = {} THEN 0 ELSE f[Pick(s)] + g[s \ {Pick(s)}]]
Adder(f, S) == CHOOSE g : Adds(g, f, S)
SumOf(f, S) == Adder(f, S)[S]

\* What a service uses is such a sum, before and after a step.
Counted(r) == {w \in Writer : phase[w] = "done" /\ Quota!Uses(w) = r} \ lapsed

LEMMA UsedIsSum ==
    ASSUME NEW r
    PROVE  Quota!Used(r) = SumOf(size, Counted(r)) /\ Quota!Used(r)' = SumOf(size', Counted(r)')
BY DEF Quota!Used, Quota!MapThenSumSet, Quota!MapThenFoldSet, SumOf, Adder, Adds, Pick, Counted

\* Among subsets of a finite set there is a smallest one.
LEMMA SmallestSet ==
    ASSUME NEW U, IsFiniteSet(U), NEW T, T \subseteq SUBSET U, T # {}
    PROVE  \E s \in T : \A t \in T : t \subseteq s => t = s
<1>1. IsWellFoundedOn(StrictSubsetOrdering(U), SUBSET U)
  BY FS_StrictSubsetOrderingWellFounded, FS_FiniteSubsetsOfFinite
<1>2. PICK s \in T : \A t \in T : <<t, s>> \notin StrictSubsetOrdering(U)
  BY <1>1, WFMin
<1>3. QED
  BY <1>2 DEF StrictSubsetOrdering

\* The recursive function exists for every set, and those of two sets agree
\* where both are defined.
Agrees(f, S) == Adds(Adder(f, S), f, S) /\ \A s \in SUBSET S : Adder(f, S)[s] = SumOf(f, s)

LEMMA PickIn == ASSUME NEW s, s # {} PROVE Pick(s) \in s
BY DEF Pick

LEMMA AgreesUnfold ==
    ASSUME NEW f, NEW S, Agrees(f, S)
    PROVE  SumOf(f, S) = IF S = {} THEN 0 ELSE f[Pick(S)] + SumOf(f, S \ {Pick(S)})
<1>1. Adder(f, S)[S] = IF S = {} THEN 0 ELSE f[Pick(S)] + Adder(f, S)[S \ {Pick(S)}]
  BY DEF Agrees, Adds
<1>2. Adder(f, S)[S \ {Pick(S)}] = SumOf(f, S \ {Pick(S)})
  BY DEF Agrees
<1>3. QED
  BY <1>1, <1>2 DEF SumOf

LEMMA AllAgree ==
    ASSUME NEW U, IsFiniteSet(U), NEW f, NEW S \in SUBSET U
    PROVE  Agrees(f, S)
<1> DEFINE Split == {R \in SUBSET U : ~Agrees(f, R)}
<1> SUFFICES ASSUME Split # {} PROVE FALSE
  OBVIOUS
<1>1. PICK R \in SUBSET U : ~Agrees(f, R) /\ \A t \in SUBSET R : t # R => Agrees(f, t)
  <2>1. PICK R \in Split : \A t \in Split : t \subseteq R => t = R
    <3>1. Split \subseteq SUBSET U
      OBVIOUS
    <3> HIDE DEF Split
    <3>2. QED
      BY <3>1, SmallestSet
  <2>2. QED
    BY <2>1
<1> DEFINE Rest(t) == IF t = {} THEN 0 ELSE f[Pick(t)] + SumOf(f, t \ {Pick(t)})
<1>2. \A t \in SUBSET R : t # R => SumOf(f, t) = Rest(t)
  BY <1>1, AgreesUnfold
<1> DEFINE g == [t \in SUBSET R |-> IF t = R THEN Rest(R) ELSE SumOf(f, t)]
<1>3. Adds(g, f, R)
  <2>1. \A t \in SUBSET R : g[t] = IF t = {} THEN 0 ELSE f[Pick(t)] + g[t \ {Pick(t)}]
    <3> SUFFICES ASSUME NEW t \in SUBSET R
                 PROVE  g[t] = IF t = {} THEN 0 ELSE f[Pick(t)] + g[t \ {Pick(t)}]
      OBVIOUS
    <3>1. g[t] = Rest(t)
      BY <1>2
    <3>2. t # {} => g[t \ {Pick(t)}] = SumOf(f, t \ {Pick(t)})
      BY PickIn
    <3>3. QED
      BY <3>1, <3>2
  <2>2. g = [t \in SUBSET R |-> g[t]]
    OBVIOUS
  <2>3. QED
    BY <2>1, <2>2 DEF Adds
<1>4. Adds(Adder(f, R), f, R)
  BY <1>3 DEF Adder
<1>5. \A t \in SUBSET R : t # R => Adder(f, R)[t] = SumOf(f, t)
  <2> DEFINE Bad == {t \in SUBSET R : t # R /\ Adder(f, R)[t] # SumOf(f, t)}
  <2> SUFFICES ASSUME Bad # {} PROVE FALSE
    OBVIOUS
  <2>1. PICK t \in Bad : \A u \in Bad : u \subseteq t => u = t
    <3>1. Bad \subseteq SUBSET U
      OBVIOUS
    <3> HIDE DEF Bad
    <3>2. QED
      BY <3>1, SmallestSet
  <2>2. t \in SUBSET R /\ t # R /\ Adder(f, R)[t] # SumOf(f, t)
    BY <2>1
  <2>3. Adder(f, R)[t] = IF t = {} THEN 0 ELSE f[Pick(t)] + Adder(f, R)[t \ {Pick(t)}]
    BY <1>4, <2>2 DEF Adds
  <2>4. t # {} => Adder(f, R)[t \ {Pick(t)}] = SumOf(f, t \ {Pick(t)})
    BY <2>1, <2>2, PickIn
  <2>5. QED
    BY <1>2, <2>2, <2>3, <2>4
<1>6. Adder(f, R)[R] = SumOf(f, R)
  BY DEF SumOf
<1>7. QED
  BY <1>1, <1>4, <1>5, <1>6 DEF Agrees

\* The sum, unfolded once; it is a number.
LEMMA SumUnfold ==
    ASSUME NEW U, IsFiniteSet(U), NEW f, NEW S \in SUBSET U
    PROVE  SumOf(f, S) = IF S = {} THEN 0 ELSE f[Pick(S)] + SumOf(f, S \ {Pick(S)})
BY AllAgree, AgreesUnfold

LEMMA SumType ==
    ASSUME NEW U, IsFiniteSet(U), NEW f \in [U -> Nat], NEW S \in SUBSET U
    PROVE  SumOf(f, S) \in Nat
<1> DEFINE Bad == {R \in SUBSET U : SumOf(f, R) \notin Nat}
<1> SUFFICES ASSUME Bad # {} PROVE FALSE
  OBVIOUS
<1>1. PICK R \in Bad : \A t \in Bad : t \subseteq R => t = R
  <2>1. Bad \subseteq SUBSET U
    OBVIOUS
  <2> HIDE DEF Bad
  <2>2. QED
    BY <2>1, SmallestSet
<1>2. R # {} => SumOf(f, R \ {Pick(R)}) \in Nat /\ f[Pick(R)] \in Nat
  BY <1>1, PickIn
<1>3. SumOf(f, R) \in Nat
  <2>1. SumOf(f, R) = IF R = {} THEN 0 ELSE f[Pick(R)] + SumOf(f, R \ {Pick(R)})
    <3>1. R \in SUBSET U
      BY <1>1
    <3>2. QED
      BY <3>1, SumUnfold
  <2>2. QED
    BY <1>2, <2>1
<1>4. QED
  BY <1>1, <1>3

\* Any element may be added last.
LEMMA SumAny ==
    ASSUME NEW U, IsFiniteSet(U), NEW f \in [U -> Nat], NEW S \in SUBSET U, NEW x \in S
    PROVE  SumOf(f, S) = f[x] + SumOf(f, S \ {x})
<1> DEFINE Bad == {R \in SUBSET U : \E y \in R : SumOf(f, R) # f[y] + SumOf(f, R \ {y})}
<1> SUFFICES ASSUME Bad # {} PROVE FALSE
  OBVIOUS
<1>1. PICK R \in Bad : \A t \in Bad : t \subseteq R => t = R
  <2>1. Bad \subseteq SUBSET U
    OBVIOUS
  <2> HIDE DEF Bad
  <2>2. QED
    BY <2>1, SmallestSet
<1>2. PICK y \in R : SumOf(f, R) # f[y] + SumOf(f, R \ {y})
  BY <1>1
<1> DEFINE p == Pick(R)
<1>3. p \in R /\ R \in SUBSET U
  BY <1>1, <1>2, PickIn
<1>4. SumOf(f, R) = f[p] + SumOf(f, R \ {p})
  BY <1>2, <1>3, SumUnfold
<1>5. p # y
  BY <1>2, <1>4
<1>6. \A t \in SUBSET R : t # R => \A z \in t : SumOf(f, t) = f[z] + SumOf(f, t \ {z})
  BY <1>1
<1>7. SumOf(f, R \ {p}) = f[y] + SumOf(f, (R \ {p}) \ {y})
  BY <1>3, <1>5, <1>6
<1>8. SumOf(f, R \ {y}) = f[p] + SumOf(f, (R \ {y}) \ {p})
  BY <1>3, <1>5, <1>6
<1>9. (R \ {p}) \ {y} = (R \ {y}) \ {p}
  OBVIOUS
<1>10. f[p] \in Nat /\ f[y] \in Nat /\ SumOf(f, (R \ {p}) \ {y}) \in Nat
  BY <1>3, SumType
<1>11. SumOf(f, (R \ {p}) \ {y}) = SumOf(f, (R \ {y}) \ {p})
  BY <1>9
<1> HIDE DEF p
<1>12. QED
  BY <1>2, <1>4, <1>7, <1>8, <1>10, <1>11

\* One element less is no more.
LEMMA SumLess ==
    ASSUME NEW U, IsFiniteSet(U), NEW f \in [U -> Nat], NEW S \in SUBSET U, NEW x
    PROVE  SumOf(f, S \ {x}) <= SumOf(f, S)
<1>1. SumOf(f, S \ {x}) \in Nat /\ SumOf(f, S) \in Nat
  BY SumType
<1>2. CASE x \in S
  BY <1>1, <1>2, SumAny
<1>3. CASE x \notin S
  <2>1. S \ {x} = S
    BY <1>3
  <2>2. QED
    BY <1>1, <2>1
<1>4. QED
  BY <1>2, <1>3

-----------------------------------------------------------------------------
(* The quotas.                                                             *)

\* The types of the variables the argument reads.
QuotaTypes ==
    /\ size \in [Writer -> Nat]
    /\ phase \in [Writer -> {"new", "known", "checked", "reserved", "done", "gone"}]
    /\ allowance \in [Writer -> Nat] /\ limit \in [Quota!Resource -> Nat]
    /\ policyRow \in BOOLEAN /\ governed \subseteq Writer

\* A writer that was checked under a policy row holds its lock.
LockInv ==
    \A w \in governed :
        /\ policyRow
        /\ phase[w] \in {"checked", "reserved"}
        /\ phase[w] = "checked" => lock = w

\* And unless somebody who takes no lock has come in between, what it was
\* checked for is still so.
CheckStands ==
    \A w \in governed \ overtaken, r \in Quota!Resource :
        phase[w] = "checked" /\ Quota!Uses(w) = r => Quota!Used(r) + size[w] <= allowance[w]

QuotaInv == QuotaTypes /\ LockInv /\ CheckStands

\* A task and a size stay as they are, and with them what they count towards.
Writers == UNCHANGED <<task, size>>

\* While no row is added to what is counted, a service uses no more.
LEMMA UsedNoMore ==
    ASSUME QuotaTypes, Writers, NEW r, NEW w, Counted(r)' \in {Counted(r), Counted(r) \ {w}}
    PROVE  Quota!Used(r)' <= Quota!Used(r) /\ Quota!Used(r) \in Nat /\ Quota!Used(r)' \in Nat
<1>1. Counted(r) \in SUBSET Writer /\ Counted(r) \ {w} \in SUBSET Writer
  BY DEF Counted
<1>2. size \in [Writer -> Nat] /\ size' = size
  BY DEF QuotaTypes, Writers
<1>3. SumOf(size, Counted(r)) \in Nat /\ SumOf(size, Counted(r) \ {w}) \in Nat
  BY <1>1, <1>2, QuotaAssumption, SumType
<1>4. SumOf(size, Counted(r) \ {w}) <= SumOf(size, Counted(r))
  BY <1>1, <1>2, QuotaAssumption, SumLess
<1>5. Quota!Used(r) = SumOf(size, Counted(r)) /\ Quota!Used(r)' = SumOf(size, Counted(r)')
  BY <1>2, UsedIsSum
<1>6. QED
  BY <1>3, <1>4, <1>5

\* If only w moves, to a phase that is not "done", or a file of w lapses, what is
\* counted loses w at most.
LEMMA CountedWithout ==
    ASSUME QuotaTypes, Writers, NEW w \in Writer, NEW r,
           \A v \in Writer \ {w} : phase'[v] = phase[v],
           phase'[w] # "done" \/ (phase'[w] = phase[w] /\ w \in lapsed'),
           lapsed' \in {lapsed, lapsed \cup {w}, lapsed \ {w}}
    PROVE  Counted(r)' \in {Counted(r), Counted(r) \ {w}}
<1>1. \A v \in Writer : Quota!Uses(v)' = Quota!Uses(v)
  BY DEF Quota!Uses, Writers
<1>2. Counted(r)' = Counted(r) \ {w}
  BY <1>1 DEF Counted
<1>3. QED
  BY <1>2

\* A step that at most takes w from what is counted.
AtMostLoses(w) == \A r \in Quota!Resource : Counted(r)' \in {Counted(r), Counted(r) \ {w}}

\* Whoever was checked stays within its allowance through such a step, and so
\* does whoever is checked in it.
LEMMA StandsStill ==
    ASSUME QuotaInv, Writers, NEW w,
           AtMostLoses(w),
           \A v \in governed' \ overtaken' : phase'[v] = "checked" =>
               /\ v \in Writer /\ allowance'[v] = allowance[v]
               /\ \/ v \in governed \ overtaken /\ phase[v] = "checked"
                  \/ Quota!Used(Quota!Uses(v)) + size[v] <= allowance[v]
    PROVE  CheckStands'
<1>0. ASSUME NEW r \in Quota!Resource
      PROVE  Quota!Used(r)' <= Quota!Used(r) /\ Quota!Used(r) \in Nat /\ Quota!Used(r)' \in Nat
  <2>1. QuotaTypes /\ Counted(r)' \in {Counted(r), Counted(r) \ {w}}
    BY <1>0 DEF QuotaInv, AtMostLoses
  <2>2. QED
    BY <2>1, UsedNoMore
<1> SUFFICES ASSUME NEW v \in governed' \ overtaken', NEW r \in Quota!Resource,
                    phase'[v] = "checked", Quota!Uses(v)' = r
             PROVE  Quota!Used(r)' + size'[v] <= allowance'[v]
  BY DEF CheckStands
<1>1. v \in Writer /\ allowance'[v] = allowance[v] /\ size' = size /\ Quota!Uses(v) = r
  BY DEF Writers, Quota!Uses
<1>2. Quota!Used(r) + size[v] <= allowance[v]
  <2>1. CASE v \in governed \ overtaken /\ phase[v] = "checked"
    BY <1>1, <2>1 DEF QuotaInv, CheckStands
  <2>2. CASE Quota!Used(Quota!Uses(v)) + size[v] <= allowance[v]
    BY <1>1, <2>2
  <2>3. QED
    BY <2>1, <2>2
<1>3. Quota!Used(r)' <= Quota!Used(r) /\ Quota!Used(r) \in Nat /\ Quota!Used(r)' \in Nat
  BY <1>0
<1>4. size[v] \in Nat /\ allowance[v] \in Nat
  BY <1>1 DEF QuotaInv, QuotaTypes
<1>5. QED
  BY <1>1, <1>2, <1>3, <1>4

\* A writer that only now reads its limit is not checked yet.
LEMMA KnowStep ==
    ASSUME QuotaInv, NEW w \in Writer, Quota!Authenticate(w) \/ Quota!ReadPolicy(w)
    PROVE  QuotaInv'
<1>1. Writers /\ phase[w] = "new" /\ phase' = [phase EXCEPT ![w] = "known"]
      /\ \E n \in Nat : allowance' = [allowance EXCEPT ![w] = n]
      /\ UNCHANGED <<policyRow, limit, lock, lapsed, governed, overtaken>>
  BY DEF Quota!Authenticate, Quota!ReadPolicy, Quota!writers, Quota!policy, Quota!ghosts,
         Writers, QuotaInv, QuotaTypes, Quota!Resource, Quota!Uses
<1>2. w \notin governed
  BY <1>1 DEF QuotaInv, LockInv
<1>3. QuotaTypes' /\ LockInv'
  BY <1>1, <1>2 DEF QuotaInv, QuotaTypes, LockInv, Writers
<1>4. AtMostLoses(w)
  BY <1>1, CountedWithout DEF AtMostLoses, QuotaInv, QuotaTypes
<1>5. CheckStands'
  <2>1. \A v \in governed' \ overtaken' : phase'[v] = "checked" =>
            /\ v \in Writer /\ allowance'[v] = allowance[v]
            /\ v \in governed \ overtaken /\ phase[v] = "checked"
    BY <1>1, <1>2 DEF QuotaInv, QuotaTypes
  <2>2. QED
    BY <1>1, <1>4, <2>1, StandsStill
<1>6. QED
  BY <1>3, <1>5 DEF QuotaInv

\* A check under the lock finds nobody else checked; what it allows stands.
LEMMA CheckStep ==
    ASSUME QuotaInv, NEW w \in Writer, Quota!Check(w)
    PROVE  QuotaInv'
<1>1. Writers /\ phase[w] = "known"
      /\ UNCHANGED <<allowance, policyRow, limit, lapsed, overtaken>>
  BY DEF Quota!Check, Quota!writers, Quota!policy, Writers
<1>2. \/ /\ phase' \in {[phase EXCEPT ![w] = "checked"], [phase EXCEPT ![w] = "gone"]}
         /\ UNCHANGED <<lock, governed>>
      \/ /\ phase' = [phase EXCEPT ![w] = "checked"]
         /\ policyRow => lock = Quota!NoWriter /\ lock' = w
         /\ lock' = IF policyRow THEN w ELSE lock
         /\ governed' = IF policyRow THEN governed \cup {w} ELSE governed
         /\ ~(Quota!Used(Quota!Uses(w)) + size[w] > allowance[w])
  BY DEF Quota!Check, Quota!TakesLock
<1>3. w \notin governed
  BY <1>1 DEF QuotaInv, LockInv
<1>4. QuotaTypes'
  BY <1>1, <1>2 DEF QuotaInv, QuotaTypes, Writers
<1>5. LockInv'
  BY <1>1, <1>2, <1>3, QuotaAssumption DEF QuotaInv, QuotaTypes, LockInv, Quota!NoWriter
<1>6. AtMostLoses(w)
  BY <1>1, <1>2, CountedWithout DEF AtMostLoses, QuotaInv, QuotaTypes
<1>7. CheckStands'
  <2>1. w \in governed' => Quota!Used(Quota!Uses(w)) + size[w] <= allowance[w]
    <3>1. Quota!Used(Quota!Uses(w)) \in Nat /\ size[w] \in Nat /\ allowance[w] \in Nat
      <4>1. Counted(Quota!Uses(w)) \in SUBSET Writer
        BY DEF Counted
      <4>2. SumOf(size, Counted(Quota!Uses(w))) \in Nat
        BY <4>1, QuotaAssumption, SumType DEF QuotaInv, QuotaTypes
      <4>3. QED
        BY <4>2, UsedIsSum DEF QuotaInv, QuotaTypes
    <3>2. QED
      BY <1>2, <1>3, <3>1
  <2>2. \A v \in governed' \ overtaken' : phase'[v] = "checked" =>
            /\ v \in Writer /\ allowance'[v] = allowance[v]
            /\ \/ v \in governed \ overtaken /\ phase[v] = "checked"
               \/ Quota!Used(Quota!Uses(v)) + size[v] <= allowance[v]
    BY <1>1, <1>2, <1>3, <2>1 DEF QuotaInv, QuotaTypes
  <2>3. QED
    BY <1>1, <1>6, <2>2, StandsStill
<1>8. QED
  BY <1>4, <1>5, <1>7 DEF QuotaInv

\* A commit under the lock is the only checked writer there is; one without it
\* overtakes the others.
LEMMA CommitStep ==
    ASSUME QuotaInv, NEW w \in Writer, Quota!Commit(w) \/ Quota!PublishOutput(w)
    PROVE  QuotaInv'
<1>1. /\ Writers /\ phase[w] \in {"checked", "reserved"}
      /\ phase' = [phase EXCEPT ![w] = "done"]
      /\ lock' = (IF lock = w THEN Quota!NoWriter ELSE lock)
      /\ allowance' = [allowance EXCEPT ![w] = 0]
      /\ governed' = governed \ {w}
      /\ \/ overtaken' = (overtaken \cup Quota!Pending) \ {w}
         \/ w \in governed /\ phase[w] = "checked"
      /\ UNCHANGED <<policyRow, limit, lapsed>>
  BY DEF Quota!Commit, Quota!PublishOutput, Quota!End, Quota!Unlock, Quota!writers,
         Quota!policy, Writers
<1>2. QuotaTypes'
  BY <1>1 DEF QuotaInv, QuotaTypes, Writers
<1>3. LockInv'
  BY <1>1, QuotaAssumption DEF QuotaInv, QuotaTypes, LockInv, Quota!NoWriter
<1>4. \A v \in governed' \ overtaken' : phase'[v] # "checked"
  BY <1>1 DEF QuotaInv, QuotaTypes, LockInv, Quota!Pending
<1>5. QED
  BY <1>2, <1>3, <1>4 DEF QuotaInv, CheckStands

\* A journal that is reserved lets go of the lock, and a writer that fails of all
\* it had; neither adds to what is counted.
LEMMA LetGoStep ==
    ASSUME QuotaInv, NEW w \in Writer, Quota!Reserve(w) \/ Quota!Abandon(w)
    PROVE  QuotaInv'
<1>1. /\ Writers /\ phase[w] \in {"checked", "reserved"}
      /\ \/ /\ phase' = [phase EXCEPT ![w] = "reserved"]
            /\ UNCHANGED <<allowance, governed, overtaken>>
         \/ /\ phase' = [phase EXCEPT ![w] = "gone"]
            /\ allowance' = [allowance EXCEPT ![w] = 0]
            /\ governed' = governed \ {w} /\ overtaken' = overtaken \ {w}
      /\ lock' = (IF lock = w THEN Quota!NoWriter ELSE lock)
      /\ UNCHANGED <<policyRow, limit, lapsed>>
  BY DEF Quota!Reserve, Quota!Abandon, Quota!End, Quota!Unlock, Quota!writers,
         Quota!policy, Quota!ghosts, Writers
<1>2. QuotaTypes'
  BY <1>1 DEF QuotaInv, QuotaTypes, Writers
<1>3. LockInv'
  BY <1>1 DEF QuotaInv, QuotaTypes, LockInv
<1>4. AtMostLoses(w)
  BY <1>1, CountedWithout DEF AtMostLoses, QuotaInv, QuotaTypes
<1>5. CheckStands'
  <2>1. \A v \in governed' \ overtaken' : phase'[v] = "checked" =>
            /\ v \in Writer /\ allowance'[v] = allowance[v]
            /\ v \in governed \ overtaken /\ phase[v] = "checked"
    BY <1>1 DEF QuotaInv, QuotaTypes
  <2>2. QED
    BY <1>1, <1>4, <2>1, StandsStill
<1>6. QED
  BY <1>2, <1>3, <1>5 DEF QuotaInv

\* Files that lapse or are removed count no more.
LEMMA LapseStep ==
    ASSUME QuotaInv, NEW w \in Writer, Quota!Lapse(w) \/ Quota!Remove(w)
    PROVE  QuotaInv'
<1>1. /\ Writers /\ phase[w] = "done"
      /\ \/ phase' = phase /\ lapsed' = lapsed \cup {w}
         \/ phase' = [phase EXCEPT ![w] = "gone"] /\ lapsed' = lapsed \ {w}
      /\ UNCHANGED <<allowance, policyRow, limit, lock, governed, overtaken>>
  BY DEF Quota!Lapse, Quota!Remove, Quota!writers, Quota!policy, Quota!ghosts, Writers
<1>2. w \notin governed
  BY <1>1 DEF QuotaInv, LockInv
<1>3. QuotaTypes' /\ LockInv'
  BY <1>1, <1>2 DEF QuotaInv, QuotaTypes, LockInv, Writers
<1>4. AtMostLoses(w)
  BY <1>1, CountedWithout DEF AtMostLoses, QuotaInv, QuotaTypes
<1>5. CheckStands'
  <2>1. \A v \in governed' \ overtaken' : phase'[v] = "checked" =>
            /\ v \in Writer /\ allowance'[v] = allowance[v]
            /\ v \in governed \ overtaken /\ phase[v] = "checked"
    BY <1>1, <1>2 DEF QuotaInv, QuotaTypes
  <2>2. QED
    BY <1>1, <1>4, <2>1, StandsStill
<1>6. QED
  BY <1>3, <1>5 DEF QuotaInv

\* A renewal overtakes whoever was checked.
LEMMA RenewStep ==
    ASSUME QuotaInv, NEW w \in Writer, Quota!Renew(w)
    PROVE  QuotaInv'
<1>1. Writers /\ overtaken' = overtaken \cup Quota!Pending
      /\ UNCHANGED <<phase, allowance, policyRow, limit, lock, governed>>
  BY DEF Quota!Renew, Quota!writers, Quota!policy, Writers
<1>2. QuotaTypes' /\ LockInv'
  BY <1>1 DEF QuotaInv, QuotaTypes, LockInv, Writers
<1>3. \A v \in governed' \ overtaken' : phase'[v] # "checked"
  BY <1>1 DEF QuotaInv, QuotaTypes, Quota!Pending
<1>4. QED
  BY <1>2, <1>3 DEF QuotaInv, CheckStands

\* A new limit concerns those who have not read theirs.
LEMMA UpdateStep ==
    ASSUME QuotaInv, NEW s \in Quota!Resource, NEW n \in Allowed, Quota!UpdatePolicy(s, n)
    PROVE  QuotaInv'
<1>1. Writers /\ policyRow' = TRUE /\ limit' = [limit EXCEPT ![s] = n]
      /\ UNCHANGED <<phase, allowance, lock, lapsed, governed, overtaken>>
  BY DEF Quota!UpdatePolicy, Quota!writers, Quota!ghosts, Writers
<1>2. QuotaTypes' /\ LockInv'
  BY <1>1, QuotaAssumption DEF QuotaInv, QuotaTypes, LockInv, Writers
<1>3. \A r : Counted(r)' = Counted(r)
  BY <1>1 DEF Counted, Quota!Uses, Writers
<1>4. CheckStands'
  <2>1. \A v \in governed' \ overtaken' : phase'[v] = "checked" =>
            /\ v \in Writer /\ allowance'[v] = allowance[v]
            /\ v \in governed \ overtaken /\ phase[v] = "checked"
    BY <1>1 DEF QuotaInv, QuotaTypes
  <2>2. QED
    BY <1>1, <1>3, <2>1, StandsStill DEF AtMostLoses
<1>5. QED
  BY <1>2, <1>4 DEF QuotaInv

LEMMA QuotaStep ==
    ASSUME QuotaInv, Quota!Next \/ UNCHANGED quota
    PROVE  QuotaInv'
<1>1. CASE UNCHANGED quota
  <2>1. QuotaTypes' /\ LockInv'
    BY <1>1 DEF quota, QuotaInv, QuotaTypes, LockInv
  <2>2. Writers /\ \A r : Counted(r)' = Counted(r)
    BY <1>1 DEF quota, Writers, Counted, Quota!Uses
  <2>3. \A v \in governed' \ overtaken' : phase'[v] = "checked" =>
            /\ v \in Writer /\ allowance'[v] = allowance[v]
            /\ v \in governed \ overtaken /\ phase[v] = "checked"
    BY <1>1 DEF quota, QuotaInv, QuotaTypes
  <2>4. QED
    BY <2>1, <2>2, <2>3, StandsStill DEF QuotaInv, AtMostLoses
<1>2. QED
  BY <1>1, KnowStep, CheckStep, CommitStep, LetGoStep, LapseStep, RenewStep, UpdateStep
  DEF Quota!Next

\* No writer is governed before its check.
LEMMA QuotaInit == Quota!Init => QuotaInv
<1> SUFFICES ASSUME Quota!Init PROVE QuotaInv
  OBVIOUS
<1>1. size \in [Writer -> Nat]
  BY QuotaAssumption DEF Quota!Init
<1>2. QED
  BY <1>1, QuotaAssumption DEF Quota!Init, QuotaInv, QuotaTypes, LockInv, CheckStands

\* The quota in focus moves by its own actions; out of focus it stands still.
LEMMA QuotaFocus ==
    [Next]_vars => /\ focus = "quota" => Quota!Next \/ UNCHANGED quota
                   /\ focus # "quota" => UNCHANGED quota
                   /\ UNCHANGED focus
BY DEF Next, vars

\* A commit that was checked under the row lock leaves its service within the
\* limit it was checked against, for any writers, sizes and limits, unless a
\* renewal, a journal's output or a writer without a row has come in between
\* (ensure_storage_quota, ensure_daily_job_quota).
THEOREM QuotaIsHeldToCommit == Spec => QuotaHeldToCommit
<1> DEFINE Inv == focus = "quota" => QuotaInv
           Stands == \A w \in governed \ overtaken :
                      phase[w] = "checked" /\ phase'[w] = "done" =>
                          Quota!Used(Quota!Uses(w)) + size[w] <= allowance[w]
<1>1. Init => Inv
  BY QuotaInit DEF Init
<1>2. Inv /\ [Next]_vars => Inv'
  BY QuotaFocus, QuotaStep
<1>3. Inv /\ [Next]_vars => [Stands]_(Quota!quotaVars)
  <2> SUFFICES ASSUME Inv, [Next]_vars PROVE Stands \/ UNCHANGED Quota!quotaVars
    OBVIOUS
  <2>1. CASE focus = "quota"
    <3> SUFFICES ASSUME NEW w \in governed \ overtaken, phase[w] = "checked"
                 PROVE  Quota!Used(Quota!Uses(w)) + size[w] <= allowance[w]
      OBVIOUS
    <3>1. QuotaInv /\ Quota!Uses(w) \in Quota!Resource
      BY <2>1 DEF Quota!Uses, Quota!Resource
    <3>2. QED
      BY <3>1 DEF QuotaInv, CheckStands
  <2>2. CASE focus # "quota"
    BY <2>2, QuotaFocus
    DEF quota, Quota!quotaVars, Quota!writers, Quota!policy, Quota!ghosts
  <2>3. QED
    BY <2>1, <2>2
<1>4. QED
  BY <1>1, <1>2, <1>3, PTL DEF Spec, QuotaHeldToCommit, Quota!QuotaHeldToCommit

\* A writer's task, size and limits are what the service allows, and the lock is
\* held by one of the writers or by nobody (ensure_storage_quota).
THEOREM QuotaTypesHold == Spec => [](focus = "quota" => Quota!TypeOK)
<1> USE DEF Quota!TypeOK, Quota!Resource, Quota!Task, Quota!writers, Quota!policy, Quota!ghosts,
            Quota!Pending, Quota!NoWriter
<1>1. Init => (focus = "quota" => Quota!TypeOK)
  BY DEF Init, Quota!Init
<1>2. ASSUME Quota!TypeOK, NEW w \in Writer, Quota!Authenticate(w) \/ Quota!ReadPolicy(w)
      PROVE  Quota!TypeOK'
  BY <1>2 DEF Quota!Authenticate, Quota!ReadPolicy, Quota!Uses
<1>3. ASSUME Quota!TypeOK, NEW w \in Writer, Quota!Check(w)
      PROVE  Quota!TypeOK'
  BY <1>3 DEF Quota!Check, Quota!TakesLock
<1>4. ASSUME Quota!TypeOK, NEW w \in Writer,
             Quota!Commit(w) \/ Quota!PublishOutput(w) \/ Quota!Abandon(w)
      PROVE  Quota!TypeOK'
  BY <1>4 DEF Quota!Commit, Quota!PublishOutput, Quota!Abandon, Quota!End, Quota!Unlock
<1>5. ASSUME Quota!TypeOK, NEW w \in Writer, Quota!Reserve(w)
      PROVE  Quota!TypeOK'
  BY <1>5 DEF Quota!Reserve, Quota!Unlock
<1>6. ASSUME Quota!TypeOK, NEW w \in Writer, Quota!Lapse(w) \/ Quota!Renew(w) \/ Quota!Remove(w)
      PROVE  Quota!TypeOK'
  BY <1>6 DEF Quota!Lapse, Quota!Renew, Quota!Remove
<1>7. ASSUME Quota!TypeOK, NEW r \in Quota!Resource, NEW n \in Allowed, Quota!UpdatePolicy(r, n)
      PROVE  Quota!TypeOK'
  BY <1>7 DEF Quota!UpdatePolicy
<1>8. ASSUME Quota!TypeOK, UNCHANGED quota
      PROVE  Quota!TypeOK'
  BY <1>8 DEF quota
<1>9. (focus = "quota" => Quota!TypeOK) /\ [Next]_vars => (focus = "quota" => Quota!TypeOK)'
  BY QuotaFocus, <1>2, <1>3, <1>4, <1>5, <1>6, <1>7, <1>8 DEF Quota!Next
<1>10. QED
  BY <1>1, <1>9, PTL DEF Spec
=============================================================================
