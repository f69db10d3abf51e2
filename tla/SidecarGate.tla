----------------------------- MODULE SidecarGate -----------------------------
(* The two services beside the worker that take signed requests: the native
   decoder and the URL fetcher.  Both answer each connection in a thread of its
   own, admit a request once - its stamp must be near the service's clock, its
   nonce not among those remembered - and work on few at a time, but they do
   these things in a different order.  Clients sign by their own clocks and a
   request may arrive more than once; one whose client has gone is worked on to
   the end all the same. *)
EXTENDS Naturals, FiniteSets

CONSTANTS
    Request,               \* signed requests, one nonce each
    Connection,            \* connections open at one time or another
    Skew,                  \* MAX_SKEW, MAX_CLOCK_SKEW
    Ttl,                   \* NONCE_TTL, NONCE_LIFETIME
    MaxNonces,             \* MAX_NONCES
    MaxClock               \* bound: the service's clock

VARIABLES
    service,               \* "native" or "url"
    clock,                 \* its time.time()
    stamp,                 \* [Request -> the time it was signed, by its client's clock]
    lease,                 \* the firewall lease is valid (URL fetcher)
    thread, serves, arrived,   \* [Connection -> its thread, its request, now in do_POST]
    seen,                  \* [Request -> expiry of its nonce, 0 if not remembered]
    slots, busy,           \* permits left in the two semaphores
    runs                   \* history: [Request -> times worked on since the service started]

gateVars == <<service, clock, stamp, lease, thread, serves, arrived, seen, slots, busy, runs>>

Slots == [native |-> 2, url |-> 2]     \* 4 and 8 in the code
Busy  == [native |-> 1, url |-> 2]

TypeOK ==
    /\ service \in {"native", "url"} /\ clock \in 0..MaxClock
    /\ stamp \in [Request -> 0..(2 * Skew)] /\ lease \in BOOLEAN
    /\ thread \in [Connection -> {"closed", "headers", "body", "admitted", "working"}]
    /\ serves \in [Connection -> Request] /\ arrived \in [Connection -> 0..MaxClock]
    /\ seen \in [Request -> 0..(MaxClock + Ttl)]
    /\ slots \in 0..Slots[service] /\ busy \in 0..Busy[service]
    /\ runs \in [Request -> Nat]

Started ==
    /\ thread = [c \in Connection |-> "closed"] /\ arrived = [c \in Connection |-> 0]
    /\ serves = [c \in Connection |-> CHOOSE q \in Request : TRUE]
    /\ seen = [q \in Request |-> 0] /\ runs = [q \in Request |-> 0]
    /\ slots = Slots[service] /\ busy = Busy[service]

Init ==
    /\ service \in {"native", "url"} /\ clock = 0 /\ lease = TRUE
    /\ stamp \in [Request -> Skew..(2 * Skew)]
    /\ Started

Move(c, stage) == thread' = [thread EXCEPT ![c] = stage]
Fixed == UNCHANGED <<service, clock, stamp, lease>>

(***************************************************************************)
(* process_request: a permit per connection, given back when its thread     *)
(* ends, however it ends.                                                   *)
(***************************************************************************)
Connect(c, q) ==
    /\ thread[c] = "closed" /\ slots > 0
    /\ slots' = slots - 1 /\ serves' = [serves EXCEPT ![c] = q] /\ Move(c, "headers")
    /\ UNCHANGED <<arrived, seen, busy, runs>> /\ Fixed

Leave(c, given) ==
    /\ Move(c, "closed") /\ slots' = slots + 1 /\ busy' = busy + given
    /\ serves' = [serves EXCEPT ![c] = CHOOSE q \in Request : TRUE]
    /\ arrived' = [arrived EXCEPT ![c] = 0]
    /\ UNCHANGED runs /\ Fixed

(* The permits a thread gives back when it is done before it has worked. *)
GivenNever(c) == 0                         \* mutant: an early return before the finally
GivenAlways(c) == 1                        \* mutant: both services release on every path
Given(c) == IF service = "native" THEN 1 ELSE 0

(***************************************************************************)
(* do_POST.                                                                 *)
(***************************************************************************)
Timely(c) ==
    /\ stamp[serves[c]] <= clock + Skew /\ clock <= stamp[serves[c]] + Skew
    /\ service = "url" => lease

(* The decoder takes its working permit before it reads a byte of the body. *)
ReadHeaders(c) ==
    /\ thread[c] = "headers"
    /\ \/ /\ Timely(c) /\ (service = "native" => busy > 0)
          /\ busy' = IF service = "native" THEN busy - 1 ELSE busy
          /\ arrived' = [arrived EXCEPT ![c] = clock] /\ Move(c, "body")
          /\ UNCHANGED <<serves, seen, slots, runs>> /\ Fixed
       \/ Leave(c, 0) /\ UNCHANGED seen

(* _use_nonce and _check_nonce: one looks at the clock again, the other uses
   the time the headers were read at. *)
NonceTime(c) == IF service = "native" THEN clock ELSE arrived[c]

ExpiryBySkew(c) == NonceTime(c) + Skew     \* mutant: half the window
Expiry(c) == NonceTime(c) + Ttl

Remembered(c) == {q \in Request : seen[q] # 0 /\ seen[q] >= NonceTime(c)}
Fresh(c) == serves[c] \notin Remembered(c) /\ Cardinality(Remembered(c)) < MaxNonces

(* Short, slow or badly signed, replayed, or a table that is full: refused. *)
ReadBody(c) ==
    /\ thread[c] = "body"
    /\ \/ Leave(c, Given(c)) /\ UNCHANGED seen
       \/ /\ ~Fresh(c) /\ Leave(c, Given(c))
          /\ seen' = [q \in Request |-> IF q \in Remembered(c) THEN seen[q] ELSE 0]
       \/ /\ Fresh(c) /\ Move(c, "admitted")
          /\ seen' = [q \in Request |-> IF q \in Remembered(c) THEN seen[q]
                                        ELSE IF q = serves[c] THEN Expiry(c) ELSE 0]
          /\ UNCHANGED <<serves, arrived, slots, busy, runs>> /\ Fixed

Run(c) == runs' = [runs EXCEPT ![serves[c]] = @ + 1]

(* The fetcher takes its working permit now, and looks at the lease again;
   a request turned away here has used its nonce up. *)
Begin(c) ==
    /\ thread[c] = "admitted"
    /\ \/ /\ service = "native" /\ Run(c) /\ Move(c, "working")
          /\ UNCHANGED <<serves, arrived, seen, slots, busy>> /\ Fixed
       \/ /\ service = "url" /\ busy > 0 /\ lease /\ Run(c) /\ Move(c, "working") /\ busy' = busy - 1
          /\ UNCHANGED <<serves, arrived, seen, slots>> /\ Fixed
       \/ /\ service = "url" /\ (busy = 0 \/ ~lease) /\ Leave(c, 0) /\ UNCHANGED seen

(* The answer, a refusal of the source, or a client that is not there any
   more: the permits come back in the finally of each. *)
Finish(c) ==
    /\ thread[c] = "working" /\ Leave(c, 1) /\ UNCHANGED seen

(***************************************************************************)
(* Around it.                                                               *)
(***************************************************************************)
(* The sockets give each read of a body its time, not the whole of it: a body
   that trickles is waited for as long as it does. *)
Tick ==
    /\ clock < MaxClock /\ clock' = clock + 1
    /\ UNCHANGED <<service, stamp, lease, thread, serves, arrived, seen, slots, busy, runs>>

LeaseTurns ==
    /\ service = "url" /\ lease' = ~lease
    /\ UNCHANGED <<service, clock, stamp, thread, serves, arrived, seen, slots, busy, runs>>

(* The process ends and is started again: every thread is gone, and the
   nonces with it. *)
Restart ==
    /\ \E q \in Request : seen[q] # 0
    /\ thread' = [c \in Connection |-> "closed"] /\ arrived' = [c \in Connection |-> 0]
    /\ serves' = [c \in Connection |-> CHOOSE q \in Request : TRUE]
    /\ seen' = [q \in Request |-> 0] /\ runs' = [q \in Request |-> 0]
    /\ slots' = Slots[service] /\ busy' = Busy[service]
    /\ Fixed

Next ==
    \/ \E c \in Connection, q \in Request : Connect(c, q)
    \/ \E c \in Connection : ReadHeaders(c) \/ ReadBody(c) \/ Begin(c) \/ Finish(c)
    \/ Tick \/ LeaseTurns \/ Restart

Spec == Init /\ [][Next]_gateVars

(***************************************************************************)
(* Properties.                                                              *)
(***************************************************************************)
(* Working on a request, or about to. *)
LetIn(c, q) == thread[c] = "admitted" /\ serves[c] = q
Spent(q) == runs[q] > 0 \/ \E c \in Connection : LetIn(c, q)

(* What the time to live has to spare over the time a stamp can pass. *)
Spare == Ttl - 2 * Skew

(* However often a signed request arrives and whichever way the clocks differ,
   a service lets it in once in its life: its nonce is not forgotten while its
   stamp can still pass, nor for a Spare longer.  The exception is a repeat whose
   headers came in time and whose body then trickled in for more than Spare,
   while the nonce was dropped: nothing bounds a whole body's time. *)
LetInAgain(c) == thread[c] = "body" /\ thread'[c] = "admitted" /\ Spent(serves[c])
OnlyTrickled == \A c \in Connection : LetInAgain(c) => clock > arrived[c] + Spare
WorkedOnOnce == [][OnlyTrickled]_gateVars

(* No order of refusals, clients that leave and requests turned away loses a
   permit or makes one: what is missing from the semaphores is what the threads
   in the service hold, so an idle service can always take its full number. *)
PermitsReturn ==
    /\ slots + Cardinality({c \in Connection : thread[c] # "closed"}) = Slots[service]
    /\ busy + Cardinality({c \in Connection :
                 thread[c] = "working" \/ (service = "native" /\ thread[c] \in {"body", "admitted"})}) = Busy[service]
=============================================================================
