------------------------------ MODULE MCServices ------------------------------
(* The parts of the system that share no state with each other, checked in one
   exploration: a behaviour has one of them in focus and the others stand
   still.  What each assumes of its constants is assumed here. *)
EXTENDS ToolRequests, FiniteSets

CONSTANTS
    Secretive, Delivery,                        \* CredentialHandoff
    Writer, MaxSize, Allowed,                   \* ServiceQuota
    Call, PerMinute, MaxTime,                   \* RateLimit
    Attempts,                                   \* ConversionStages
    Depth, MaxPictures, MaxHidden,              \* HtmlBoundaries
    Request, Connection, Skew, Ttl, MaxNonces, MaxClock, \* SidecarGate
    Parts, MaxAnswers,                          \* ResultViews
    Clerk,                                      \* PaperlessArchive
    Person, SessionTtl, StateTtl, LastTick, MaxEvents \* Sessions

(* A nonce is remembered for the whole time its stamp can pass: 180 s against
   twice 75 s in the decoder, 100 s against twice 45 s in the URL fetcher. *)
ASSUME TtlAssumption ==
    Skew \in Nat /\ MaxClock \in Nat /\ Ttl \in Nat \ {0} /\ Ttl >= 2 * Skew

(* There are requests, and finitely many connections. *)
ASSUME GateAssumption == Request # {} /\ IsFiniteSet(Connection)

(* Finitely many writers, none of them called what an open lock is called; a
   limit is a number of jobs or bytes. *)
ASSUME QuotaAssumption ==
    IsFiniteSet(Writer) /\ "nobody" \notin Writer /\ MaxSize \in Nat /\ Allowed \subseteq Nat

(* Finitely many calls are made; a limit is a number. *)
ASSUME RateAssumption == IsFiniteSet(Call) /\ PerMinute \subseteq Nat /\ MaxTime \in Nat

(* Attempts are numbered from 1. *)
ASSUME AttemptsAssumption == 1 \in Attempts /\ Attempts \subseteq Nat \ {0}

(* MAX_DEPTH and MAX_IMAGES are numbers. *)
ASSUME ReaderAssumption == Depth \in Nat /\ MaxPictures \in Nat

(* Time is counted in ticks. *)
ASSUME SessionAssumption == SessionTtl \in Nat /\ StateTtl \in Nat /\ LastTick \in Nat

(* Finitely many clerks archive a file; the other bounds are numbers. *)
ASSUME BoundAssumption ==
    MaxAnswers \in Nat /\ MaxEvents \in Nat /\ MaxRetries \in Nat /\ IsFiniteSet(Clerk)

VARIABLES
    focus,
    kind, submission, state, queueId, delivered, sealed, attempt, took, cancel, unerased,
    task, size, phase, allowance, policyRow, limit, lock, lapsed, governed, overtaken,
    perMinute, time, bucket, rank, verdict, count, deadline,
    engine, flaw, fenced, at, file, digest, published, overlap,
    markup, chapter, hidden, opened, said, drawn, wrapped, boundary, covers, astray, stage,
    service, clock, stamp, lease, thread, serves, arrived, seen, slots, busy, runs,
    files, expired, due, links, output, known, step, linked, got, stood, cleared, answer, answers,
    record, row, progress, loaded, receipt, accepted, announced,
    settings, directory, held, now, events, cookie, pending, codes, redeemed, callback, signedIn, crossed

Handoff == INSTANCE CredentialHandoff
Quota == INSTANCE ServiceQuota
Rate == INSTANCE RateLimit
Stages == INSTANCE ConversionStages
Boundaries == INSTANCE HtmlBoundaries
Gate == INSTANCE SidecarGate
Views == INSTANCE ResultViews
Archive == INSTANCE PaperlessArchive
SignIn == INSTANCE Sessions

handoff == <<kind, submission, state, queueId, delivered, sealed, attempt, took, cancel, unerased>>
quota == <<task, size, phase, allowance, policyRow, limit, lock, lapsed, governed, overtaken>>
rate == <<perMinute, time, bucket, rank, verdict, count, deadline>>
conversion == <<engine, flaw, fenced, at, file, digest, published, overlap>>
html == <<markup, chapter, hidden, opened, said, drawn, wrapped, boundary, covers, astray, stage>>
sidecar == <<service, clock, stamp, lease, thread, serves, arrived, seen, slots, busy, runs>>
views == <<files, expired, due, links, output, known, step, linked, got, stood, cleared, answer, answers>>
archive == <<record, row, progress, loaded, receipt, accepted, announced>>
sessions == <<settings, directory, held, now, events, cookie, pending, codes, redeemed, callback, signedIn, crossed>>

vars == <<focus, handoff, quota, rate, toolVars, conversion, html, sidecar, views, archive, sessions>>

HandoffOff ==
    kind = {} /\ submission = {} /\ state = {} /\ queueId = {} /\ delivered = {} /\
    sealed = {} /\ attempt = {} /\ took = {} /\ cancel = {} /\ unerased = {}
QuotaOff ==
    task = {} /\ size = {} /\ phase = {} /\ allowance = {} /\ policyRow = {} /\ limit = {}
    /\ lock = {} /\ lapsed = {} /\ governed = {} /\ overtaken = {}
RateOff ==
    perMinute = {} /\ time = {} /\ bucket = {} /\ rank = {} /\ verdict = {} /\ count = {} /\ deadline = {}
RequestOff ==
    tool = "merge" /\ apiFlags = {} /\ workerFlags = {} /\ source = NoSource /\
    fate = "live" /\ narrowed = FALSE /\ job = NoJob
StagesOff ==
    engine = {} /\ flaw = {} /\ fenced = {} /\ at = [a \in Attempts |-> "idle"] /\
    file = {} /\ digest = {} /\ published = {} /\ overlap = {}
BoundariesOff ==
    markup = {} /\ chapter = {} /\ hidden = {} /\ opened = {} /\ said = {} /\ drawn = {}
    /\ wrapped = {} /\ boundary = {} /\ covers = {} /\ astray = {} /\ stage = {}
GateOff ==
    service = {} /\ clock = {} /\ stamp = {} /\ lease = {} /\ thread = {} /\ serves = {}
    /\ arrived = {} /\ seen = {} /\ slots = {} /\ busy = {} /\ runs = {}
ViewsOff ==
    files = {} /\ expired = {} /\ due = {} /\ links = {} /\ output = {} /\ known = {} /\
    step = {} /\ linked = {} /\ got = {} /\ stood = {} /\ cleared = {} /\ answer = {} /\
    answers = 0
ArchiveOff ==
    record = {} /\ row = {} /\ progress = {} /\ loaded = {} /\ receipt = {} /\
    accepted = {} /\ announced = {}
SignInOff ==
    settings = {} /\ directory = {} /\ held = {} /\ now = {} /\ events = {} /\ cookie = {}
    /\ pending = {} /\ codes = {} /\ redeemed = {} /\ callback = {} /\ signedIn = {} /\
    crossed = {}

Init ==
    \/ focus = "handoff" /\ Handoff!Init /\ QuotaOff /\ RateOff /\ RequestOff /\ StagesOff /\ BoundariesOff /\ GateOff /\ ViewsOff /\ ArchiveOff /\ SignInOff
    \/ focus = "quota" /\ Quota!Init /\ HandoffOff /\ RateOff /\ RequestOff /\ StagesOff /\ BoundariesOff /\ GateOff /\ ViewsOff /\ ArchiveOff /\ SignInOff
    \/ focus = "rate" /\ Rate!Init /\ HandoffOff /\ QuotaOff /\ RequestOff /\ StagesOff /\ BoundariesOff /\ GateOff /\ ViewsOff /\ ArchiveOff /\ SignInOff
    \/ focus = "requests" /\ RequestInit /\ HandoffOff /\ QuotaOff /\ RateOff /\ StagesOff /\ BoundariesOff /\ GateOff /\ ViewsOff /\ ArchiveOff /\ SignInOff
    \/ focus = "conversion" /\ Stages!Init /\ HandoffOff /\ QuotaOff /\ RateOff /\ RequestOff /\ BoundariesOff /\ GateOff /\ ViewsOff /\ ArchiveOff /\ SignInOff
    \/ focus = "html" /\ Boundaries!Init /\ HandoffOff /\ QuotaOff /\ RateOff /\ RequestOff /\ StagesOff /\ GateOff /\ ViewsOff /\ ArchiveOff /\ SignInOff
    \/ focus = "sidecar" /\ Gate!Init /\ HandoffOff /\ QuotaOff /\ RateOff /\ RequestOff /\ StagesOff /\ BoundariesOff /\ ViewsOff /\ ArchiveOff /\ SignInOff
    \/ focus = "views" /\ Views!Init /\ HandoffOff /\ QuotaOff /\ RateOff /\ RequestOff /\ StagesOff /\ BoundariesOff /\ GateOff /\ ArchiveOff /\ SignInOff
    \/ focus = "archive" /\ Archive!Init /\ HandoffOff /\ QuotaOff /\ RateOff /\ RequestOff /\ StagesOff /\ BoundariesOff /\ GateOff /\ ViewsOff /\ SignInOff
    \/ focus = "sessions" /\ SignIn!Init /\ HandoffOff /\ QuotaOff /\ RateOff /\ RequestOff /\ StagesOff /\ BoundariesOff /\ GateOff /\ ViewsOff /\ ArchiveOff

Next ==
    \/ focus = "handoff" /\ Handoff!Next /\ UNCHANGED <<focus, quota, rate, toolVars, conversion, html, sidecar, views, archive, sessions>>
    \/ focus = "quota" /\ Quota!Next /\ UNCHANGED <<focus, handoff, rate, toolVars, conversion, html, sidecar, views, archive, sessions>>
    \/ focus = "rate" /\ Rate!Next /\ UNCHANGED <<focus, handoff, quota, toolVars, conversion, html, sidecar, views, archive, sessions>>
    \/ focus = "requests" /\ RequestNext /\ UNCHANGED <<focus, handoff, quota, rate, conversion, html, sidecar, views, archive, sessions>>
    \/ focus = "conversion" /\ Stages!Next /\ UNCHANGED <<focus, handoff, quota, rate, toolVars, html, sidecar, views, archive, sessions>>
    \/ focus = "html" /\ Boundaries!Next /\ UNCHANGED <<focus, handoff, quota, rate, toolVars, conversion, sidecar, views, archive, sessions>>
    \/ focus = "sidecar" /\ Gate!Next /\ UNCHANGED <<focus, handoff, quota, rate, toolVars, conversion, html, views, archive, sessions>>
    \/ focus = "views" /\ Views!Next /\ UNCHANGED <<focus, handoff, quota, rate, toolVars, conversion, html, sidecar, archive, sessions>>
    \/ focus = "archive" /\ Archive!Next /\ UNCHANGED <<focus, handoff, quota, rate, toolVars, conversion, html, sidecar, views, sessions>>
    \/ focus = "sessions" /\ SignIn!Next /\ UNCHANGED <<focus, handoff, quota, rate, toolVars, conversion, html, sidecar, views, archive>>

Spec == Init /\ [][Next]_vars

(* The state of the part in focus has its type. *)
TypeOK ==
    /\ focus = "handoff" => Handoff!TypeOK
    /\ focus = "quota" => Quota!TypeOK
    /\ focus = "rate" => Rate!TypeOK
    /\ focus = "requests" => RequestTypeOK
    /\ focus = "conversion" => Stages!TypeOK
    /\ focus = "html" => Boundaries!TypeOK
    /\ focus = "sidecar" => Gate!TypeOK
    /\ focus = "views" => Views!TypeOK
    /\ focus = "archive" => Archive!TypeOK
    /\ focus = "sessions" => SignIn!TypeOK

(* A password or credential pair is taken from the hand-off at most once,
   however often the job is delivered (take_password, take_credentials). *)
OneUse == focus = "handoff" => Handoff!OneUse

(* A job that has ended, or whose submission was refused, has no secret left in
   Valkey, except until its time to live is over: where an erasure failed, the
   API died before it, or a delivery failed without the secret, which nobody
   erases then although the job cannot be retried (cancel_job,
   unlock_pdf_request, process_job). *)
SecretGone == focus = "handoff" => Handoff!SecretGone

(* In one minute no more calls pass ensure_rate_limit than the policy allows. *)
RateHeld == focus = "rate" => Rate!RateHeld

(* A quota that was checked under the policy lock still holds when the row it
   was checked for is committed (ensure_storage_quota, ensure_daily_job_quota). *)
QuotaHeldToCommit == Quota!QuotaHeldToCommit

(* The object a job records is the whole product of the attempt that records
   it, within its engine's budgets (process_job, every converter). *)
PublishedIsWhole == focus = "conversion" => Stages!PublishedIsWhole

(* What a low-trust reader finishes, the parser behind it accepts (the URL and
   CHM boundaries). *)
BoundaryAgrees == focus = "html" => Boundaries!BoundaryAgrees

(* A finished document shows what a browser would, less what is suppressed
   (the URL, CHM and HTML readers). *)
NothingLost == focus = "html" => Boundaries!NothingLost

(* A signed request is let in once, however often it arrives, unless a repeat's
   body takes longer than the nonce has to spare (the nonces of the decoder and
   the URL fetcher). *)
WorkedOnOnce == [][focus = "sidecar" => Gate!OnlyTrickled]_sidecar

(* Every permit of the two semaphores is held by a thread or free (the decoder
   and the URL fetcher). *)
PermitsReturn == focus = "sidecar" => Gate!PermitsReturn

(* A listing of a job's artifacts that is answered with 200 is the bundle and the
   parts up to some number, as they stood at one moment (get_job_artifacts
   against deletion, cleanup and the cleared history). *)
ListingUnbroken == Views!ListingUnbroken

(* The archive row tells what happened to the document, and archiving does not
   keep a job from being announced (_auto_archive, archive_job_output). *)
ArchiveTold == focus = "archive" => Archive!ArchiveTold

(* A session stands for a sign-in of its owner, as to role and name
   (decode_session_token against identity_from_claims). *)
SessionIsSignIn == focus = "sessions" => SignIn!SessionIsSignIn

(* One login signs in once (complete_oidc_callback). *)
OneSessionPerLogin == focus = "sessions" => SignIn!OneSessionPerLogin

Symmetry == Permutations(Writer) \cup Permutations(Call) \cup Permutations(Connection)
=============================================================================
