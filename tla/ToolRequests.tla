---------------------------- MODULE ToolRequests ----------------------------
(* One job of one tool, from the file it is asked for to the engine that reads
   it: the route admits it, the queue takes it, the worker - another process,
   which read its settings at another time - looks at everything again, and a
   failed job can be retried by the requester or by the bootstrap key, whose
   wildcard scope passes every scope test.  Meanwhile the file expires or is
   erased, and the requester loses the tool's scope: what a person may do is
   computed from roles and settings at every request. *)
EXTENDS ToolCatalog

CONSTANT MaxRetries        \* bound: retries of the job

VARIABLES
    tool,                  \* the operation asked for
    apiFlags, workerFlags, \* the flags of that tool each process started with
    source,                \* FileRecord of the input
    fate,                  \* "live", "expired" (the row remains) or "gone"
    narrowed,              \* the owner lost the scope of the tool
    job                    \* JobRecord

toolVars == <<tool, apiFlags, workerFlags, source, fate, narrowed, job>>

Principal == {"owner", "peer", "root"}
NoSource == [suffix |-> "none", mime |-> "none", size |-> 0, made |-> FALSE]
NoJob == [by |-> "none", inputs |-> 0, status |-> "none", why |-> "none", retries |-> 0]

Secret == {"unlock-pdf", "protect-pdf"}  \* their jobs take a one-time secret
Strict == {op \in Tool : Route[op].strict}
Relevant(op) == Route[op].flags \cup Dispatch[op].flags

RequestTypeOK ==
    /\ tool \in Tool
    /\ apiFlags \in SUBSET Relevant(tool) /\ workerFlags \in SUBSET Relevant(tool)
    /\ source \in [suffix : DOMAIN Upload \cup {"none"}, mime : DOMAIN Upload \cup {"none", "text"},
                   size : Under16..Longer, made : BOOLEAN]
    /\ fate \in {"live", "expired", "gone"} /\ narrowed \in BOOLEAN
    /\ job \in [by : Principal \cup {"none"}, inputs : 0..100,
                status : {"none", "queued", "succeeded", "failed", "cancelled"},
                why : {"none", "unroutable", "missing", "denied", "signature", "engine"},
                retries : 0..MaxRetries]

RequestInit ==
    /\ tool \in Tool
    /\ apiFlags \in SUBSET Relevant(tool) /\ workerFlags \in SUBSET Relevant(tool)
    /\ source = NoSource /\ fate = "live" /\ narrowed = FALSE /\ job = NoJob

(***************************************************************************)
(* The file: uploaded, or the output of an earlier job, which no upload     *)
(* check has seen and no upload limit bounds.                               *)
(***************************************************************************)
SuffixTried == Route[tool].names \cup {".pdf", ".zip", ".txt", ".docx"}
SizeTried   == {length \in Under16..Longer :
                  length \in {M2, Route[tool].low, Route[tool].high, Route[tool].low - 1, Route[tool].high + 1}}

Recognised(flags, suffix, length) ==
    suffix \in DOMAIN Upload /\ Upload[suffix].flags \subseteq flags /\ length <= Upload[suffix].high

UploadFile(suffix, length) ==
    /\ source = NoSource /\ job = NoJob
    /\ length <= M100 /\ Recognised(apiFlags, suffix, length)
    /\ source' = [suffix |-> suffix, mime |-> MimeOf(suffix), size |-> length, made |-> FALSE]
    /\ UNCHANGED <<tool, apiFlags, workerFlags, fate, narrowed, job>>

ProduceFile(suffix, length) ==
    /\ source = NoSource /\ job = NoJob
    /\ suffix \in {OutputSuffix(op) : op \in Tool} \cup {".png", ".jpg"}
    /\ source' = [suffix |-> suffix, mime |-> IF suffix = ".txt" THEN "text" ELSE MimeOf(suffix),
                  size |-> length, made |-> TRUE]
    /\ UNCHANGED <<tool, apiFlags, workerFlags, fate, narrowed, job>>

Expire ==
    /\ source # NoSource /\ fate = "live" /\ fate' = "expired"
    /\ UNCHANGED <<tool, apiFlags, workerFlags, source, narrowed, job>>

(* The cleanup worker takes expired files only; the owner's DELETE is refused
   while an active job reads the file (FileRetention). *)
Erase ==
    /\ source # NoSource /\ fate # "gone"
    /\ fate = "expired" \/ job.status # "queued"
    /\ fate' = "gone"
    /\ UNCHANGED <<tool, apiFlags, workerFlags, source, narrowed, job>>

(***************************************************************************)
(* The request.                                                             *)
(***************************************************************************)
Holds(p, scope) == p # "owner" \/ ~narrowed \/ scope # Route[tool].scope

Owned(p) == p = "owner" \/ (p = "root" /\ tool \notin Strict)

(* _create_job and enqueue_processing_job: an operation the queue has no class
   for leaves a failed job behind. *)
Queued(p, inputs, retries) ==
    LET routed == QueueClass[tool].flags \subseteq apiFlags IN
    job' = [by |-> p, inputs |-> inputs, retries |-> retries,
            status |-> IF routed THEN "queued" ELSE "failed",
            why |-> IF routed THEN "none" ELSE "unroutable"]

Admits(route, input) ==
    /\ fate = "live"
    /\ input.mime \in route.mimes
    /\ route.names = {} \/ input.suffix \in route.names
    /\ route.low <= input.size /\ input.size <= route.high

Submit(p, inputs) ==
    LET route == Route[tool] IN
    /\ job = NoJob
    /\ route.flags \subseteq apiFlags /\ Holds(p, route.scope)
    /\ inputs \in route.least..route.most
    /\ inputs > 0 => source # NoSource /\ Owned(p) /\ Admits(route, source)
    /\ Queued(p, inputs, 0)
    /\ UNCHANGED <<tool, apiFlags, workerFlags, source, fate, narrowed>>

Narrow ==
    /\ ~narrowed /\ job # NoJob /\ narrowed' = TRUE
    /\ UNCHANGED <<tool, apiFlags, workerFlags, source, fate, job>>

(* _require_operation_scope; a tool without a row asks for nothing. *)
AskedNothing(p) == TRUE                  \* mutant: jobs:manage is enough for every tool
Asked(p) ==
    tool \in DOMAIN RetryRule =>
        RetryRule[tool].flags \subseteq apiFlags /\ Holds(p, RetryRule[tool].scope)

(* _owned_job, then the one-time secrets, then the tool's scope; of the inputs
   only their rows are looked at. *)
Retry(p) ==
    /\ job.status \in {"failed", "cancelled"} /\ job.retries < MaxRetries
    /\ p = job.by \/ p = "root"
    /\ tool \notin Secret
    /\ Asked(p)
    /\ job.inputs > 0 => fate # "gone"
    /\ Queued(p, job.inputs, job.retries + 1)
    /\ UNCHANGED <<tool, apiFlags, workerFlags, source, fate, narrowed>>

Cancel ==
    /\ job.status = "queued" /\ job' = [job EXCEPT !.status = "cancelled"]
    /\ UNCHANGED <<tool, apiFlags, workerFlags, source, fate, narrowed>>

(***************************************************************************)
(* The worker.                                                              *)
(***************************************************************************)
PermitsFewer(rule) ==                    \* mutant: off by one at the greatest number of inputs
    /\ rule.flags \subseteq workerFlags
    /\ rule.least <= job.inputs /\ job.inputs < rule.most
PermitsAny(rule) ==                      \* mutant: what the requester owns is not looked at
    /\ rule.flags \subseteq workerFlags
    /\ rule.least <= job.inputs /\ job.inputs <= rule.most
Permits(rule) ==
    /\ rule.flags \subseteq workerFlags
    /\ rule.least <= job.inputs /\ job.inputs <= rule.most
    /\ rule.params \subseteq Route[tool].params /\ (rule.exact => rule.params = Route[tool].params)
    /\ rule.strict => job.by = "owner" /\ fate = "live"
    /\ job.inputs > 0 =>
         /\ rule.mimes = {} \/ source.mime \in rule.mimes
         /\ rule.names = {} \/ source.suffix \in rule.names
         /\ rule.low <= source.size /\ source.size <= rule.high

Verdict ==
    LET rule == Dispatch[tool] IN
    CASE job.inputs > 0 /\ fate = "gone" -> "missing"
      [] (job.inputs = 0 \/ fate # "gone") /\ ~Permits(rule) -> "denied"
      [] OTHER -> IF rule.again /\ ~Recognised(workerFlags, source.suffix, source.size)
                  THEN "signature" ELSE "none"

Refuse ==
    /\ job.status = "queued" /\ Verdict # "none"
    /\ job' = [job EXCEPT !.status = "failed", !.why = Verdict]
    /\ UNCHANGED <<tool, apiFlags, workerFlags, source, fate, narrowed>>

(* The engine reads the file; Opens is what it may do with it. *)
Opens(status, why) ==
    /\ job.status = "queued" /\ Verdict = "none"
    /\ job' = [job EXCEPT !.status = status, !.why = why]
    /\ UNCHANGED <<tool, apiFlags, workerFlags, source, fate, narrowed>>

Convert     == Opens("succeeded", "none")
EngineFails == Opens("failed", "engine")

RequestNext ==
    \/ \E suffix \in SuffixTried, length \in SizeTried : UploadFile(suffix, length) \/ ProduceFile(suffix, length)
    \/ Expire \/ Erase \/ Narrow \/ Cancel \/ Refuse \/ Convert \/ EngineFails
    \/ \E p \in Principal, inputs \in {0, 1, 2, 50, 51, 100} : Submit(p, inputs)
    \/ \E p \in Principal : Retry(p)

RequestSpec == RequestInit /\ [][RequestNext]_toolVars

(***************************************************************************)
(* How the tables have to fit for the properties below to hold.  They are   *)
(* the ones of the code, so that TLC evaluates this for all of the tools.   *)
(***************************************************************************)
(* What the route admits, the dispatch takes. *)
Fits(route, rule) ==
    /\ rule.flags \subseteq route.flags
    /\ rule.least <= route.least /\ route.most <= rule.most
    /\ rule.params \subseteq route.params /\ (rule.exact => rule.params = route.params)
    /\ route.strict => rule.strict \/ rule.most = 0
    /\ rule.strict \/ rule.again => route.least > 0
    /\ route.most > 0 =>
         /\ rule.mimes = {} \/ route.mimes \subseteq rule.mimes
         /\ rule.names = {} \/ (route.names # {} /\ route.names \subseteq rule.names)
         /\ rule.low <= route.low /\ route.high <= rule.high

(* The tools whose retry asks for jobs:manage alone (RetryRule has no row). *)
Unscoped == StagedToPdf \cup DOMAIN NativeInput \cup {"url-to-pdf", "fill-pdf-form", "add-pdf-text",
              "delete-pdf-pages", "reorder-pdf-pages"}
            \cup {op \in Tool : Route[op].flags = {"from_pdf"}}

ASSUME TablesAssumption ==
    \A op \in Tool :
        /\ {Route[op].least, Route[op].most, Route[op].low, Route[op].high} \subseteq Nat
        /\ {Dispatch[op].least, Dispatch[op].most, Dispatch[op].low, Dispatch[op].high} \subseteq Nat
        /\ Fits(Route[op], Dispatch[op])
        /\ QueueClass[op].flags \subseteq Route[op].flags
        /\ op \notin Unscoped \cup Secret =>
             /\ op \in DOMAIN RetryRule /\ Route[op].least > 0
             /\ RetryRule[op].scope = Route[op].scope /\ Route[op].flags \subseteq RetryRule[op].flags

(* Whatever the worker publishes, and every picture of it, has a suffix that
   uploads may have. *)
ASSUME SuffixAssumption ==
    {OutputSuffix(op) : op \in Tool} \cup {".png", ".jpg", ".tiff"} \subseteq DOMAIN Upload

(***************************************************************************)
(* Properties.                                                              *)
(***************************************************************************)
(* The two descriptions of a tool agree: the worker turns away a job the route
   admitted only if something changed in between (the file's time ran out, the
   two processes do not have the same settings), if the job runs for the bootstrap
   key - which may name another's file or retry another's job, where the tool asks
   for the owner - or if the content of a file that no upload check has seen is
   not accepted. *)
RefusalExplained ==
    job.status = "failed" /\ job.why # "engine" =>
        \/ fate # "live"
        \/ apiFlags # workerFlags
        \/ job.by = "root"
        \/ source.made /\ job.why = "signature"

(* Whoever submitted and whoever retried: the engine of a strict tool reads only
   a file of the principal the job runs for, before it expires, and the engine
   of any tool reads only a file its principal may read. *)
OwnLiveFile ==
    [][job.status = "queued" /\ job'.status \in {"succeeded", "failed"} /\ job'.why \in {"none", "engine"}
       /\ job.inputs > 0
         => /\ job.by = "owner" \/ (job.by = "root" /\ tool \notin Strict)
            /\ tool \in Strict => fate = "live"]_toolVars

(* A retry is no way around the endpoint: one who could no longer submit the
   tool - its scope was taken away, the tool is off - cannot run it again by
   retrying an old job, except for the tools in Unscoped. *)
RetryIsNoDetour ==
    [][job'.retries > job.retries /\ tool \notin Unscoped
         => (job'.by = "root" \/ ~narrowed) /\ Route[tool].flags \subseteq apiFlags]_toolVars
=============================================================================
