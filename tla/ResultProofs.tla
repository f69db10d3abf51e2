---------------------------- MODULE ResultProofs ----------------------------
(***************************************************************************)
(* Theorems about a result: its listing while its files go away, its       *)
(* archiving by any number of clerks beside the worker, and its making, by *)
(* every converter there is and any number of attempts at the job.         *)
(***************************************************************************)
EXTENDS MCServices, FiniteSetTheorems, TLAPS

-----------------------------------------------------------------------------
(* The listing.                                                            *)

\* A job in the history has a link to each of its files; a cleared one has none.
LinksInv ==
    /\ known \in BOOLEAN
    /\ known => links = files
    /\ ~known => links = {}

\* A listing that has read the job finds it cleared, if it is gone by now; one
\* that has read the links has read them all.
ListingInv ==
    /\ (step = "job" /\ ~known) => cleared
    /\ step = "files" => linked = stood
    /\ answers \in Nat

ViewsInv == LinksInv /\ ListingInv

\* The files go, and the links with them.
LEMMA StoreStep ==
    ASSUME ViewsInv,
           \/ \E f \in Views!Artifact : Views!DeleteFile(f) \/ Views!Expire(f) \/ Views!KeepFile(f)
           \/ Views!CleanList \/ Views!CleanPurge \/ Views!ClearHistory
    PROVE  ViewsInv' /\ answers' = answers
<1>1. \/ /\ UNCHANGED <<known, cleared>>
         /\ \E gone : files' = files \ gone /\ links' = links \ gone
      \/ UNCHANGED <<known, cleared, files, links>>
      \/ known' = FALSE /\ links' = {} /\ cleared' = (cleared \/ step # "idle")
  BY DEF Views!DeleteFile, Views!Expire, Views!KeepFile, Views!CleanList, Views!CleanPurge,
         Views!ClearHistory
<1>2. UNCHANGED <<step, linked, stood, answers>>
  BY DEF Views!DeleteFile, Views!Expire, Views!KeepFile, Views!CleanList, Views!CleanPurge,
         Views!ClearHistory, Views!Listing
<1>3. LinksInv'
  <2>1. CASE UNCHANGED known /\ \E gone : files' = files \ gone /\ links' = links \ gone
    BY <2>1 DEF ViewsInv, LinksInv
  <2>2. CASE UNCHANGED <<known, files, links>>
    BY <2>2 DEF ViewsInv, LinksInv
  <2>3. CASE known' = FALSE /\ links' = {}
    BY <2>3 DEF LinksInv
  <2>4. QED
    BY <1>1, <2>1, <2>2, <2>3
<1>4. ListingInv'
  BY <1>1, <1>2 DEF ViewsInv, ListingInv
<1>5. QED
  BY <1>2, <1>3, <1>4 DEF ViewsInv

\* An answer of 200 is whole.
WholeAnswer ==
    answer' = "200" =>
        /\ Views!Bundle \in got' /\ Views!Contiguous(got' \ {Views!Bundle})
        /\ got' = stood' \/ (cleared /\ got' = {Views!Bundle})

\* The first query answers that there is nothing, or leaves the listing with the
\* job.
LEMMA ReadJobStep ==
    ASSUME ViewsInv, Views!ReadJob
    PROVE  ViewsInv' /\ (answers' > answers => WholeAnswer)
<1>1. UNCHANGED <<files, links, known>>
  BY DEF Views!ReadJob, Views!Store
<1>2. \/ step' = "idle" /\ answer' # "200"
      \/ step' = "job" /\ known /\ answers' = answers
  BY DEF Views!ReadJob, Views!Answer
<1>3. answers' \in Nat
  BY DEF Views!ReadJob, Views!Answer, ViewsInv, ListingInv
<1>4. ViewsInv'
  BY <1>1, <1>2, <1>3 DEF ViewsInv, LinksInv, ListingInv
<1>5. answers' > answers => WholeAnswer
  BY <1>2 DEF ViewsInv, ListingInv, WholeAnswer
<1>6. QED
  BY <1>4, <1>5

\* The second reads every file there is, or finds the history cleared.
LEMMA ReadLinksStep ==
    ASSUME ViewsInv, Views!ReadLinks
    PROVE  ViewsInv' /\ (answers' > answers => WholeAnswer)
<1>1. step = "job" /\ linked' = links /\ stood' = files /\ UNCHANGED <<files, links, known, cleared>>
  BY DEF Views!ReadLinks, Views!Store
<1>2. \/ links # {} /\ step' = "files" /\ UNCHANGED answers
      \/ links = {} /\ Views!Bundle \in files /\ step' = "idle" /\ got' = {Views!Bundle}
      \/ step' = "idle" /\ answer' = "410"
  BY DEF Views!ReadLinks, Views!Answer
<1>nat. answers' \in Nat
  BY DEF Views!ReadLinks, Views!Answer, ViewsInv, ListingInv
<1>3. ViewsInv'
  BY <1>nat, <1>1, <1>2 DEF ViewsInv, LinksInv, ListingInv
<1>4. ASSUME answers' > answers, answer' = "200"
      PROVE  cleared /\ got' = {Views!Bundle}
  BY <1>1, <1>2, <1>4 DEF ViewsInv, LinksInv, ListingInv
<1>5. Views!Contiguous({})
  <2>1. Views!Cardinality({}) = 0
    BY FS_EmptySet DEF Views!Cardinality, Cardinality
  <2>2. QED
    BY <2>1 DEF Views!Contiguous
<1>6. QED
  BY <1>3, <1>4, <1>5 DEF WholeAnswer

\* The third goes on while the files are there, and answers with all of them.
LEMMA ReadFileStep ==
    ASSUME ViewsInv, Views!ReadFile
    PROVE  ViewsInv' /\ (answers' > answers => WholeAnswer)
<1>1. step = "files" /\ UNCHANGED <<files, links, known, stood, cleared>>
  BY DEF Views!ReadFile, Views!Store
<1>2. \/ linked = got /\ answer' = Views!Inspected(got) /\ got' = got /\ step' = "idle"
      \/ step' = "idle" /\ answer' = "410"
      \/ UNCHANGED <<linked, step, answer, answers>>
  BY DEF Views!ReadFile, Views!Answer, Views!Missing
<1>nat. answers' \in Nat
  BY DEF Views!ReadFile, Views!Answer, Views!Missing, ViewsInv, ListingInv
<1>3. ViewsInv'
  BY <1>nat, <1>1, <1>2 DEF ViewsInv, LinksInv, ListingInv
<1>4. Views!Inspected(got) = "200" => Views!Bundle \in got /\ Views!Contiguous(got \ {Views!Bundle})
  BY DEF Views!Inspected
<1>5. answers' > answers => WholeAnswer
  BY <1>1, <1>2, <1>4 DEF ViewsInv, ListingInv, WholeAnswer
<1>6. QED
  BY <1>3, <1>5

LEMMA ViewsStep ==
    ASSUME ViewsInv, Views!Next
    PROVE  ViewsInv' /\ (answers' > answers => WholeAnswer)
<1>1. CASE Views!ReadJob
  BY <1>1, ReadJobStep
<1>2. CASE Views!ReadLinks
  BY <1>2, ReadLinksStep
<1>3. CASE Views!ReadFile
  BY <1>3, ReadFileStep
<1>4. CASE ~(Views!ReadJob \/ Views!ReadLinks \/ Views!ReadFile)
  <2>1. ViewsInv' /\ answers' = answers
    BY <1>4, StoreStep DEF Views!Next
  <2>2. QED
    BY <2>1 DEF ViewsInv, ListingInv
<1>5. QED
  BY <1>1, <1>2, <1>3, <1>4

\* The listing in focus moves by its own actions; out of focus it stands still.
LEMMA ViewsFocus ==
    [Next]_vars => /\ focus = "views" => Views!Next \/ UNCHANGED views
                   /\ focus # "views" => UNCHANGED views
                   /\ UNCHANGED focus
BY DEF Next, vars

\* An answered listing has no hole and is of one moment, for any number of parts
\* and of listings, whatever is deleted, purged, kept or cleared between its
\* queries; what was gone from the end before is not told (get_job_artifacts).
THEOREM ListingIsUnbroken == Spec => ListingUnbroken
<1> DEFINE Inv == focus = "views" => ViewsInv
<1>1. Init => Inv
  BY DEF Init, Views!Init, ViewsInv, LinksInv, ListingInv
<1>2. Inv /\ [Next]_vars => Inv'
  <2>1. ViewsInv /\ UNCHANGED views => ViewsInv'
    BY DEF views, ViewsInv, LinksInv, ListingInv
  <2>2. QED
    BY <2>1, ViewsFocus, ViewsStep
<1>3. Inv /\ [Next]_vars =>
        [answers' > answers /\ answer' = "200" =>
          /\ Views!Bundle \in got' /\ Views!Contiguous(got' \ {Views!Bundle})
          /\ got' = stood' \/ (cleared /\ got' = {Views!Bundle})]_(Views!viewVars)
  <2>1. UNCHANGED views => UNCHANGED Views!viewVars
    BY DEF views, Views!viewVars
  <2>2. QED
    BY <2>1, ViewsFocus, ViewsStep DEF WholeAnswer
<1>4. QED
  BY <1>1, <1>2, <1>3, PTL DEF Spec, ListingUnbroken, Views!ListingUnbroken

\* A listing under way is one of those asked for.
CountedInv == Views!TypeOK /\ (step # "idle" => answers < MaxAnswers)

\* The variables of a listing keep their types at every query, and at every
\* change of the files.
LEMMA CountedStep ==
    ASSUME CountedInv, Views!Next \/ UNCHANGED views
    PROVE  CountedInv'
<1>1. CASE UNCHANGED views
  BY <1>1 DEF views, CountedInv, Views!TypeOK
<1>2. ASSUME NEW f \in Views!Artifact, Views!DeleteFile(f)
      PROVE  CountedInv'
  <2>1. output' \in BOOLEAN
    BY <1>2 DEF Views!DeleteFile
  <2>2. QED
    BY <1>2, <2>1 DEF Views!DeleteFile, Views!Listing, CountedInv, Views!TypeOK
<1>3. ASSUME NEW f \in Views!Artifact, Views!Expire(f) \/ Views!KeepFile(f)
      PROVE  CountedInv'
  BY <1>3 DEF Views!Expire, Views!KeepFile, Views!Listing, CountedInv, Views!TypeOK
<1>4. CASE Views!CleanList \/ Views!CleanPurge
  BY <1>4 DEF Views!CleanList, Views!CleanPurge, Views!Listing, CountedInv, Views!TypeOK
<1>5. CASE Views!ClearHistory
  <2>1. cleared' \in BOOLEAN
    BY <1>5 DEF Views!ClearHistory
  <2>2. QED
    BY <1>5, <2>1 DEF Views!ClearHistory, Views!Listing, CountedInv, Views!TypeOK
<1>6. CASE Views!ReadJob
  <2>1. /\ step = "idle" /\ answers < MaxAnswers /\ UNCHANGED Views!Store
        /\ cleared' = FALSE /\ linked' = {} /\ stood' = {} /\ got' = {}
        /\ \/ step' = "idle" /\ answers' = answers + 1 /\ answer' \in {"404", "410"}
           \/ step' = "job" /\ UNCHANGED <<answer, answers>>
    BY <1>6 DEF Views!ReadJob, Views!Answer
  <2>2. cleared' \in BOOLEAN
    BY <2>1
  <2>3. QED
    BY <2>1, <2>2, BoundAssumption DEF Views!Store, CountedInv, Views!TypeOK
<1>7. CASE Views!ReadLinks \/ Views!ReadFile
  <2>1. /\ step # "idle" /\ UNCHANGED <<Views!Store, cleared>>
        /\ \/ UNCHANGED <<answer, answers>> /\ step' \in {step, "files"}
           \/ step' = "idle" /\ answers' = answers + 1 /\ answer' \in {"200", "409", "410"}
    BY <1>7 DEF Views!ReadLinks, Views!ReadFile, Views!Answer, Views!Missing, Views!Inspected
  <2>2. /\ linked' \subseteq Views!Artifact /\ stood' \subseteq Views!Artifact
        /\ got' \subseteq Views!Artifact
    BY <1>7 DEF Views!ReadLinks, Views!ReadFile, Views!Answer, Views!Missing, CountedInv, Views!TypeOK
  <2>3. QED
    BY <2>1, <2>2, BoundAssumption DEF Views!Store, CountedInv, Views!TypeOK
<1>8. QED
  BY <1>1, <1>2, <1>3, <1>4, <1>5, <1>6, <1>7 DEF Views!Next

\* The variables of a listing have their types, and no more listings are counted
\* than are asked for (get_job_artifacts).
THEOREM ViewsTypesHold == Spec => [](focus = "views" => Views!TypeOK)
<1> DEFINE Inv == focus = "views" => CountedInv
<1>1. Init => Inv
  <2>1. Views!Init => answers \in 0..MaxAnswers
    BY BoundAssumption DEF Views!Init
  <2>2. Views!Init => output \in BOOLEAN /\ known \in BOOLEAN /\ cleared \in BOOLEAN
    BY Zenon DEF Views!Init
  <2>3. Views!Init => CountedInv
    BY <2>1, <2>2 DEF Views!Init, CountedInv, Views!TypeOK
  <2>4. QED
    BY <2>3 DEF Init
<1>2. Inv /\ [Next]_vars => Inv'
  BY ViewsFocus, CountedStep
<1>3. Inv => (focus = "views" => Views!TypeOK)
  BY DEF CountedInv
<1>4. QED
  BY <1>1, <1>2, <1>3, PTL DEF Spec

-----------------------------------------------------------------------------
(* The archive.                                                            *)

\* The types the argument reads; the numbers without their bounds.
ArchiveRow == [by : Archive!Actor \cup {"none"},
               status : {"none", "submitting", "submitted", "failed"}, external : Nat]

ArchiveTypes ==
    /\ record \in BOOLEAN
    /\ row \in ArchiveRow
    /\ progress \in [Archive!Actor -> Archive!Over \cup {"idle", "looked", "posting", "posted", "failing"}]
    /\ loaded \in [Archive!Actor -> ArchiveRow]
    /\ receipt \in [Archive!Actor -> Nat] /\ accepted \in Nat

\* A receipt, and what a row says Paperless has taken, are of a document it took.
ReceiptInv ==
    /\ \A a \in Archive!Actor : progress[a] = "posted" => receipt[a] \in 1..accepted
    /\ row.status = "submitted" => row.external \in 1..accepted

\* Who still has to say what became of the row, and will write it: it has the row
\* there is, and its copy does not say "submitted" yet.
Owes(a) ==
    \/ progress[a] = "dead"
    \/ /\ progress[a] \in {"posting", "posted", "failing"}
       /\ row.by = loaded[a].by /\ loaded[a].status # "submitted"

SubmittingInv == row.status = "submitting" => \E a \in Archive!Actor : Owes(a)

\* A row was inserted by somebody who went on from there, and while the file is
\* there, so is a row somebody has loaded.
LoadedInv ==
    /\ row # Archive!NoRow =>
          row.by \in Archive!Actor /\ progress[row.by] \notin {"idle", "looked"} /\ row.status # "none"
    /\ \A a \in Archive!Actor :
          /\ progress[a] \in {"posting", "posted", "failing"} => loaded[a] # Archive!NoRow
          /\ record /\ progress[a] \in {"looked", "posting", "posted", "failing"}
                /\ loaded[a] # Archive!NoRow
             => row # Archive!NoRow /\ row.by = loaded[a].by

\* The worker's archiving has raised only against a clerk or a deletion.
RaisedInv ==
    progress["worker"] = "raised" => ~record \/ \E c \in Clerk : progress[c] # "idle"

ArchiveInv == ArchiveTypes /\ ReceiptInv /\ SubmittingInv /\ LoadedInv /\ RaisedInv

LEMMA ArchiveInit == Archive!Init => ArchiveInv
BY DEF Archive!Init, ArchiveInv, ArchiveTypes, ArchiveRow, ReceiptInv, SubmittingInv, LoadedInv,
       RaisedInv, Archive!Actor, Archive!NoRow, Archive!Over

\* A session that looks has the row as it is.
LEMMA LookStep ==
    ASSUME ArchiveInv, NEW a \in Archive!Actor, Archive!Look(a)
    PROVE  ArchiveInv'
<1>1. /\ progress[a] = "idle" /\ (a \in Clerk => record)
      /\ progress' = [progress EXCEPT ![a] = "looked"] /\ loaded' = [loaded EXCEPT ![a] = row]
      /\ UNCHANGED <<record, row, receipt, accepted>>
  BY DEF Archive!Look, Archive!Go, Archive!Load
<1>2. ArchiveTypes' /\ ReceiptInv' /\ RaisedInv'
  BY <1>1 DEF ArchiveInv, ArchiveTypes, ReceiptInv, RaisedInv, Archive!Over, Archive!Actor
<1>3. SubmittingInv'
  <2>1. \A b \in Archive!Actor : Owes(b) => Owes(b)'
    BY <1>1 DEF ArchiveInv, ArchiveTypes, Owes
  <2>2. QED
    BY <1>1, <2>1 DEF ArchiveInv, SubmittingInv
<1>4. LoadedInv'
  BY <1>1 DEF ArchiveInv, ArchiveTypes, LoadedInv
<1>5. QED
  BY <1>2, <1>3, <1>4 DEF ArchiveInv

\* Who saves inserts the row, marks it or leaves it, or finds that another came
\* first.
LEMMA SaveStep ==
    ASSUME ArchiveInv, NEW a \in Archive!Actor, Archive!Save(a)
    PROVE  ArchiveInv'
<1>1. progress[a] = "looked" /\ UNCHANGED <<record, receipt, accepted>>
  BY DEF Archive!Save
<1>2. CASE /\ progress' = [progress EXCEPT ![a] = "raised"] /\ UNCHANGED <<row, loaded>>
           /\ (loaded[a] = Archive!NoRow /\ row # Archive!NoRow) \/ a \in Clerk
  <2>1. ArchiveTypes' /\ ReceiptInv'
    BY <1>1, <1>2 DEF ArchiveInv, ArchiveTypes, ReceiptInv, Archive!Over
  <2>2. SubmittingInv'
    <3>1. \A b \in Archive!Actor : Owes(b) => Owes(b)'
      BY <1>1, <1>2 DEF ArchiveInv, ArchiveTypes, Owes
    <3>2. QED
      BY <1>2, <3>1 DEF ArchiveInv, SubmittingInv
  <2>3. LoadedInv'
    BY <1>1, <1>2 DEF ArchiveInv, ArchiveTypes, LoadedInv
  <2>4. RaisedInv'
    BY <1>1, <1>2 DEF ArchiveInv, ArchiveTypes, LoadedInv, RaisedInv, Archive!Actor
  <2>5. QED
    BY <2>1, <2>2, <2>3, <2>4 DEF ArchiveInv
<1>3. CASE /\ progress' = [progress EXCEPT ![a] = "posting"]
           /\ loaded[a] = Archive!NoRow /\ row = Archive!NoRow
           /\ row' = [Archive!NoRow EXCEPT !.by = a, !.status = "submitting"]
           /\ loaded' = [loaded EXCEPT ![a] = row']
  <2>1. row' = [by |-> a, status |-> "submitting", external |-> 0]
    BY <1>3 DEF Archive!NoRow
  <2>2. ArchiveTypes'
    BY <1>1, <1>3, <2>1 DEF ArchiveInv, ArchiveTypes, ArchiveRow, Archive!Over
  <2>3. ReceiptInv' /\ RaisedInv'
    BY <1>1, <1>3, <2>1 DEF ArchiveInv, ArchiveTypes, ReceiptInv, RaisedInv, Archive!Actor
  <2>4. Owes(a)'
    BY <1>3, <2>1 DEF ArchiveInv, ArchiveTypes, Owes
  <2>5. row' # Archive!NoRow
    BY <2>1 DEF Archive!NoRow
  <2>6. LoadedInv'
    <3>1. \A b \in Archive!Actor : b # a /\ record
              /\ progress[b] \in {"looked", "posting", "posted", "failing"}
            => loaded[b] = Archive!NoRow
      BY <1>3 DEF ArchiveInv, LoadedInv
    <3>2. QED
      BY <1>1, <1>3, <2>1, <2>5, <3>1 DEF ArchiveInv, ArchiveTypes, LoadedInv
  <2>7. QED
    BY <2>2, <2>3, <2>4, <2>6 DEF ArchiveInv, SubmittingInv
<1>4. CASE /\ progress' = [progress EXCEPT ![a] = "posting"]
           /\ a \in Clerk /\ Archive!Same(a) /\ loaded[a] # Archive!NoRow
           /\ row' = [row EXCEPT !.status = "submitting"]
           /\ loaded' = [loaded EXCEPT ![a] = row']
  <2>1. row.by = loaded[a].by /\ row # Archive!NoRow
    BY <1>4 DEF Archive!Same
  <2>2. row' \in ArchiveRow /\ row'.by = row.by /\ row'.status = "submitting"
    BY <1>4 DEF ArchiveInv, ArchiveTypes, ArchiveRow
  <2>3. ArchiveTypes'
    BY <1>1, <1>4, <2>2 DEF ArchiveInv, ArchiveTypes, Archive!Over
  <2>4. ReceiptInv' /\ RaisedInv'
    BY <1>1, <1>4, <2>2 DEF ArchiveInv, ArchiveTypes, ReceiptInv, RaisedInv, Archive!Actor
  <2>5. Owes(a)'
    BY <1>4, <2>2 DEF ArchiveInv, ArchiveTypes, Owes
  <2>6. row' # Archive!NoRow
    BY <2>2 DEF Archive!NoRow
  <2>7. LoadedInv'
    BY <1>1, <1>4, <2>1, <2>2, <2>6 DEF ArchiveInv, ArchiveTypes, LoadedInv
  <2>8. QED
    BY <2>3, <2>4, <2>5, <2>7 DEF ArchiveInv, SubmittingInv
<1>5. CASE /\ progress' = [progress EXCEPT ![a] = "posting"]
           /\ loaded[a] # Archive!NoRow /\ row' = row
           /\ \/ Archive!Same(a) /\ loaded' = [loaded EXCEPT ![a] = row]
              \/ a = "worker" /\ loaded' = [loaded EXCEPT ![a] = loaded[a]]
  <2>1. ArchiveTypes' /\ ReceiptInv' /\ RaisedInv'
    BY <1>1, <1>5 DEF ArchiveInv, ArchiveTypes, ReceiptInv, RaisedInv, Archive!Over, Archive!Actor
  <2>2. SubmittingInv'
    <3>1. \A b \in Archive!Actor : Owes(b) => Owes(b)'
      BY <1>1, <1>5 DEF ArchiveInv, ArchiveTypes, Owes
    <3>2. QED
      BY <1>5, <3>1 DEF ArchiveInv, SubmittingInv
  <2>3. LoadedInv'
    BY <1>1, <1>5 DEF ArchiveInv, ArchiveTypes, LoadedInv, Archive!Same
  <2>4. QED
    BY <2>1, <2>2, <2>3 DEF ArchiveInv
<1>6. QED
  BY <1>2, <1>3, <1>4, <1>5
  DEF Archive!Save, Archive!Go, Archive!Load, Archive!Raises, Archive!Actor

\* Paperless takes documents only, and the row is not touched.
LEMMA PostStep ==
    ASSUME ArchiveInv, NEW a \in Archive!Actor, Archive!Post(a)
    PROVE  ArchiveInv'
<1>1. /\ progress[a] = "posting" /\ UNCHANGED <<record, row, loaded>>
      /\ \/ /\ accepted' = accepted + 1 /\ receipt' = [receipt EXCEPT ![a] = accepted + 1]
            /\ progress' = [progress EXCEPT ![a] = "posted"]
         \/ /\ accepted' \in {accepted, accepted + 1} /\ receipt' = receipt
            /\ progress' = [progress EXCEPT ![a] = "failing"]
  BY DEF Archive!Post, Archive!Go
<1>2. ArchiveTypes' /\ RaisedInv'
  BY <1>1 DEF ArchiveInv, ArchiveTypes, RaisedInv, Archive!Over, Archive!Actor
<1>3. ReceiptInv'
  <2>1. \A n : n \in 1..accepted => n \in 1..accepted'
    BY <1>1 DEF ArchiveInv, ArchiveTypes
  <2>2. ASSUME NEW b \in Archive!Actor, progress'[b] = "posted"
        PROVE  receipt'[b] \in 1..accepted'
    BY <1>1, <2>1, <2>2 DEF ArchiveInv, ArchiveTypes, ReceiptInv
  <2>3. QED
    BY <1>1, <2>1, <2>2 DEF ArchiveInv, ReceiptInv
<1>4. SubmittingInv'
  <2>1. \A b \in Archive!Actor : Owes(b) => Owes(b)'
    BY <1>1 DEF ArchiveInv, ArchiveTypes, Owes
  <2>2. QED
    BY <1>1, <2>1 DEF ArchiveInv, SubmittingInv
<1>5. LoadedInv'
  BY <1>1 DEF ArchiveInv, ArchiveTypes, LoadedInv
<1>6. QED
  BY <1>2, <1>3, <1>4, <1>5 DEF ArchiveInv

\* Who ends with an answer or without one writes what it owes.
LEMMA TellStep ==
    ASSUME ArchiveInv, NEW a \in Archive!Actor, Archive!Succeed(a) \/ Archive!Fail(a)
    PROVE  ArchiveInv'
<1>1. progress[a] \in {"posted", "failing"} /\ UNCHANGED <<record, loaded, receipt, accepted>>
  BY DEF Archive!Succeed, Archive!Fail
<1>2. CASE /\ Archive!Same(a) /\ progress' = [progress EXCEPT ![a] = "over"]
           /\ \/ progress[a] = "posted" /\ row' = Archive!Written(a)
              \/ row' = [row EXCEPT !.status = "failed"]
  <2>1. row.by = loaded[a].by /\ row # Archive!NoRow /\ row' \in ArchiveRow /\ row'.by = row.by
    BY <1>2 DEF ArchiveInv, ArchiveTypes, ArchiveRow, Archive!Same, Archive!Written
  <2>2. /\ row'.status = "submitted" => row'.external \in 1..accepted
        /\ row'.status = "submitting" => row.status = "submitting" /\ loaded[a].status = "submitted"
    BY <1>2 DEF ArchiveInv, ArchiveTypes, ArchiveRow, ReceiptInv, Archive!Written
  <2>3. ArchiveTypes'
    BY <1>1, <1>2, <2>1 DEF ArchiveInv, ArchiveTypes, Archive!Over
  <2>4. ReceiptInv' /\ RaisedInv'
    BY <1>1, <1>2, <2>2 DEF ArchiveInv, ArchiveTypes, ReceiptInv, RaisedInv, Archive!Actor
  <2>5. SubmittingInv'
    <3>1. \A b \in Archive!Actor : Owes(b) /\ row'.status = "submitting" => Owes(b)'
      BY <1>1, <1>2, <2>1, <2>2 DEF ArchiveInv, ArchiveTypes, Owes
    <3>2. QED
      BY <2>2, <3>1 DEF ArchiveInv, SubmittingInv
  <2>6. row'.status # "none"
    <3>1. row.status # "none"
      BY <2>1 DEF ArchiveInv, LoadedInv
    <3>2. QED
      BY <1>2, <3>1 DEF ArchiveInv, ArchiveTypes, ArchiveRow, Archive!Written
  <2>7. LoadedInv'
    <3>1. row' # Archive!NoRow
      BY <2>6 DEF Archive!NoRow
    <3>2. QED
      BY <1>1, <1>2, <2>1, <2>6, <3>1 DEF ArchiveInv, ArchiveTypes, LoadedInv
  <2>8. QED
    BY <2>3, <2>4, <2>5, <2>7 DEF ArchiveInv
<1>3. CASE ~Archive!Same(a) /\ row' = row
           /\ progress' \in {[progress EXCEPT ![a] = "failing"], [progress EXCEPT ![a] = "raised"]}
  <2>1. ArchiveTypes' /\ ReceiptInv'
    BY <1>1, <1>3 DEF ArchiveInv, ArchiveTypes, ReceiptInv, Archive!Over
  <2>2. row = Archive!NoRow \/ row.by # loaded[a].by
    BY <1>3 DEF Archive!Same
  <2>3. SubmittingInv'
    <3>1. row.status = "submitting" => row # Archive!NoRow
      BY DEF Archive!NoRow
    <3>2. \A b \in Archive!Actor : Owes(b) /\ row.status = "submitting" => Owes(b)'
      BY <1>1, <1>3, <2>2, <3>1 DEF ArchiveInv, ArchiveTypes, Owes
    <3>3. QED
      BY <1>3, <3>2 DEF ArchiveInv, SubmittingInv
  <2>4. LoadedInv'
    BY <1>1, <1>3 DEF ArchiveInv, ArchiveTypes, LoadedInv
  <2>5. ~record
    BY <1>1, <2>2 DEF ArchiveInv, ArchiveTypes, LoadedInv
  <2>6. QED
    BY <1>1, <2>1, <2>3, <2>4, <2>5 DEF ArchiveInv, RaisedInv
<1>4. QED
  BY <1>2, <1>3
  DEF Archive!Succeed, Archive!Fail, Archive!Go, Archive!Ends, Archive!Raises, Archive!FailWritten

\* A death leaves the row as it is, and is a reason for it.
LEMMA DieStep ==
    ASSUME ArchiveInv, NEW a \in Archive!Actor, Archive!Die(a)
    PROVE  ArchiveInv'
<1>1. /\ progress[a] \notin {"idle", "over", "raised", "dead"}
      /\ progress' = [progress EXCEPT ![a] = "dead"]
      /\ UNCHANGED <<record, row, loaded, receipt, accepted>>
  BY DEF Archive!Die, Archive!Go, Archive!Over
<1>2. ArchiveTypes' /\ ReceiptInv' /\ RaisedInv'
  BY <1>1 DEF ArchiveInv, ArchiveTypes, ReceiptInv, RaisedInv, Archive!Over, Archive!Actor
<1>3. SubmittingInv'
  <2>1. \A b \in Archive!Actor : Owes(b) => Owes(b)'
    BY <1>1 DEF ArchiveInv, ArchiveTypes, Owes
  <2>2. QED
    BY <1>1, <2>1 DEF ArchiveInv, SubmittingInv
<1>4. LoadedInv'
  BY <1>1 DEF ArchiveInv, ArchiveTypes, LoadedInv
<1>5. QED
  BY <1>2, <1>3, <1>4 DEF ArchiveInv

\* With the file goes the row.
LEMMA DeleteStep ==
    ASSUME ArchiveInv, Archive!DeleteFile
    PROVE  ArchiveInv'
<1>1. record' = FALSE /\ row' = Archive!NoRow /\ UNCHANGED <<progress, loaded, receipt, accepted>>
  BY DEF Archive!DeleteFile
<1>2. row' \in ArchiveRow /\ row'.status = "none"
  BY <1>1 DEF Archive!NoRow, ArchiveRow
<1>3. QED
  BY <1>1, <1>2 DEF ArchiveInv, ArchiveTypes, ReceiptInv, SubmittingInv, LoadedInv, RaisedInv

LEMMA ArchiveStep ==
    ASSUME ArchiveInv, Archive!Next \/ UNCHANGED archive
    PROVE  ArchiveInv'
<1>1. CASE UNCHANGED archive
  BY <1>1 DEF archive, ArchiveInv, ArchiveTypes, ReceiptInv, SubmittingInv, Owes, LoadedInv, RaisedInv
<1>2. QED
  BY <1>1, LookStep, SaveStep, PostStep, TellStep, DieStep, DeleteStep DEF Archive!Next

\* The archive in focus moves by its own actions, and stays in focus.
LEMMA ArchiveFocus ==
    [Next]_vars => /\ focus = "archive" => Archive!Next \/ UNCHANGED archive
                   /\ UNCHANGED focus
BY DEF Next, vars

\* The archive row tells what happened to the document, and the worker's
\* archiving keeps no job from being announced but against a clerk or a
\* deletion, however many clerks archive the file (_auto_archive,
\* archive_job_output).
THEOREM ArchiveIsTold == Spec => []ArchiveTold
<1> DEFINE Inv == focus = "archive" => ArchiveInv
<1>1. Init => Inv
  BY ArchiveInit DEF Init
<1>2. Inv /\ [Next]_vars => Inv'
  BY ArchiveFocus, ArchiveStep
<1>3. ArchiveInv => Archive!ArchiveTold
  BY DEF ArchiveInv, ReceiptInv, SubmittingInv, Owes, RaisedInv, Archive!ArchiveTold, Archive!Quiet
<1>4. Inv => ArchiveTold
  BY <1>3 DEF ArchiveTold
<1>5. QED
  BY <1>1, <1>2, <1>4, PTL DEF Spec

\* Who has asked Paperless, at the most.
Senders == {a \in Archive!Actor : progress[a] \notin {"idle", "looked", "posting"}}

\* No more documents were taken than were sent, and a number given is of one of
\* them.
TakenInv ==
    /\ announced \in BOOLEAN
    /\ accepted <= Cardinality(Senders)
    /\ row.external <= accepted
    /\ \A a \in Archive!Actor : receipt[a] <= accepted

LEMMA SendersFinite ==
    /\ IsFiniteSet(Archive!Actor) /\ IsFiniteSet(Senders)
    /\ Cardinality(Archive!Actor) \in Nat /\ Cardinality(Senders) \in Nat
    /\ Cardinality(Senders) <= Cardinality(Archive!Actor)
<1>1. IsFiniteSet(Archive!Actor)
  BY BoundAssumption, FS_AddElement DEF Archive!Actor
<1>2. Senders \subseteq Archive!Actor
  BY DEF Senders
<1>3. QED
  BY <1>1, <1>2, FS_Subset, FS_CardinalityType

\* Nobody takes back that it has asked.
LEMMA SendersGrow ==
    ASSUME Senders \subseteq Senders'
    PROVE  Cardinality(Senders') \in Nat /\ Cardinality(Senders) <= Cardinality(Senders')
<1>1. Senders' \subseteq Archive!Actor
  BY DEF Senders, Archive!Actor
<1>2. IsFiniteSet(Senders')
  BY <1>1, SendersFinite, FS_Subset
<1>3. QED
  BY <1>2, FS_Subset, FS_CardinalityType

LEMMA TakenStep ==
    ASSUME ArchiveInv, TakenInv, Archive!Next \/ UNCHANGED archive
    PROVE  TakenInv'
<1> USE SendersFinite
<1>1. CASE UNCHANGED archive
  <2>1. UNCHANGED <<row, progress, receipt, accepted, announced>>
    BY <1>1 DEF archive
  <2>2. Senders' = Senders
    BY <2>1 DEF Senders, Archive!Actor
  <2>3. QED
    BY <2>1, <2>2 DEF TakenInv, Archive!Actor
<1>2. ASSUME NEW a \in Archive!Actor, Archive!Post(a)
      PROVE  TakenInv'
  <2>1. /\ progress[a] = "posting" /\ UNCHANGED <<row, announced>>
        /\ \E next \in {"posted", "failing"} : progress' = [progress EXCEPT ![a] = next]
        /\ accepted' \in {accepted, accepted + 1}
        /\ receipt' \in {receipt, [receipt EXCEPT ![a] = accepted']}
    BY <1>2 DEF Archive!Post, Archive!Go
  <2>2. Senders' = Senders \cup {a} /\ a \notin Senders
    BY <2>1 DEF ArchiveInv, ArchiveTypes, Senders, Archive!Actor
  <2>3. Cardinality(Senders') = Cardinality(Senders) + 1
    BY <2>2, FS_AddElement
  <2>4. \A b \in Archive!Actor : receipt'[b] <= accepted'
    BY <2>1 DEF ArchiveInv, ArchiveTypes, TakenInv
  <2>5. row'.external <= accepted' /\ accepted' <= Cardinality(Senders')
    BY <2>1, <2>3 DEF ArchiveInv, ArchiveTypes, ArchiveRow, TakenInv
  <2>6. announced' \in BOOLEAN
    BY <2>1 DEF TakenInv
  <2>7. QED
    BY <2>4, <2>5, <2>6 DEF TakenInv, Archive!Actor
<1>3. ASSUME UNCHANGED <<receipt, accepted>>, announced' \in BOOLEAN,
             row'.external \in {0, row.external} \cup {receipt[a] : a \in Archive!Actor},
             Senders \subseteq Senders'
      PROVE  TakenInv'
  <2>1. row'.external <= accepted
    BY <1>3 DEF ArchiveInv, ArchiveTypes, TakenInv
  <2>2. Cardinality(Senders') \in Nat /\ Cardinality(Senders) <= Cardinality(Senders')
    BY <1>3, SendersGrow
  <2>3. accepted' <= Cardinality(Senders')
    BY <1>3, <2>2 DEF ArchiveInv, ArchiveTypes, TakenInv
  <2>4. QED
    BY <1>3, <2>1, <2>3 DEF TakenInv, Archive!Actor
<1>4. ASSUME NEW a \in Archive!Actor, Archive!Look(a)
      PROVE  TakenInv'
  <2>1. UNCHANGED <<row, receipt, accepted, announced>> /\ progress[a] = "idle"
        /\ progress' = [progress EXCEPT ![a] = "looked"]
    BY <1>4 DEF Archive!Look, Archive!Go
  <2>2. Senders \subseteq Senders'
    BY <2>1 DEF ArchiveInv, ArchiveTypes, Senders, Archive!Actor
  <2>3. QED
    BY <1>3, <2>1, <2>2 DEF TakenInv
<1>5. ASSUME NEW a \in Archive!Actor, Archive!Save(a)
      PROVE  TakenInv'
  <2>1. UNCHANGED <<receipt, accepted, announced>> /\ progress[a] = "looked"
        /\ \E next \in {"raised", "posting"} : progress' = [progress EXCEPT ![a] = next]
        /\ row' \in {row, [Archive!NoRow EXCEPT !.by = a, !.status = "submitting"],
                     [row EXCEPT !.status = "submitting"]}
    BY <1>5 DEF Archive!Save, Archive!Go, Archive!Raises
  <2>2. Senders \subseteq Senders'
    BY <2>1 DEF ArchiveInv, ArchiveTypes, Senders, Archive!Actor
  <2>3. row'.external \in {0, row.external}
    BY <2>1 DEF ArchiveInv, ArchiveTypes, ArchiveRow, Archive!NoRow
  <2>4. QED
    BY <1>3, <2>1, <2>2, <2>3 DEF TakenInv
<1>6. ASSUME NEW a \in Archive!Actor, Archive!Succeed(a) \/ Archive!Fail(a)
      PROVE  TakenInv'
  <2>1. UNCHANGED <<receipt, accepted>> /\ progress[a] \in {"posted", "failing"}
        /\ \E next \in {"over", "failing", "raised"} : progress' = [progress EXCEPT ![a] = next]
        /\ row' \in {row, Archive!Written(a), [row EXCEPT !.status = "failed"]}
    BY <1>6 DEF Archive!Succeed, Archive!Fail, Archive!Go, Archive!Ends, Archive!Raises, Archive!FailWritten
  <2>2. announced' \in BOOLEAN
    BY <1>6 DEF TakenInv, Archive!Succeed, Archive!Fail, Archive!Ends, Archive!Raises
  <2>3. Senders \subseteq Senders'
    BY <2>1 DEF ArchiveInv, ArchiveTypes, Senders, Archive!Actor
  <2>4. row'.external \in {row.external, receipt[a]}
    BY <2>1 DEF ArchiveInv, ArchiveTypes, ArchiveRow, Archive!Written
  <2>5. QED
    BY <1>3, <2>1, <2>2, <2>3, <2>4
<1>7. ASSUME NEW a \in Archive!Actor, Archive!Die(a)
      PROVE  TakenInv'
  <2>1. UNCHANGED <<row, receipt, accepted, announced>>
        /\ progress' = [progress EXCEPT ![a] = "dead"]
    BY <1>7 DEF Archive!Die, Archive!Go
  <2>2. Senders \subseteq Senders'
    BY <2>1 DEF ArchiveInv, ArchiveTypes, Senders, Archive!Actor
  <2>3. QED
    BY <1>3, <2>1, <2>2 DEF TakenInv
<1>8. CASE Archive!DeleteFile
  <2>1. UNCHANGED <<receipt, accepted, announced, progress>> /\ row' = Archive!NoRow
    BY <1>8 DEF Archive!DeleteFile
  <2>2. Senders \subseteq Senders' /\ row'.external = 0
    BY <2>1 DEF Senders, Archive!Actor, Archive!NoRow
  <2>3. QED
    BY <1>3, <2>1, <2>2 DEF TakenInv
<1>9. QED
  BY <1>1, <1>2, <1>4, <1>5, <1>6, <1>7, <1>8 DEF Archive!Next

\* The variables of the archive have their types: Paperless has taken, and the row
\* and every session name, at most one document of each who archives the file
\* (_auto_archive, archive_job_output).
THEOREM ArchiveTypesHold == Spec => [](focus = "archive" => Archive!TypeOK)
<1> DEFINE Inv == focus = "archive" => ArchiveInv /\ TakenInv
<1>1. Archive!Init => TakenInv
  <2>1. Archive!Init => /\ accepted = 0 /\ row.external = 0 /\ receipt = [a \in Archive!Actor |-> 0]
    BY DEF Archive!Init, Archive!NoRow
  <2>2. Archive!Init => announced \in BOOLEAN
    BY DEF Archive!Init
  <2>3. QED
    BY <2>1, <2>2, SendersFinite DEF TakenInv
<1>2. Init => Inv
  BY <1>1, ArchiveInit DEF Init
<1>3. Inv /\ [Next]_vars => Inv'
  BY ArchiveFocus, ArchiveStep, TakenStep
<1>4. ArchiveInv /\ TakenInv => Archive!TypeOK
  <2> SUFFICES ASSUME ArchiveInv, TakenInv
               PROVE  Archive!TypeOK
    OBVIOUS
  <2> DEFINE most == Cardinality(Archive!Actor)
  <2>1. Archive!Cardinality(Archive!Actor) = most
    BY DEF Archive!Cardinality, Cardinality
  <2>2. most \in Nat /\ accepted <= most
    BY SendersFinite DEF ArchiveInv, ArchiveTypes, TakenInv
  <2> HIDE DEF most
  <2>3. accepted \in 0..most
    BY <2>2 DEF ArchiveInv, ArchiveTypes
  <2>4. receipt \in [Archive!Actor -> 0..most]
    BY <2>2 DEF ArchiveInv, ArchiveTypes, TakenInv
  <2>5. row \in [by : Archive!Actor \cup {"none"},
                 status : {"none", "submitting", "submitted", "failed"}, external : 0..most]
    BY <2>2 DEF ArchiveInv, ArchiveTypes, ArchiveRow, TakenInv
  <2>6. \A a \in Archive!Actor : loaded[a].status \in {"none", "submitting", "submitted", "failed"}
    BY DEF ArchiveInv, ArchiveTypes, ArchiveRow
  <2>7. QED
    BY <2>1, <2>3, <2>4, <2>5, <2>6 DEF ArchiveInv, ArchiveTypes, TakenInv, Archive!TypeOK
<1>5. Inv => (focus = "archive" => Archive!TypeOK)
  BY <1>4
<1>6. QED
  BY <1>2, <1>3, <1>5, PTL DEF Spec

-----------------------------------------------------------------------------
(* The converters.  Each table of engines is looked at by itself, and what  *)
(* holds for two tables holds for their union.                             *)

\* What an engine looks at, anywhere on the way.
LooksAt(e) == e.refuses \cup e.verifies \cup e.rechecks

\* An engine publishes from nothing oversized, no product that does not read
\* back, and none over its budget, but for the first tools and those named.
Bounded(c, e) ==
    /\ "outsized" \in LooksAt(e)
    /\ "damaged" \in LooksAt(e) \/ c \in {"pdf_to_text_only_rtf", "extract_searchable_text"}
    /\ "bulky" \in LooksAt(e) \/ c \in Stages!Unbounded

AllBounded(t) ==
    \A c \in DOMAIN t : c \in DOMAIN Stages!Legacy \/ Bounded(c, t[c])

\* What holds for each table holds for all of them as one, and for one engine.
LEMMA BoundedAsOne ==
    ASSUME NEW tables, \A t \in tables : AllBounded(t)
    PROVE  AllBounded(Stages!AsOne(tables))
<1> SUFFICES ASSUME NEW c \in DOMAIN Stages!AsOne(tables)
             PROVE  \E t \in tables : c \in DOMAIN t /\ Stages!AsOne(tables)[c] = t[c]
  BY DEF AllBounded
<1> DEFINE t == CHOOSE t \in tables : c \in DOMAIN t
<1>1. t \in tables /\ c \in DOMAIN t /\ Stages!AsOne(tables)[c] = t[c]
  BY DEF Stages!AsOne
<1>2. QED
  BY <1>1

LEMMA BoundedOne ==
    ASSUME NEW c, NEW e, Bounded(c, e)
    PROVE  AllBounded(Stages!:>(c, e))
BY DEF AllBounded, Stages!:>

\* The engines from PDF to another format.
LEMMA ToFormatsBounded ==
    /\ AllBounded(Stages!Tiff) /\ AllBounded(Stages!Gif) /\ AllBounded(Stages!Bmp)
    /\ AllBounded(Stages!Svg) /\ AllBounded(Stages!Raster) /\ AllBounded(Stages!Csv)
    /\ AllBounded(Stages!Rtf) /\ AllBounded(Stages!Odt) /\ AllBounded(Stages!Docx)
    /\ AllBounded(Stages!Epub) /\ AllBounded(Stages!Pptx) /\ AllBounded(Stages!Xlsx)
    /\ AllBounded(Stages!Accessible)
<1>1. AllBounded(Stages!Tiff)
  BY DEF AllBounded, Bounded, LooksAt, Stages!Unbounded, Stages!:>, Stages!Tiff, Stages!NewFile,
         Stages!Engine, Stages!StrictPdf, Stages!Whole
<1>2. AllBounded(Stages!Gif)
  BY DEF AllBounded, Bounded, LooksAt, Stages!Unbounded, Stages!:>, Stages!Gif, Stages!NewFile,
         Stages!Engine, Stages!StrictPdf, Stages!Whole
<1>3. AllBounded(Stages!Bmp)
  BY DEF AllBounded, Bounded, LooksAt, Stages!Unbounded, Stages!:>, Stages!Bmp, Stages!NewFile,
         Stages!Engine, Stages!StrictPdf, Stages!Whole
<1>4. AllBounded(Stages!Svg)
  BY DEF AllBounded, Bounded, LooksAt, Stages!Unbounded, Stages!:>, Stages!Svg, Stages!NewFile,
         Stages!Engine, Stages!StrictPdf, Stages!Whole
<1>5. AllBounded(Stages!Raster)
  BY DEF AllBounded, Bounded, LooksAt, Stages!Unbounded, Stages!:>, Stages!Raster,
         Stages!NewFile, Stages!Engine, Stages!StrictPdf, Stages!Whole
<1>6. AllBounded(Stages!Csv)
  BY DEF AllBounded, Bounded, LooksAt, Stages!Unbounded, Stages!:>, Stages!Csv, Stages!NewFile,
         Stages!Engine, Stages!StrictPdf, Stages!RuledTable, Stages!Whole
<1>7. AllBounded(Stages!Rtf)
  BY DEF AllBounded, Bounded, LooksAt, Stages!Unbounded, Stages!:>, Stages!Rtf, Stages!Engine,
         Stages!StrictPdf, Stages!PlainLines
<1>8. AllBounded(Stages!Odt)
  BY DEF AllBounded, Bounded, LooksAt, Stages!Unbounded, Stages!:>, Stages!Odt, Stages!NewFile,
         Stages!Engine, Stages!StrictPdf, Stages!PlainLines, Stages!Whole
<1>9. AllBounded(Stages!Docx)
  BY DEF AllBounded, Bounded, LooksAt, Stages!Unbounded, Stages!:>, Stages!Docx, Stages!NewFile,
         Stages!Engine, Stages!StrictPdf, Stages!PlainLines, Stages!Whole
<1>10. AllBounded(Stages!Epub)
  BY DEF AllBounded, Bounded, LooksAt, Stages!Unbounded, Stages!:>, Stages!Epub, Stages!NewFile,
         Stages!Engine, Stages!StrictPdf, Stages!PlainLines, Stages!Whole
<1>11. AllBounded(Stages!Pptx)
  BY DEF AllBounded, Bounded, LooksAt, Stages!Unbounded, Stages!:>, Stages!Pptx, Stages!NewFile,
         Stages!Engine, Stages!StrictPdf, Stages!PlainLines, Stages!Whole
<1>12. AllBounded(Stages!Xlsx)
  BY DEF AllBounded, Bounded, LooksAt, Stages!Unbounded, Stages!:>, Stages!Xlsx, Stages!NewFile,
         Stages!Engine, Stages!StrictPdf, Stages!RuledTable, Stages!Whole
<1>13. AllBounded(Stages!Accessible)
  BY DEF AllBounded, Bounded, LooksAt, Stages!Unbounded, Stages!:>, Stages!Accessible,
         Stages!Engine, Stages!StrictPdf, Stages!ScanOnly, Stages!Whole
<1> QED
  BY <1>1, <1>2, <1>3, <1>4, <1>5, <1>6, <1>7, <1>8, <1>9, <1>10, <1>11, <1>12, <1>13

\* The engines from PDF to PDF, or to its parts.
LEMMA ToPdfPartsBounded ==
    /\ AllBounded(Stages!SplitZip) /\ AllBounded(Stages!ExtractPages) /\ AllBounded(Stages!SelectPages)
    /\ AllBounded(Stages!TextOverlay) /\ AllBounded(Stages!AcroForm) /\ AllBounded(Stages!EmbeddedImages)
    /\ AllBounded(Stages!Grayscale) /\ AllBounded(Stages!HeaderFooter) /\ AllBounded(Stages!Protect)
    /\ AllBounded(Stages!Unlock) /\ AllBounded(Stages!EditInfo) /\ AllBounded(Stages!RemoveInfo)
    /\ AllBounded(Stages!SearchText) /\ AllBounded(Stages!Geometry)
<1>1. AllBounded(Stages!SplitZip)
  BY DEF AllBounded, Bounded, LooksAt, Stages!Unbounded, Stages!:>, Stages!SplitZip,
         Stages!NewFile, Stages!Engine, Stages!SplitSource, Stages!StrictPdf, Stages!Whole
<1>2. AllBounded(Stages!ExtractPages)
  BY DEF AllBounded, Bounded, LooksAt, Stages!Unbounded, Stages!:>, Stages!ExtractPages,
         Stages!Engine, Stages!SplitSource, Stages!StrictPdf, Stages!Whole
<1>3. AllBounded(Stages!SelectPages)
  BY DEF AllBounded, Bounded, LooksAt, Stages!Unbounded, Stages!:>, Stages!SelectPages,
         Stages!NewFile, Stages!Engine, Stages!StrictPdf, Stages!Whole
<1>4. AllBounded(Stages!TextOverlay)
  BY DEF AllBounded, Bounded, LooksAt, Stages!Unbounded, Stages!:>, Stages!TextOverlay,
         Stages!NewFile, Stages!Engine, Stages!StrictPdf, Stages!Whole
<1>5. AllBounded(Stages!AcroForm)
  BY DEF AllBounded, Bounded, LooksAt, Stages!Unbounded, Stages!:>, Stages!AcroForm,
         Stages!NewFile, Stages!Engine, Stages!AcroFormSource, Stages!StrictPdf, Stages!Whole
<1>6. AllBounded(Stages!EmbeddedImages)
  BY DEF AllBounded, Bounded, LooksAt, Stages!Unbounded, Stages!:>, Stages!EmbeddedImages,
         Stages!NewFile, Stages!Engine, Stages!StrictPdf, Stages!Whole
<1>7. AllBounded(Stages!Grayscale)
  BY DEF AllBounded, Bounded, LooksAt, Stages!Unbounded, Stages!:>, Stages!Grayscale,
         Stages!NewFile, Stages!Engine, Stages!GraySource, Stages!StrictPdf, Stages!GrayDraft
<1>8. AllBounded(Stages!HeaderFooter)
  BY DEF AllBounded, Bounded, LooksAt, Stages!Unbounded, Stages!:>, Stages!HeaderFooter,
         Stages!Engine, Stages!HeaderSource, Stages!StrictPdf, Stages!HeaderDraft
<1>9. AllBounded(Stages!Protect)
  BY DEF AllBounded, Bounded, LooksAt, Stages!Unbounded, Stages!:>, Stages!Protect,
         Stages!Renamed, Stages!Engine, Stages!AccessChecks
<1>10. AllBounded(Stages!Unlock)
  BY DEF AllBounded, Bounded, LooksAt, Stages!Unbounded, Stages!:>, Stages!Unlock,
         Stages!Renamed, Stages!Engine, Stages!AccessChecks
<1>11. AllBounded(Stages!EditInfo)
  BY DEF AllBounded, Bounded, LooksAt, Stages!Unbounded, Stages!:>, Stages!EditInfo,
         Stages!Renamed, Stages!Engine, Stages!InfoSource
<1>12. AllBounded(Stages!RemoveInfo)
  BY DEF AllBounded, Bounded, LooksAt, Stages!Unbounded, Stages!:>, Stages!RemoveInfo,
         Stages!Renamed, Stages!Engine, Stages!InfoSource
<1>13. AllBounded(Stages!SearchText)
  BY DEF AllBounded, Bounded, LooksAt, Stages!Unbounded, Stages!:>, Stages!SearchText,
         Stages!Renamed, Stages!Engine, Stages!InfoSource
<1>14. AllBounded(Stages!Geometry)
  BY DEF AllBounded, Bounded, LooksAt, Stages!Unbounded, Stages!:>, Stages!Geometry,
         Stages!Renamed, Stages!Engine, Stages!CropSource
<1> QED
  BY <1>1, <1>2, <1>3, <1>4, <1>5, <1>6, <1>7, <1>8, <1>9, <1>10, <1>11, <1>12, <1>13, <1>14

\* The engines from text, markup and books to PDF.
LEMMA FromTextBounded ==
    /\ AllBounded(Stages!TextToPdf) /\ AllBounded(Stages!CsvToPdf) /\ AllBounded(Stages!MarkdownToPdf)
    /\ AllBounded(Stages!HtmlToPdf) /\ AllBounded(Stages!XmlToPdf) /\ AllBounded(Stages!EmlToPdf)
    /\ AllBounded(Stages!SvgToPdf) /\ AllBounded(Stages!EpubToPdf) /\ AllBounded(Stages!Fb2ToPdf)
    /\ AllBounded(Stages!MobiToPdf) /\ AllBounded(Stages!XpsToPdf)
<1>1. AllBounded(Stages!TextToPdf)
  BY DEF AllBounded, Bounded, LooksAt, Stages!Unbounded, Stages!:>, Stages!TextToPdf,
         Stages!Html, Stages!Over, Stages!Engine, Stages!Visible, Stages!Utf8Text
<1>2. AllBounded(Stages!CsvToPdf)
  BY DEF AllBounded, Bounded, LooksAt, Stages!Unbounded, Stages!:>, Stages!CsvToPdf,
         Stages!Html, Stages!Over, Stages!Engine, Stages!Visible, Stages!Utf8Text
<1>3. AllBounded(Stages!MarkdownToPdf)
  BY DEF AllBounded, Bounded, LooksAt, Stages!Unbounded, Stages!:>, Stages!MarkdownToPdf,
         Stages!Html, Stages!Over, Stages!Engine, Stages!Visible, Stages!Utf8Text
<1>4. AllBounded(Stages!HtmlToPdf)
  BY DEF AllBounded, Bounded, LooksAt, Stages!Unbounded, Stages!:>, Stages!HtmlToPdf,
         Stages!Html, Stages!Over, Stages!Engine, Stages!Visible, Stages!Utf8Text
<1>5. AllBounded(Stages!XmlToPdf)
  BY DEF AllBounded, Bounded, LooksAt, Stages!Unbounded, Stages!:>, Stages!XmlToPdf,
         Stages!Html, Stages!Over, Stages!Engine, Stages!Visible, Stages!Utf8Text
<1>6. AllBounded(Stages!EmlToPdf)
  BY DEF AllBounded, Bounded, LooksAt, Stages!Unbounded, Stages!:>, Stages!EmlToPdf,
         Stages!Html, Stages!Over, Stages!Engine, Stages!Visible, Stages!Utf8Text
<1>7. AllBounded(Stages!SvgToPdf)
  BY DEF AllBounded, Bounded, LooksAt, Stages!Unbounded, Stages!:>, Stages!SvgToPdf,
         Stages!Html, Stages!Over, Stages!Engine, Stages!Visible, Stages!SvgMarkup,
         Stages!SvgAttribute
<1>8. AllBounded(Stages!EpubToPdf)
  BY DEF AllBounded, Bounded, LooksAt, Stages!Unbounded, Stages!:>, Stages!EpubToPdf,
         Stages!Html, Stages!Over, Stages!Engine, Stages!Visible, Stages!EpubMarkup,
         Stages!BookImage, Stages!BookParagraphs
<1>9. AllBounded(Stages!Fb2ToPdf)
  BY DEF AllBounded, Bounded, LooksAt, Stages!Unbounded, Stages!:>, Stages!Fb2ToPdf,
         Stages!Html, Stages!Over, Stages!Engine, Stages!Visible, Stages!Fb2Markup,
         Stages!BookImage, Stages!BookParagraphs
<1>10. AllBounded(Stages!MobiToPdf)
  BY DEF AllBounded, Bounded, LooksAt, Stages!Unbounded, Stages!:>, Stages!MobiToPdf,
         Stages!Html, Stages!Over, Stages!Engine, Stages!Visible, Stages!MobiMarkup,
         Stages!MobiPlain
<1>11. AllBounded(Stages!XpsToPdf)
  BY DEF AllBounded, Bounded, LooksAt, Stages!Unbounded, Stages!:>, Stages!XpsToPdf,
         Stages!Html, Stages!Over, Stages!Engine, Stages!Visible, Stages!XpsPackage
<1> QED
  BY <1>1, <1>2, <1>3, <1>4, <1>5, <1>6, <1>7, <1>8, <1>9, <1>10, <1>11

\* The engines from drawings and images to PDF, the Office ones and the decoders.
LEMMA FromDrawingsBounded ==
    /\ AllBounded(Stages!UrlToPdf) /\ AllBounded(Stages!AiToPdf) /\ AllBounded(Stages!DjvuToPdf)
    /\ AllBounded(Stages!DxfToPdf) /\ AllBounded(Stages!ArchiveToPdf) /\ AllBounded(Stages!FramesToPdf)
    /\ AllBounded(Stages!CbrToPdf) /\ AllBounded(Stages!OfficeToPdf) /\ AllBounded(Stages!NativeEngines)
<1>1. AllBounded(Stages!UrlToPdf)
  BY DEF AllBounded, Bounded, LooksAt, Stages!Unbounded, Stages!:>, Stages!UrlToPdf,
         Stages!Html, Stages!Over, Stages!Engine, Stages!Visible, Stages!UrlAnswer
<1>2. AllBounded(Stages!AiToPdf)
  BY DEF AllBounded, Bounded, LooksAt, Stages!Unbounded, Stages!:>, Stages!AiToPdf, Stages!Html,
         Stages!Over, Stages!Engine, Stages!Visible, Stages!AiSource
<1>3. AllBounded(Stages!DjvuToPdf)
  BY DEF AllBounded, Bounded, LooksAt, Stages!Unbounded, Stages!:>, Stages!DjvuToPdf,
         Stages!Over, Stages!Engine, Stages!DjvuChunks, Stages!Visible
<1>4. AllBounded(Stages!DxfToPdf)
  BY DEF AllBounded, Bounded, LooksAt, Stages!Unbounded, Stages!:>, Stages!DxfToPdf,
         Stages!Over, Stages!Engine, Stages!DxfEntities
<1>5. AllBounded(Stages!ArchiveToPdf)
  BY DEF AllBounded, Bounded, LooksAt, Stages!Unbounded, Stages!:>, Stages!ArchiveToPdf,
         Stages!Over, Stages!Engine, Stages!ArchiveImages, Stages!Whole
<1>6. AllBounded(Stages!FramesToPdf)
  BY DEF AllBounded, Bounded, LooksAt, Stages!Unbounded, Stages!:>, Stages!FramesToPdf,
         Stages!Over, Stages!Engine, Stages!ImageFrames, Stages!Whole
<1>7. AllBounded(Stages!CbrToPdf)
  BY DEF AllBounded, Bounded, LooksAt, Stages!Unbounded, Stages!:>, Stages!CbrToPdf,
         Stages!Over, Stages!Engine, Stages!Rar4Images, Stages!ArchiveImages, Stages!Whole
<1>8. AllBounded(Stages!OfficeToPdf)
  <2>1. Bounded("office_document", Stages!OfficeEngine({}))
    BY DEF Bounded, LooksAt, Stages!Unbounded, Stages!OfficeEngine, Stages!Over, Stages!Engine,
         Stages!Visible
  <2>2. Bounded("office_slides", Stages!Over(Stages!SlidePages, Stages!Visible \cup {"incomplete"}, {}))
    BY DEF Bounded, LooksAt, Stages!Unbounded, Stages!Over, Stages!Engine, Stages!SlidePages,
         Stages!OfficeMembers, Stages!Visible
  <2>3. Bounded("office_pub", Stages!OfficeEngine(Stages!Publisher))
    BY DEF Bounded, LooksAt, Stages!Unbounded, Stages!OfficeEngine, Stages!Over, Stages!Engine,
         Stages!Visible, Stages!Publisher
  <2>4. Bounded("office_pages", Stages!OfficeEngine(Stages!PagesPackage))
    BY DEF Bounded, LooksAt, Stages!Unbounded, Stages!OfficeEngine, Stages!Over, Stages!Engine,
         Stages!Visible, Stages!PagesPackage, Stages!OfficeMembers
  <2>5. Bounded("office_hwp", Stages!OfficeEngine(Stages!Hwp3))
    BY DEF Bounded, LooksAt, Stages!Unbounded, Stages!OfficeEngine, Stages!Over, Stages!Engine,
         Stages!Visible, Stages!Hwp3
  <2> QED
    BY <2>1, <2>2, <2>3, <2>4, <2>5, BoundedOne, BoundedAsOne DEF Stages!OfficeToPdf
<1>9. AllBounded(Stages!NativeEngines)
  <2>1. Bounded("heif_to_pdf", Stages!Remotely(Stages!HeifDecoder, {"incomplete"}))
    BY DEF Bounded, LooksAt, Stages!Unbounded, Stages!Remotely, Stages!Over, Stages!Engine,
         Stages!Visible, Stages!HeifDecoder, Stages!HeifContainer, Stages!OutputGuard
  <2>2. Bounded("dwg_to_pdf", Stages!Remotely(Stages!DwgDecoder, {"incomplete"}))
    BY DEF Bounded, LooksAt, Stages!Unbounded, Stages!Remotely, Stages!Over, Stages!Engine,
         Stages!Visible, Stages!DwgDecoder, Stages!OutputGuard, Stages!DxfEntities
  <2>3. Bounded("wps_to_pdf", Stages!Remotely(Stages!WpsDecoder, {}))
    BY DEF Bounded, LooksAt, Stages!Unbounded, Stages!Remotely, Stages!Over, Stages!Engine,
         Stages!Visible, Stages!WpsDecoder, Stages!WorksOdt, Stages!OutputGuard,
         Stages!OfficeMembers
  <2>4. Bounded("chm_to_pdf", Stages!Remotely(Stages!ChmDecoder, {}))
    BY DEF Bounded, LooksAt, Stages!Unbounded, Stages!Remotely, Stages!Over, Stages!Engine,
         Stages!Visible, Stages!ChmDecoder
  <2> QED
    BY <2>1, <2>2, <2>3, <2>4, BoundedOne, BoundedAsOne DEF Stages!NativeEngines
<1> QED
  BY <1>1, <1>2, <1>3, <1>4, <1>5, <1>6, <1>7, <1>8, <1>9

\* So it holds for every engine.
LEMMA EnginesBounded == AllBounded(Stages!EngineTable)
<1>1. AllBounded(Stages!Legacy)
  BY DEF AllBounded
<1>2. QED
  BY <1>1, ToFormatsBounded, ToPdfPartsBounded, FromTextBounded, FromDrawingsBounded, BoundedAsOne
  DEF Stages!EngineTable

-----------------------------------------------------------------------------
(* The attempts at a job, with their files.                                *)

Stage == Stages!Ended \cup {"idle", "dead", "reading", "working", "ready", "writing", "written",
                            "converted", "staged", "hashed", "stored"}
Content == [by : {0} \cup Attempts, whole : BOOLEAN]

\* The types of the variables.
StageTypes ==
    /\ engine \in DOMAIN Stages!EngineTable /\ fenced \in BOOLEAN /\ overlap \in BOOLEAN
    /\ flaw \in Stages!Defect \cup Stages!Fault \cup {"none"}
    /\ at \in [Attempts -> Stage]
    /\ file \in [Attempts -> Content] /\ digest \in [Attempts -> Content]
    /\ published \in [Attempts -> Content]

\* Until two attempts overlap, there is one at work at most.
AloneInv == ~overlap => \A a, b \in Attempts : Stages!Active(a) /\ Stages!Active(b) => a = b

\* What an attempt has written stays its own until it is hashed and stored, while
\* no other has its name.
Mine(a) == [by |-> a, whole |-> TRUE]
Own(a) ==
    /\ at[a] = "writing" => file[Stages!Output(a)].by = a
    /\ at[a] \in {"written", "converted", "staged", "hashed"} => file[Stages!Output(a)] = Mine(a)
    /\ at[a] \in {"hashed", "stored", "done"} => digest[a] = Mine(a)
    /\ at[a] \in {"stored", "done"} => published[a] = Mine(a)

\* An attempt has got past every look its engine takes.
Recorded == {"converted", "staged", "hashed", "stored", "done"}
Made     == {"ready", "writing", "written"} \cup Recorded
Looked(a) ==
    /\ at[a] \in {"working"} \cup Made => flaw \notin Stages!E.refuses
    /\ at[a] \in Made => flaw \notin Stages!E.verifies
    /\ at[a] \in Recorded => flaw \notin Stages!E.rechecks

Sound(a) == (Stages!Separate => Own(a)) /\ Looked(a)

StageInv == StageTypes /\ AloneInv /\ \A a \in Attempts : Sound(a)

\* Nothing is there at first.
LEMMA StageInit == Stages!Init => StageInv
<1> SUFFICES ASSUME Stages!Init PROVE StageInv
  OBVIOUS
<1>1. \A a \in Attempts : at[a] = "idle"
  BY DEF Stages!Init
<1>2. StageTypes
  BY DEF Stages!Init, StageTypes, Stage, Content, Stages!Absent
<1>3. AloneInv
  BY <1>1 DEF AloneInv, Stages!Active
<1>4. ASSUME NEW a \in Attempts PROVE Sound(a)
  BY <1>1, <1>4 DEF Sound, Own, Looked, Made, Recorded
<1>5. QED
  BY <1>2, <1>3, <1>4 DEF StageInv

\* What a step of attempt a leaves to the others: all but the file under the name
\* it has itself, where it puts nothing of theirs.
Frame(a) ==
    /\ UNCHANGED <<engine, flaw, fenced>>
    /\ \A b \in Attempts \ {a} :
          at'[b] = at[b] /\ digest'[b] = digest[b] /\ published'[b] = published[b]
    /\ \A p \in Attempts \ {Stages!Output(a)} : file'[p] = file[p]
    /\ file'[Stages!Output(a)] = file[Stages!Output(a)] \/ file'[Stages!Output(a)].by \in {0, a}

LEMMA OutputIn == \A a \in Attempts : Stages!Output(a) \in Attempts
BY AttemptsAssumption DEF Stages!Output

\* So the others stay as sound as they were, if it was at work alone or has a
\* name of its own.
LEMMA OthersSound ==
    ASSUME StageInv, NEW a \in Attempts, Stages!Active(a), Frame(a), overlap' = overlap,
           NEW b \in Attempts \ {a}
    PROVE  Sound(b)'
<1>1. Sound(b) /\ at'[b] = at[b] /\ digest'[b] = digest[b]
      /\ published'[b] = published[b] /\ UNCHANGED <<engine, flaw, fenced, overlap>>
  BY DEF StageInv, Frame
<1>2. Stages!Output(b)' = Stages!Output(b) /\ (Stages!Separate' <=> Stages!Separate)
  BY <1>1 DEF Stages!Output, Stages!Separate
<1>3. a \in Nat /\ b \in Nat /\ b # 0 /\ a # b
  BY AttemptsAssumption
<1>4. file'[Stages!Output(b)] = file[Stages!Output(b)] \/ file'[Stages!Output(b)].by # b
  BY <1>3, OutputIn DEF Frame
<1>6. Looked(b)'
  BY <1>1 DEF Sound, Looked, Stages!E
<1>7. ASSUME Stages!Separate PROVE Own(b)'
  <2>1. CASE fenced
    <3>1. file'[Stages!Output(b)] = file[Stages!Output(b)]
      BY <1>3, <2>1 DEF Frame, Stages!Output
    <3>2. QED
      BY <1>1, <1>2, <1>7, <3>1 DEF Sound, Own, Mine
  <2>2. CASE ~overlap
    <3>1. ~Stages!Active(b)
      BY <1>3, <2>2 DEF StageInv, AloneInv
    <3>2. QED
      BY <1>1, <1>7, <3>1 DEF Sound, Own, Mine, Stages!Active, Stages!Ended
  <2>3. QED
    BY <1>7, <2>1, <2>2 DEF Stages!Separate
<1>8. QED
  BY <1>2, <1>6, <1>7 DEF Sound

\* It is enough to look at the attempt that moves.
LEMMA MoverSound ==
    ASSUME StageInv, NEW a \in Attempts, Stages!Active(a), Frame(a), overlap' = overlap,
           StageTypes', Sound(a)'
    PROVE  StageInv'
<1>1. \A b \in Attempts : Sound(b)'
  BY OthersSound
<1>2. \A b \in Attempts : Stages!Active(b)' => Stages!Active(b)
  BY DEF Stages!Active, Frame
<1>3. AloneInv'
  BY <1>2 DEF StageInv, AloneInv
<1>4. QED
  BY <1>1, <1>3 DEF StageInv

\* An attempt that starts while another works ends their being separate.
LEMMA BeginStep ==
    ASSUME StageInv, NEW a \in Attempts, Stages!Begin(a)
    PROVE  StageInv'
<1>1. /\ at[a] = "idle" /\ at' = [at EXCEPT ![a] = "reading"]
      /\ overlap' = (overlap \/ \E b \in Attempts : Stages!Active(b))
      /\ UNCHANGED <<engine, flaw, fenced, file, digest, published>>
  BY DEF Stages!Begin, Stages!Move, Stages!Result
<1>2. StageTypes'
  BY <1>1 DEF StageInv, StageTypes, Stage
<1>3. AloneInv'
  BY <1>1 DEF StageInv, StageTypes, AloneInv, Stages!Active
<1>4. \A b \in Attempts : Stages!Output(b)' = Stages!Output(b)
  BY <1>1 DEF Stages!Output
<1>5. Stages!Separate' => Stages!Separate
  BY <1>1 DEF Stages!Separate, StageInv, StageTypes
<1>6. ASSUME NEW b \in Attempts PROVE Sound(b)'
  <2>2. Stages!Separate' => Own(b)'
    BY <1>1, <1>4, <1>5 DEF StageInv, StageTypes, Sound, Own, Mine
  <2>3. Looked(b)'
    BY <1>1 DEF StageInv, StageTypes, Sound, Looked, Made, Recorded, Stages!E
  <2>4. QED
    BY <2>2, <2>3 DEF Sound
<1>7. QED
  BY <1>2, <1>3, <1>6 DEF StageInv

\* An attempt that ends without success, wherever it was, takes everything along.
LEMMA EndStep ==
    ASSUME StageInv, NEW a \in Attempts, Stages!Active(a),
           NEW end \in {"failed", "cancelled", "blocked"}, Stages!End(a, end)
    PROVE  StageInv'
<1>1. /\ at' = [at EXCEPT ![a] = end]
      /\ file' = [file EXCEPT ![Stages!Output(a)] = Stages!Absent]
      /\ published' = [published EXCEPT ![a] = Stages!Absent]
      /\ UNCHANGED <<engine, flaw, fenced, overlap, digest>>
  BY DEF Stages!End, Stages!Move, Stages!Put, Stages!Job
<1>2. Stages!Absent \in Content /\ Stages!Absent.by = 0
  BY DEF Stages!Absent, Content
<1>3. Stages!Output(a) \in Attempts /\ Stages!Output(a)' = Stages!Output(a) /\ a # 0
  BY <1>1, OutputIn, AttemptsAssumption DEF Stages!Output
<1>4. StageTypes'
  BY <1>1, <1>2, <1>3 DEF StageInv, StageTypes, Stage, Stages!Ended
<1>5. Frame(a)
  BY <1>1, <1>2, <1>3 DEF Frame, StageInv, StageTypes
<1>6. at'[a] = end
  BY <1>1 DEF StageInv, StageTypes
<1>7. Sound(a)'
  BY <1>6 DEF Sound, Own, Looked, Made, Recorded
<1>8. QED
  BY <1>1, <1>4, <1>5, <1>7, MoverSound

\* A killed attempt leaves what it had.
LEMMA KillStep ==
    ASSUME StageInv, NEW a \in Attempts, Stages!Die(a)
    PROVE  StageInv'
<1>1. /\ Stages!Active(a) /\ at' = [at EXCEPT ![a] = "dead"]
      /\ UNCHANGED <<engine, flaw, fenced, overlap, file, digest, published>>
  BY DEF Stages!Die, Stages!Move, Stages!Job, Stages!Result
<1>2. StageTypes' /\ Frame(a)
  BY <1>1 DEF StageInv, StageTypes, Stage, Frame
<1>3. at'[a] = "dead"
  BY <1>1 DEF StageInv, StageTypes
<1>4. Sound(a)'
  BY <1>1, <1>3 DEF Sound, Own, Looked, Made, Recorded, Stages!Ended
<1>5. QED
  BY <1>1, <1>2, <1>4, MoverSound

\* The engine's looks: at the source, at the product, and at what carries the name.
LEMMA LookOnStep ==
    ASSUME StageInv, NEW a \in Attempts,
           Stages!Read(a) \/ Stages!Verify(a) \/ Stages!Recheck(a)
    PROVE  StageInv'
<1>1. Stages!Active(a)
  BY DEF Stages!Read, Stages!Verify, Stages!Recheck, Stages!Active, Stages!Ended
<1>2. CASE Stages!Fail(a) \/ Stages!Blocked(a)
  BY <1>1, <1>2, EndStep DEF Stages!Fail, Stages!Blocked
<1>3. CASE \/ /\ at[a] = "reading" /\ flaw \notin Stages!E.refuses
              /\ at' = [at EXCEPT ![a] = "working"]
              /\ UNCHANGED <<engine, flaw, fenced, overlap, file, digest, published>>
           \/ /\ at[a] = "working" /\ flaw \notin Stages!E.verifies
              /\ at' = [at EXCEPT ![a] = "ready"]
              /\ UNCHANGED <<engine, flaw, fenced, overlap, file, digest, published>>
           \/ /\ at[a] = "written" /\ flaw \notin Stages!E.rechecks
              /\ at' = [at EXCEPT ![a] = "converted"]
              /\ UNCHANGED <<engine, flaw, fenced, overlap, file, digest, published>>
  <2>1. StageTypes' /\ Frame(a) /\ overlap' = overlap
    BY <1>3 DEF StageInv, StageTypes, Stage, Frame
  <2>2. /\ UNCHANGED <<engine, flaw, fenced, overlap, file, digest, published>>
        /\ \/ at[a] = "reading" /\ at'[a] = "working" /\ flaw \notin Stages!E.refuses
           \/ at[a] = "working" /\ at'[a] = "ready" /\ flaw \notin Stages!E.verifies
           \/ at[a] = "written" /\ at'[a] = "converted" /\ flaw \notin Stages!E.rechecks
    BY <1>3 DEF StageInv, StageTypes
  <2>3. Sound(a) /\ Stages!Output(a)' = Stages!Output(a) /\ Stages!E' = Stages!E
        /\ (Stages!Separate' <=> Stages!Separate)
    BY <2>2 DEF StageInv, Stages!Output, Stages!E, Stages!Separate
  <2>4. Looked(a)' /\ (Stages!Separate' => Own(a)')
    BY <2>2, <2>3 DEF Sound, Looked, Own, Mine, Made, Recorded, Stages!Ended
  <2>5. QED
    BY <1>1, <2>1, <2>3, <2>4, MoverSound DEF Sound
<1>4. QED
  BY <1>2, <1>3
  DEF Stages!Read, Stages!Verify, Stages!Recheck, Stages!Move, Stages!Job, Stages!Result

\* The product gets its name, at once or to be filled bit by bit.
LEMMA NameStep ==
    ASSUME StageInv, NEW a \in Attempts, Stages!GiveName(a)
    PROVE  StageInv'
<1>1. at[a] = "ready" /\ Stages!Active(a)
  BY DEF Stages!GiveName, Stages!Active, Stages!Ended
<1>2. CASE Stages!Blocked(a)
  BY <1>1, <1>2, EndStep DEF Stages!Blocked
<1>3. ASSUME NEW whole \in BOOLEAN,
             file' = [file EXCEPT ![Stages!Output(a)] = [by |-> a, whole |-> whole]],
             at' = [at EXCEPT ![a] = IF whole THEN "written" ELSE "writing"],
             UNCHANGED <<engine, flaw, fenced, overlap, digest, published>>
      PROVE  StageInv'
  <2>1. Stages!Output(a) \in Attempts /\ Stages!Output(a)' = Stages!Output(a) /\ a \in Nat
    BY <1>3, OutputIn, AttemptsAssumption DEF Stages!Output
  <2>2. at'[a] \in {"written", "writing"} /\ (whole <=> at'[a] = "written")
        /\ file'[Stages!Output(a)] = [by |-> a, whole |-> whole]
    BY <1>3, <2>1 DEF StageInv, StageTypes
  <2>3. [by |-> a, whole |-> whole] \in Content
    BY <2>1 DEF Content
  <2>4. StageTypes'
    <3>1. at' \in [Attempts -> Stage]
      BY <1>3 DEF StageInv, StageTypes, Stage
    <3>2. QED
      BY <1>3, <2>1, <2>3, <3>1 DEF StageInv, StageTypes
  <2>5. Frame(a)
    BY <1>3, <2>1 DEF StageInv, StageTypes, Frame
  <2>6. Sound(a)
    BY DEF StageInv
  <2>7. Own(a)'
    <3>1. CASE whole = TRUE
      BY <2>1, <2>2, <3>1 DEF Own, Mine, Stages!Ended
    <3>2. CASE whole = FALSE
      BY <2>1, <2>2, <3>2 DEF Own, Mine, Stages!Ended
    <3>3. QED
      BY <3>1, <3>2
  <2>8. Looked(a)'
    BY <1>1, <1>3, <2>2, <2>6 DEF Sound, Looked, Made, Recorded, Stages!E
  <2>9. QED
    BY <1>1, <1>3, <2>4, <2>5, <2>7, <2>8, MoverSound DEF Sound
<1>4. QED
  <2> DEFINE whole == Stages!E.puts \in {"rename", "link"}
  <2>1. CASE ~Stages!Blocked(a)
    <3>1. /\ file' = [file EXCEPT ![Stages!Output(a)] = [by |-> a, whole |-> whole]]
          /\ at' = [at EXCEPT ![a] = IF whole THEN "written" ELSE "writing"]
          /\ UNCHANGED <<engine, flaw, fenced, overlap, digest, published>>
      BY <2>1 DEF Stages!GiveName, Stages!Put, Stages!Move, Stages!Job, Stages!Result
    <3>2. whole \in BOOLEAN
      OBVIOUS
    <3> HIDE DEF whole
    <3>3. QED
      BY <1>3, <3>1, <3>2
  <2>2. QED
    BY <1>2, <2>1

\* The last bytes make it whole, or go where it has lost the name.
LEMMA FillStep ==
    ASSUME StageInv, NEW a \in Attempts, Stages!Fill(a)
    PROVE  StageInv'
<1>1. /\ at[a] = "writing" /\ at' = [at EXCEPT ![a] = "written"]
      /\ IF file[Stages!Output(a)].by = a THEN file' = [file EXCEPT ![Stages!Output(a)] = Mine(a)]
         ELSE file' \in {file, [file EXCEPT ![Stages!Output(a)] = [by |-> 0, whole |-> TRUE]]}
      /\ UNCHANGED <<engine, flaw, fenced, overlap, digest, published>>
  BY DEF Stages!Fill, Stages!Put, Stages!Move, Stages!Job, Stages!Result, Mine
<1>2. Stages!Active(a)
  BY <1>1 DEF Stages!Active, Stages!Ended
<1>3. Stages!Output(a) \in Attempts /\ Stages!Output(a)' = Stages!Output(a) /\ a \in Nat
  BY <1>1, OutputIn, AttemptsAssumption DEF Stages!Output
<1>4. at'[a] = "written" /\ (file[Stages!Output(a)].by = a => file'[Stages!Output(a)] = Mine(a))
      /\ file'[Stages!Output(a)] \in {file[Stages!Output(a)], Mine(a), [by |-> 0, whole |-> TRUE]}
  BY <1>1, <1>3 DEF StageInv, StageTypes
<1>5. Mine(a) \in Content /\ [by |-> 0, whole |-> TRUE] \in Content
  BY <1>3 DEF Content, Mine
<1>6. StageTypes'
  <2>1. at' \in [Attempts -> Stage]
    BY <1>1 DEF StageInv, StageTypes, Stage
  <2>2. file' \in [Attempts -> Content]
    BY <1>1, <1>3, <1>5 DEF StageInv, StageTypes
  <2>3. QED
    BY <1>1, <2>1, <2>2 DEF StageInv, StageTypes
<1>7. Frame(a)
  <2>1. \A p \in Attempts \ {Stages!Output(a)} : file'[p] = file[p]
    BY <1>1, <1>3 DEF StageInv, StageTypes
  <2>2. file'[Stages!Output(a)] = file[Stages!Output(a)] \/ file'[Stages!Output(a)].by \in {0, a}
    BY <1>4 DEF Mine
  <2>3. QED
    BY <1>1, <2>1, <2>2 DEF StageInv, StageTypes, Frame
<1>8. Sound(a) /\ (Stages!Separate' <=> Stages!Separate)
  BY <1>1 DEF StageInv, Stages!Separate
<1>9. Looked(a)'
  BY <1>1, <1>4, <1>8 DEF Sound, Looked, Made, Recorded, Stages!Ended, Stages!E
<1>10. Stages!Separate => Own(a)'
  BY <1>1, <1>3, <1>4, <1>8 DEF Sound, Own, Mine
<1>11. QED
  BY <1>1, <1>2, <1>6, <1>7, <1>8, <1>9, <1>10, MoverSound DEF Sound

\* The worker sees to the parts, finds the job cancelled, or goes on.
LEMMA PartsStep ==
    ASSUME StageInv, NEW a \in Attempts,
           Stages!StageParts(a) \/ Stages!FindCancelled(a) \/ Stages!Raise(a)
    PROVE  StageInv'
<1>1. Stages!Active(a)
  BY DEF Stages!StageParts, Stages!FindCancelled, Stages!Raise, Stages!Active, Stages!Ended
<1>2. CASE Stages!Fail(a) \/ Stages!FindCancelled(a)
  BY <1>1, <1>2, EndStep DEF Stages!Fail, Stages!FindCancelled
<1>3. CASE /\ at[a] = "converted" /\ at' = [at EXCEPT ![a] = "staged"]
           /\ UNCHANGED <<engine, flaw, fenced, overlap, file, digest, published>>
  <2>1. StageTypes' /\ Frame(a)
    BY <1>3 DEF StageInv, StageTypes, Stage, Frame
  <2>2. at'[a] = "staged" /\ Sound(a) /\ Stages!Output(a)' = Stages!Output(a)
        /\ (Stages!Separate' <=> Stages!Separate)
    BY <1>3 DEF StageInv, StageTypes, Stages!Output, Stages!Separate
  <2>3. Looked(a)' /\ (Stages!Separate => Own(a)')
    BY <1>3, <2>2 DEF Sound, Looked, Own, Mine, Made, Recorded, Stages!Ended, Stages!E
  <2>4. QED
    BY <1>1, <1>3, <2>1, <2>2, <2>3, MoverSound DEF Sound
<1>4. QED
  BY <1>2, <1>3
  DEF Stages!StageParts, Stages!Raise, Stages!Move, Stages!Job, Stages!Result

\* What is hashed is what is stored, and what is recorded.
LEMMA HashStep ==
    ASSUME StageInv, NEW a \in Attempts, Stages!Hash(a)
    PROVE  StageInv'
<1>1. at[a] = "staged" /\ Stages!Active(a)
  BY DEF Stages!Hash, Stages!Active, Stages!Ended
<1>2. CASE Stages!Fail(a)
  BY <1>1, <1>2, EndStep DEF Stages!Fail
<1>3. CASE /\ at' = [at EXCEPT ![a] = "hashed"]
           /\ digest' = [digest EXCEPT ![a] = file[Stages!Output(a)]]
           /\ UNCHANGED <<engine, flaw, fenced, overlap, file, published>>
  <2>1. at'[a] = "hashed" /\ digest'[a] = file[Stages!Output(a)] /\ Sound(a)
        /\ Stages!Output(a) \in Attempts /\ Stages!Output(a)' = Stages!Output(a)
        /\ (Stages!Separate' <=> Stages!Separate)
    BY <1>3, OutputIn DEF StageInv, StageTypes, Stages!Output, Stages!Separate
  <2>2. StageTypes' /\ Frame(a)
    BY <1>3, <2>1 DEF StageInv, StageTypes, Stage, Frame
  <2>3. Looked(a)' /\ (Stages!Separate => Own(a)')
    BY <1>1, <1>3, <2>1 DEF Sound, Looked, Own, Mine, Made, Recorded, Stages!Ended, Stages!E
  <2>4. QED
    BY <1>1, <1>3, <2>1, <2>2, <2>3, MoverSound DEF Sound
<1>4. QED
  BY <1>2, <1>3 DEF Stages!Hash, Stages!Move, Stages!Job

LEMMA StoreObjectStep ==
    ASSUME StageInv, NEW a \in Attempts, Stages!Store(a)
    PROVE  StageInv'
<1>1. at[a] = "hashed" /\ Stages!Active(a)
  BY DEF Stages!Store, Stages!Active, Stages!Ended
<1>2. CASE Stages!Fail(a)
  BY <1>1, <1>2, EndStep DEF Stages!Fail
<1>3. CASE /\ at' = [at EXCEPT ![a] = "stored"]
           /\ published' = [published EXCEPT ![a] = file[Stages!Output(a)]]
           /\ file' = [file EXCEPT ![Stages!Output(a)] = Stages!Absent]
           /\ UNCHANGED <<engine, flaw, fenced, overlap, digest>>
  <2>1. at'[a] = "stored" /\ published'[a] = file[Stages!Output(a)] /\ Sound(a)
        /\ Stages!Output(a) \in Attempts /\ Stages!Output(a)' = Stages!Output(a)
        /\ (Stages!Separate' <=> Stages!Separate)
    BY <1>3, OutputIn DEF StageInv, StageTypes, Stages!Output, Stages!Separate
  <2>2. Stages!Absent \in Content /\ Stages!Absent.by = 0 /\ a # 0
    BY AttemptsAssumption DEF Stages!Absent, Content
  <2>3. file'[Stages!Output(a)].by = 0
    BY <1>3, <2>1, <2>2 DEF StageInv, StageTypes
  <2>4. StageTypes' /\ Frame(a)
    BY <1>3, <2>1, <2>2, <2>3 DEF StageInv, StageTypes, Stage, Frame
  <2>5. Looked(a)' /\ (Stages!Separate => Own(a)')
    BY <1>1, <1>3, <2>1, <2>2, <2>3
    DEF Sound, Looked, Own, Mine, Made, Recorded, Stages!Ended, Stages!E
  <2>6. QED
    BY <1>1, <1>3, <2>1, <2>4, <2>5, MoverSound DEF Sound
<1>4. QED
  BY <1>2, <1>3 DEF Stages!Store, Stages!Move, Stages!Put, Stages!Job

LEMMA RecordStep ==
    ASSUME StageInv, NEW a \in Attempts, Stages!Commit(a)
    PROVE  StageInv'
<1>1. /\ at[a] = "stored" /\ at' = [at EXCEPT ![a] = "done"]
      /\ UNCHANGED <<engine, flaw, fenced, overlap, file, digest, published>>
  BY DEF Stages!Commit, Stages!Move, Stages!Job, Stages!Result
<1>2. Stages!Active(a)
  BY <1>1 DEF Stages!Active, Stages!Ended
<1>3. StageTypes' /\ Frame(a)
  BY <1>1 DEF StageInv, StageTypes, Stage, Stages!Ended, Frame
<1>4. at'[a] = "done" /\ Sound(a) /\ Stages!Output(a)' = Stages!Output(a)
      /\ (Stages!Separate' <=> Stages!Separate)
  BY <1>1 DEF StageInv, StageTypes, Stages!Output, Stages!Separate
<1>5. Looked(a)' /\ (Stages!Separate => Own(a)')
  BY <1>1, <1>4 DEF Sound, Looked, Own, Mine, Made, Recorded, Stages!Ended, Stages!E
<1>6. QED
  BY <1>1, <1>2, <1>3, <1>4, <1>5, MoverSound DEF Sound

LEMMA StageStep ==
    ASSUME StageInv, Stages!Next \/ UNCHANGED conversion
    PROVE  StageInv'
<1>1. CASE UNCHANGED conversion
  <2>1. UNCHANGED <<engine, flaw, fenced, at, file, digest, published, overlap>>
    BY <1>1 DEF conversion
  <2>2. StageTypes' /\ AloneInv'
    BY <2>1 DEF StageInv, StageTypes, AloneInv, Stages!Active
  <2>3. \A a \in Attempts : Sound(a)'
    BY <2>1 DEF StageInv, Sound, Own, Mine, Looked, Stages!E, Stages!Output, Stages!Separate
  <2>4. QED
    BY <2>2, <2>3 DEF StageInv
<1>2. QED
  BY <1>1, BeginStep, LookOnStep, NameStep, FillStep, PartsStep, HashStep, StoreObjectStep,
     RecordStep, KillStep
  DEF Stages!Next

\* The stages in focus move by their own actions, and stay in focus.
LEMMA StageFocus ==
    [Next]_vars => /\ focus = "conversion" => Stages!Next \/ UNCHANGED conversion
                   /\ UNCHANGED focus
BY DEF Next, vars

\* The invariant holds throughout.
LEMMA StagesSound == Spec => [](focus = "conversion" => StageInv)
<1> DEFINE Inv == focus = "conversion" => StageInv
<1>1. Init => Inv
  BY StageInit DEF Init
<1>2. Inv /\ [Next]_vars => Inv'
  BY StageFocus, StageStep
<1>3. QED
  BY <1>1, <1>2, PTL DEF Spec

\* The variables of the conversions have their types, whatever the engine (every
\* converter, process_job).
THEOREM StageTypesHold == Spec => [](focus = "conversion" => Stages!TypeOK)
<1>1. StageInv => Stages!TypeOK
  BY DEF StageInv, StageTypes, Stage, Content, Stages!TypeOK
<1>2. (focus = "conversion" => StageInv) => (focus = "conversion" => Stages!TypeOK)
  BY <1>1
<1>3. QED
  BY <1>2, StagesSound, PTL

\* What a job records is the whole product of the attempt that records it, within
\* the budgets of its engine, for every engine and any number of attempts
\* (process_job, every converter).
THEOREM RecordedIsWhole == Spec => []PublishedIsWhole
<1>1. ASSUME StageInv, NEW a \in Attempts, at[a] = "done"
      PROVE  engine \in DOMAIN Stages!Legacy \/ flaw \notin DOMAIN Stages!LetsThrough
             \/ engine \in Stages!LetsThrough[flaw]
  <2>1. flaw \notin LooksAt(Stages!E)
    BY <1>1 DEF StageInv, Sound, Looked, Made, Recorded, LooksAt
  <2>2. engine \in DOMAIN Stages!Legacy \/ Bounded(engine, Stages!E)
    BY <1>1, EnginesBounded DEF StageInv, StageTypes, AllBounded, Stages!E
  <2> DEFINE Damaged == {"pdf_to_text_only_rtf", "extract_searchable_text"}
             o == Stages!:>("outsized", {})
             d == Stages!:>("damaged", Damaged)
             b == Stages!:>("bulky", Stages!Unbounded)
             From(f) == CHOOSE t \in {o, d, b} : f \in DOMAIN t
  <2>3. /\ DOMAIN Stages!LetsThrough = {"outsized" , "damaged", "bulky"}
        /\ Stages!LetsThrough["damaged"] = Damaged
        /\ Stages!LetsThrough["bulky"] = Stages!Unbounded
    <3>1. DOMAIN o = {"outsized"} /\ DOMAIN d = {"damaged"} /\ DOMAIN b = {"bulky"}
      BY DEF Stages!:>
    <3>2. d["damaged"] = Damaged /\ b["bulky"] = Stages!Unbounded
      BY DEF Stages!:>
    <3>3. Stages!LetsThrough = [f \in UNION {DOMAIN t : t \in {o, d, b}} |-> From(f)[f]]
      BY DEF Stages!LetsThrough, Stages!AsOne
    <3> HIDE DEF o, d, b
    <3>4. UNION {DOMAIN t : t \in {o, d, b}} = {"outsized", "damaged", "bulky"}
      BY <3>1
    <3>5. From("damaged") = d /\ From("bulky") = b
      BY <3>1
    <3> HIDE DEF From
    <3>6. QED
      BY <3>2, <3>3, <3>4, <3>5
  <2>4. QED
    BY <2>1, <2>2, <2>3 DEF Bounded
<1>2. StageInv => Stages!PublishedIsWhole
  BY <1>1 DEF StageInv, Sound, Own, Mine, Stages!PublishedIsWhole
<1>3. (focus = "conversion" => StageInv) => PublishedIsWhole
  BY <1>2 DEF PublishedIsWhole
<1>4. QED
  BY <1>3, StagesSound, PTL
=============================================================================
