--------------------------- MODULE PipelineProofs ---------------------------
(***************************************************************************)
(* Theorems about module Pipeline, for every value of its constants: any   *)
(* number of processes, messages, accounts and runs, any window and any    *)
(* combination of faults.                                                  *)
(*                                                                         *)
(* Each action keeps the inductive invariant IInv (lemmas ...Keeps).       *)
(* WorkStep, QuietStep and LeavingStep reduce an action of process p to an *)
(* obligation about p alone: other processes work on other runs.           *)
(***************************************************************************)
EXTENDS Pipeline, TLAPS

-----------------------------------------------------------------------------
(* Each action keeps the types.  Types alone are not inductive: a step is  *)
(* well typed only if its process has a run (job[p].run \in RunIds) and,   *)
(* in the flag loop, only labels that are keywords; the invariant below    *)
(* establishes both.                                                       *)

\* Become and Goto change the entry of one process.
LEMMA Becoming ==
  ASSUME job \in [Procs -> Job], NEW p \in Procs, NEW j \in Job, Become(p, j)
  PROVE  job' \in [Procs -> Job] /\ job'[p] = j /\ \A q \in Procs \ {p} : job'[q] = job[q]
BY DEF Become

\* Goto changes the stage of one process.
LEMMA Moving ==
  ASSUME pc \in [Procs -> Stages], NEW p \in Procs, NEW s \in Stages, Goto(p, s)
  PROVE  pc' \in [Procs -> Stages] /\ pc'[p] = s /\ \A q \in Procs \ {p} : pc'[q] = pc[q]
BY DEF Goto

\* The window is an integer time, whichever branch of fetchWindow computed it.
LEMMA FetchWindowType ==
  ASSUME TypeOK, NEW p \in Procs, FetchWindow(p), job[p].run \in RunIds
  PROVE  TypeOK'
<1>1. job[p] \in Job BY DEF TypeOK
<1>2. pc' \in [Procs -> Stages] BY Moving DEF FetchWindow, TypeOK, Stages
<1>3. PICK since \in WindowStart(job[p].opts) :
        /\ Become(p, [job[p] EXCEPT !.since = since, !.todoA = Accounts])
        /\ hist' = [hist EXCEPT ![job[p].run] = Noted(@, job[p].opts, since)]
  BY DEF FetchWindow
<1>4. clock \in Nat /\ finishedAt \in [RunIds -> Nat] /\ job[p].opts.window \in Nat BY <1>1 DEF TypeOK, Job, Option
<1>4a. LastSuccess \subseteq Nat BY <1>4 DEF LastSuccess
<1>5. since \in Int
  <2>1. \A t \in Int, z \in {0, HostZone} : Day(t, z) \in Int BY PipelineAssumption DEF Day
  <2>2. \A t \in Nat, d \in Nat : t - d \in Int OBVIOUS
  <2>3. DynamicSince(job[p].opts.stateless) \subseteq Int
    BY <1>4, <1>4a, <2>1, <2>2, PipelineAssumption DEF DynamicSince, Later
  <2> QED BY <1>3, <1>4, <2>1, <2>2, <2>3 DEF WindowStart
<1>6. [job[p] EXCEPT !.since = since, !.todoA = Accounts] \in Job BY <1>1, <1>5 DEF Job
<1>7. job' \in [Procs -> Job] BY <1>3, <1>6, Becoming DEF TypeOK
<1>8. hist' \in [RunIds -> History]
  <2>1. hist[job[p].run] \in History BY DEF TypeOK
  <2>2. Noted(hist[job[p].run], job[p].opts, since) \in History
    BY <1>4, <1>5, <2>1 DEF Noted, History
  <2>3. hist \in [RunIds -> History] BY DEF TypeOK
  <2> QED BY <1>3, <2>2, <2>3
<1> QED BY <1>2, <1>7, <1>8 DEF TypeOK, FetchWindow, world, ledger

\* The fields of a job, once and for all.
LEMMA JobType ==
  ASSUME TypeOK, NEW p \in Procs
  PROVE  /\ job[p] \in Job /\ job[p].run \in RunIds \cup {0} /\ job[p].opts \in Option
         /\ job[p].since \in Int
         /\ job[p].failed \subseteq Accounts /\ job[p].msgs \subseteq Messages
         /\ job[p].label \in Labelling
         /\ job[p].bad \subseteq Messages /\ job[p].llmErr \in BOOLEAN
         /\ job[p].shown \subseteq Messages /\ job[p].status \in Status
         /\ job[p].todoA \subseteq Accounts /\ job[p].todoM \subseteq Messages
BY DEF TypeOK, Job

\* The statuses the code assigns are statuses.
LEMMA StatusNames ==
  {"none", "completed", "degraded", "ingest_failed", "partial", "partially_classified"} \subseteq Status
BY DEF Status, Final

\* An action that only moves the process on, and changes its job and the history.
LEMMA OnlyProcessType ==
  ASSUME TypeOK, UNCHANGED <<world, ledger, cancelled, nextRun>>,
         pc' \in [Procs -> Stages], job' \in [Procs -> Job], hist' \in [RunIds -> History]
  PROVE  TypeOK'
BY DEF TypeOK, world, ledger

\* A failed watermark query only sets the status.
LEMMA WindowFailsType ==
  ASSUME TypeOK, NEW p \in Procs, FetchWindowFails(p)
  PROVE  TypeOK'
<1>1. [job[p] EXCEPT !.status = "ingest_failed"] \in Job BY JobType, StatusNames DEF Job
<1>2. job' \in [Procs -> Job] BY <1>1, Becoming DEF FetchWindowFails, TypeOK
<1>3. pc' \in [Procs -> Stages] BY Moving DEF FetchWindowFails, TypeOK, Stages
<1>4. hist' \in [RunIds -> History] BY DEF FetchWindowFails, TypeOK
<1> QED BY <1>2, <1>3, <1>4, OnlyProcessType DEF FetchWindowFails

\* Fetched messages are message keys.
LEMMA FetchAccountType ==
  ASSUME TypeOK, NEW p \in Procs, NEW a \in Accounts, FetchAccount(p, a), job[p].run \in RunIds
  PROVE  TypeOK'
<1>. DEFINE got == {m \in Messages : AccountOf[m] = a /\ InWindow(m, job[p].since)}
<1>1. [job[p] EXCEPT !.todoA = @ \ {a}, !.msgs = @ \cup got] \in Job BY JobType DEF Job
<1>2. job' \in [Procs -> Job] BY <1>1, Becoming DEF FetchAccount, TypeOK
<1>3. pc' \in [Procs -> Stages] BY DEF FetchAccount, TypeOK
<1>4. hist' \in [RunIds -> History]
  <2>1. hist \in [RunIds -> History] /\ hist[job[p].run] \in History BY DEF TypeOK
  <2>2. [hist[job[p].run] EXCEPT !.fetched = @ \cup got] \in History BY <2>1 DEF History
  <2> QED BY <2>1, <2>2 DEF FetchAccount
<1> QED BY <1>2, <1>3, <1>4, OnlyProcessType DEF FetchAccount

\* Failed accounts are configured accounts.
LEMMA FetchAccountFailsType ==
  ASSUME TypeOK, NEW p \in Procs, NEW a \in Accounts, FetchAccountFails(p, a), job[p].run \in RunIds
  PROVE  TypeOK'
<1>1. [job[p] EXCEPT !.todoA = @ \ {a}, !.failed = @ \cup {a}] \in Job BY JobType DEF Job
<1>2. job' \in [Procs -> Job] BY <1>1, Becoming DEF FetchAccountFails, TypeOK
<1>3. pc' \in [Procs -> Stages] BY DEF FetchAccountFails, TypeOK
<1>4. hist' \in [RunIds -> History]
  <2>1. hist \in [RunIds -> History] /\ hist[job[p].run] \in History BY DEF TypeOK
  <2>2. [hist[job[p].run] EXCEPT !.failed = @ \cup {a}] \in History BY <2>1 DEF History
  <2> QED BY <2>1, <2>2 DEF FetchAccountFails
<1> QED BY <1>2, <1>3, <1>4, OnlyProcessType DEF FetchAccountFails

\* "All accounts failed" only sets the status.
LEMMA IngestFailsType ==
  ASSUME TypeOK, NEW p \in Procs, IngestFails(p)
  PROVE  TypeOK'
<1>1. [job[p] EXCEPT !.status = "ingest_failed"] \in Job BY JobType, StatusNames DEF Job
<1>2. job' \in [Procs -> Job] BY <1>1, Becoming DEF IngestFails, TypeOK
<1>3. pc' \in [Procs -> Stages] BY Moving DEF IngestFails, TypeOK, Stages
<1> QED BY <1>2, <1>3, OnlyProcessType DEF IngestFails, TypeOK

\* What the dedup filter leaves is a set of messages.
LEMMA ProceedType ==
  ASSUME TypeOK, NEW p \in Procs, NEW fresh \in SUBSET Messages, Proceed(p, fresh)
  PROVE  pc' \in [Procs -> Stages] /\ job' \in [Procs -> Job]
<1>1. CASE fresh = {}
  <2>1. [job[p] EXCEPT !.msgs = {}, !.status = "completed"] \in Job BY JobType, StatusNames DEF Job
  <2>2. job' \in [Procs -> Job] BY <1>1, <2>1, Becoming DEF Proceed, TypeOK
  <2>3. pc' \in [Procs -> Stages] BY <1>1, Moving DEF Proceed, TypeOK, Stages
  <2> QED BY <2>2, <2>3
<1>2. CASE fresh # {}
  <2>. DEFINE s == IF job[p].failed # {} THEN "partial" ELSE "none"
  <2>0. s \in Status BY StatusNames
  <2>. HIDE DEF s
  <2>1. [job[p] EXCEPT !.msgs = fresh, !.status = s] \in Job BY <2>0, JobType DEF Job
  <2>2. job' \in [Procs -> Job] BY <1>2, <2>1, Becoming DEF Proceed, TypeOK, s
  <2>3. pc' \in [Procs -> Stages] BY <1>2, Moving DEF Proceed, TypeOK, Stages
  <2> QED BY <2>2, <2>3
<1> QED BY <1>1, <1>2

\* Marking a run as blind keeps the history well typed.
LEMMA BlindType ==
  ASSUME TypeOK, NEW r \in RunIds, hist' = [hist EXCEPT ![r].blind = TRUE]
  PROVE  hist' \in [RunIds -> History]
<1>1. hist \in [RunIds -> History] /\ hist[r] \in History BY DEF TypeOK
<1>2. [hist[r] EXCEPT !.blind = TRUE] \in History BY <1>1 DEF History
<1> QED BY <1>1, <1>2

\* The three outcomes of the dedup filter.
LEMMA FilterType ==
  ASSUME TypeOK, NEW p \in Procs, job[p].run \in RunIds,
         SkipFilter(p) \/ FilterProcessed(p) \/ FilterFails(p)
  PROVE  TypeOK'
<1>1. job[p].msgs \in SUBSET Messages BY JobType
<1>2. CASE SkipFilter(p)
  <2>1. pc' \in [Procs -> Stages] /\ job' \in [Procs -> Job] BY <1>1, <1>2, ProceedType DEF SkipFilter
  <2>2. hist' \in [RunIds -> History] BY <1>2, BlindType DEF SkipFilter
  <2> QED BY <1>2, <2>1, <2>2, OnlyProcessType DEF SkipFilter
<1>3. CASE FilterProcessed(p)
  <2>1. Fresh(p) \in SUBSET Messages BY <1>1 DEF Fresh
  <2>2. pc' \in [Procs -> Stages] /\ job' \in [Procs -> Job] BY <2>1, <1>3, ProceedType DEF FilterProcessed
  <2>3. hist' \in [RunIds -> History] BY <1>3 DEF FilterProcessed, TypeOK
  <2> QED BY <1>3, <2>2, <2>3, OnlyProcessType DEF FilterProcessed
<1>4. CASE FilterFails(p)
  <2>1. pc' \in [Procs -> Stages] /\ job' \in [Procs -> Job] BY <1>1, <1>4, ProceedType DEF FilterFails
  <2>2. hist' \in [RunIds -> History] BY <1>4, BlindType DEF FilterFails
  <2> QED BY <1>4, <2>1, <2>2, OnlyProcessType DEF FilterFails
<1> QED BY <1>2, <1>3, <1>4

\* Both outcomes of classification.
LEMMA ClassifyType ==
  ASSUME TypeOK, NEW p \in Procs, Classify(p) \/ ClassifyFails(p)
  PROVE  TypeOK'
<1>1. pc' \in [Procs -> Stages] BY Moving DEF Classify, ClassifyFails, TypeOK, Stages
<1>2. CASE Classify(p)
  <2>1. PICK a \in Answers(p) : Become(p, [job[p] EXCEPT !.label = a.label, !.bad = a.bad])
    BY <1>2 DEF Classify
  <2>2. a.label \in Labelling /\ a.bad \in SUBSET job[p].msgs
    BY DEF Answers, Results
  <2>3. [job[p] EXCEPT !.label = a.label, !.bad = a.bad] \in Job BY <2>2, JobType DEF Job
  <2>4. job' \in [Procs -> Job] BY <2>1, <2>3, Becoming DEF TypeOK
  <2> QED BY <1>1, <1>2, <2>4, OnlyProcessType DEF Classify, TypeOK
<1>3. CASE ClassifyFails(p)
  <2>1. [job[p] EXCEPT !.llmErr = TRUE, !.status = "degraded"] \in Job BY JobType, StatusNames DEF Job
  <2>2. job' \in [Procs -> Job] BY <1>3, <2>1, Becoming DEF ClassifyFails, TypeOK
  <2> QED BY <1>1, <1>3, <2>2, OnlyProcessType DEF ClassifyFails, TypeOK
<1> QED BY <1>2, <1>3

\* The entry into the recording loops.
LEMMA BeginRecordingType ==
  ASSUME TypeOK, NEW p \in Procs, NEW j \in Job, BeginRecording(p, j)
  PROVE  pc' \in [Procs -> Stages] /\ job' \in [Procs -> Job]
<1>1. [j EXCEPT !.todoM = Answered(j) \cap j.msgs] \in Job BY DEF Job, Answered, Labelled
<1>2. job' \in [Procs -> Job] BY <1>1, Becoming DEF BeginRecording, TypeOK
<1>3. (IF MayRecord(j) THEN "messages" ELSE "finish") \in Stages BY DEF Stages
<1>4. pc' \in [Procs -> Stages] BY <1>3, Moving DEF BeginRecording, TypeOK
<1> QED BY <1>2, <1>4

\* Grading yields a status.
LEMMA GradedType ==
  ASSUME NEW j \in Job PROVE Graded(j) \in Status
BY StatusNames DEF Graded, Job

\* Both outcomes of rendering; the accounts to flag are configured ones.
LEMMA RenderType ==
  ASSUME TypeOK, NEW p \in Procs, Render(p) \/ RenderFails(p)
  PROVE  TypeOK'
<1>1. CASE Render(p)
  <2>. DEFINE rendered(s) == [job[p] EXCEPT !.shown = s, !.status = Graded(job[p])]
  <2>1. PICK s \in Selections(job[p].msgs) :
          IF rendered(s).opts.dryRun THEN BeginRecording(p, rendered(s))
          ELSE /\ Become(p, [rendered(s) EXCEPT !.todoA = {AccountOf[m] : m \in Flagged(rendered(s))}])
               /\ Goto(p, StageAfterRender(rendered(s)))
    BY <1>1 DEF Render
  <2>2. s \subseteq Messages BY JobType DEF Selections
  <2>3. rendered(s) \in Job BY <2>2, JobType, GradedType DEF Job
  <2>. HIDE DEF rendered
  <2>4. {AccountOf[m] : m \in Flagged(rendered(s))} \subseteq Accounts
    BY PipelineAssumption DEF Flagged
  <2>5. [rendered(s) EXCEPT !.todoA = {AccountOf[m] : m \in Flagged(rendered(s))}] \in Job
    BY <2>3, <2>4 DEF Job
  <2>6. StageAfterRender(rendered(s)) \in Stages BY DEF StageAfterRender, Stages
  <2>7. CASE rendered(s).opts.dryRun
    <3>1. pc' \in [Procs -> Stages] /\ job' \in [Procs -> Job] BY <2>1, <2>3, <2>7, BeginRecordingType
    <3> QED BY <1>1, <3>1, OnlyProcessType DEF Render, TypeOK
  <2>8. CASE ~rendered(s).opts.dryRun
    <3>1. job' \in [Procs -> Job] BY <2>1, <2>5, <2>8, Becoming DEF TypeOK
    <3>2. pc' \in [Procs -> Stages] BY <2>1, <2>6, <2>8, Moving DEF TypeOK
    <3> QED BY <1>1, <3>1, <3>2, OnlyProcessType DEF Render, TypeOK
  <2> QED BY <2>7, <2>8
<1>2. CASE RenderFails(p)
  <2>1. [job[p] EXCEPT !.status = "degraded"] \in Job BY JobType, StatusNames DEF Job
  <2>2. job' \in [Procs -> Job] BY <1>2, <2>1, Becoming DEF RenderFails, TypeOK
  <2>3. pc' \in [Procs -> Stages] BY <1>2, Moving DEF RenderFails, TypeOK, Stages
  <2> QED BY <1>2, <2>2, <2>3, OnlyProcessType DEF RenderFails, TypeOK
<1> QED BY <1>1, <1>2

\* Keywords are written for classified messages, with labels that are keywords.
LEMMA FlagAccountType ==
  ASSUME TypeOK, NEW p \in Procs, NEW a \in Accounts, FlagAccount(p, a)
  PROVE  TypeOK'
<1>. DEFINE want == {<<m, job[p].label[m]>> : m \in {f \in Flagged(job[p]) : AccountOf[f] = a}}
<1>1. want \subseteq Messages \X Labels BY DEF Flagged
<1>2. keywords' \subseteq Messages \X Labels
  <2>1. PICK done \in IF "flag" \in Faults THEN SUBSET want ELSE {want} : keywords' = keywords \cup done
    BY DEF FlagAccount
  <2>2. done \subseteq want BY <2>1
  <2> QED BY <1>1, <2>1, <2>2 DEF TypeOK
<1>3. [job[p] EXCEPT !.todoA = @ \ {a}] \in Job BY JobType DEF Job
<1>4. job' \in [Procs -> Job] BY <1>3, Becoming DEF FlagAccount, TypeOK
<1>5. pc' \in [Procs -> Stages] BY Moving DEF FlagAccount, TypeOK, Stages
<1> QED BY <1>2, <1>4, <1>5 DEF FlagAccount, TypeOK, ledger

\* A digest is delivered for a recorded run.
LEMMA SendType ==
  ASSUME TypeOK, NEW p \in Procs, job[p].run \in RunIds, Send(p) \/ SendFails(p)
  PROVE  TypeOK'
<1>1. pc' \in [Procs -> Stages] BY Moving DEF Send, SendFails, TypeOK, Stages
<1>2. job[p].shown \subseteq Messages BY JobType
<1>3. [chat EXCEPT ![job[p].run] = job[p].shown] \in [RunIds -> SUBSET Messages] BY <1>2 DEF TypeOK
<1>4. delivered \cup {job[p].run} \subseteq RunIds BY DEF TypeOK
<1>5. chat \in [RunIds -> SUBSET Messages] /\ delivered \subseteq RunIds BY DEF TypeOK
<1>6. chat' \in [RunIds -> SUBSET Messages] /\ delivered' \subseteq RunIds
  BY <1>3, <1>4, <1>5 DEF Send, SendFails
<1> QED BY <1>1, <1>6 DEF Send, SendFails, TypeOK, ledger

\* The digest ledger holds outcomes.
LEMMA RecordDigestType ==
  ASSUME TypeOK, NEW p \in Procs, NEW o \in {"sent", "failed"}, RecordDigest(p, o)
  PROVE  digests' \in [RunIds -> SUBSET {"sent", "failed"}]
BY DEF RecordDigest, TypeOK

\* Both ways of recording a digest.
LEMMA RecordDigestsType ==
  ASSUME TypeOK, NEW p \in Procs, RecordSentDigest(p) \/ RecordFailedDigest(p)
  PROVE  TypeOK'
<1>1. digests' \in [RunIds -> SUBSET {"sent", "failed"}]
  BY RecordDigestType DEF RecordSentDigest, RecordFailedDigest
<1>2. CASE RecordSentDigest(p)
  <2>1. pc' \in [Procs -> Stages] /\ job' \in [Procs -> Job]
    BY <1>2, JobType, BeginRecordingType DEF RecordSentDigest
  <2> QED BY <1>1, <1>2, <2>1 DEF RecordSentDigest, TypeOK, world
<1>3. CASE RecordFailedDigest(p)
  <2>1. [job[p] EXCEPT !.status = "degraded"] \in Job BY JobType, StatusNames DEF Job
  <2>2. job' \in [Procs -> Job] BY <1>3, <2>1, Becoming DEF RecordFailedDigest, TypeOK
  <2>3. pc' \in [Procs -> Stages] BY <1>3, Moving DEF RecordFailedDigest, TypeOK, Stages
  <2> QED BY <1>1, <1>3, <2>2, <2>3 DEF RecordFailedDigest, TypeOK, world
<1> QED BY <1>2, <1>3

\* The move from the message loop to the flag loop, or past it.
LEMMA FlagLoopType ==
  ASSUME TypeOK, NEW p \in Procs, Become(p, [job[p] EXCEPT !.todoM = Flagged(job[p])]),
         Goto(p, IF Flagged(job[p]) = {} THEN "finish" ELSE "flags")
  PROVE  pc' \in [Procs -> Stages] /\ job' \in [Procs -> Job]
<1>1. [job[p] EXCEPT !.todoM = Flagged(job[p])] \in Job BY JobType DEF Job, Flagged
<1>2. job' \in [Procs -> Job] BY <1>1, Becoming DEF TypeOK
<1>3. (IF Flagged(job[p]) = {} THEN "finish" ELSE "flags") \in Stages BY DEF Stages
<1>4. pc' \in [Procs -> Stages] BY <1>3, Moving DEF TypeOK
<1> QED BY <1>2, <1>4

\* A row names the run and the label of the message.
LEMMA RecordMessageType ==
  ASSUME TypeOK, NEW p \in Procs, NEW m \in Messages, RecordMessage(p, m)
  PROVE  TypeOK'
<1>. DEFINE row == [run |-> job[p].run, label |-> job[p].label[m]]
<1>1. row \in Row BY JobType DEF Row, Labelling
<1>2. processed' \in [Messages -> Row]
  <2>1. processed' = Inserted(m, row) \/ processed' = processed BY DEF RecordMessage
  <2>2. processed \in [Messages -> Row] BY DEF TypeOK
  <2>. HIDE DEF row
  <2>3. Inserted(m, row) \in [Messages -> Row] BY <1>1, <2>2 DEF Inserted
  <2> QED BY <2>1, <2>2, <2>3
<1>3. NextMessage(p, m) BY DEF RecordMessage
<1>4. pc' \in [Procs -> Stages] /\ job' \in [Procs -> Job]
  <2>1. CASE job[p].todoM = {m}
    BY <1>3, <2>1, FlagLoopType DEF NextMessage
  <2>2. CASE job[p].todoM # {m}
    <3>1. [job[p] EXCEPT !.todoM = @ \ {m}] \in Job BY JobType DEF Job
    <3>2. job' \in [Procs -> Job] BY <1>3, <2>2, <3>1, Becoming DEF NextMessage, TypeOK
    <3> QED BY <1>3, <2>2, <3>2 DEF NextMessage, TypeOK
  <2> QED BY <2>1, <2>2
<1> QED BY <1>2, <1>4 DEF RecordMessage, TypeOK, world

\* Skipping the message loop.
LEMMA NoMessageType ==
  ASSUME TypeOK, NEW p \in Procs, NoMessageToRecord(p)
  PROVE  TypeOK'
<1>1. pc' \in [Procs -> Stages] /\ job' \in [Procs -> Job] BY FlagLoopType DEF NoMessageToRecord
<1> QED BY <1>1, OnlyProcessType DEF NoMessageToRecord, TypeOK

\* The flag loop handles messages whose label is a keyword.
FlagLoopKeywords ==
  \A p \in Procs : pc[p] = "flags" => job[p].todoM \subseteq Flagged(job[p])

\* Flag records hold labels that are keywords.
LEMMA RecordFlagType ==
  ASSUME TypeOK, FlagLoopKeywords, NEW p \in Procs, NEW m \in Messages, RecordFlag(p, m)
  PROVE  TypeOK'
<1>1. job[p].label[m] \in Labels BY DEF RecordFlag, FlagLoopKeywords, Flagged
<1>2. flagRecords' \subseteq Messages \X Labels BY <1>1 DEF RecordFlag, TypeOK
<1>3. [job[p] EXCEPT !.todoM = @ \ {m}] \in Job BY JobType DEF Job
<1>4. job' \in [Procs -> Job] BY <1>3, Becoming DEF RecordFlag, TypeOK
<1>5. pc' \in [Procs -> Stages] BY Moving DEF RecordFlag, TypeOK, Stages
<1> QED BY <1>2, <1>4, <1>5 DEF RecordFlag, TypeOK, world

\* The final status is a status, the finish time a time.
LEMMA FinishRunType ==
  ASSUME TypeOK, NEW p \in Procs, FinishRun(p)
  PROVE  TypeOK'
<1>1. Outcome(job[p]) \in Status BY JobType, StatusNames DEF Outcome
<1>2. runStatus' \in [RunIds -> Status] BY <1>1 DEF FinishRun, TypeOK
<1>3. finishedAt' \in [RunIds -> Nat] BY DEF FinishRun, TypeOK
<1>4. [job[p] EXCEPT !.status = Outcome(job[p])] \in Job BY <1>1, JobType DEF Job
<1>5. job' \in [Procs -> Job] BY <1>4, Becoming DEF FinishRun, TypeOK
<1>6. pc' \in [Procs -> Stages] BY Moving DEF FinishRun, TypeOK, Stages
<1> QED BY <1>2, <1>3, <1>5, <1>6 DEF FinishRun, TypeOK, world

\* A process starts with a well-typed job.
LEMMA IdleJobType == IdleJob \in Job
<1>1. NoOption \in Option BY DEF NoOption, Option
<1>2. NoLabels \in Labelling BY DEF NoLabels, Labelling
<1> QED BY <1>1, <1>2, StatusNames DEF IdleJob, Job

\* A process that ended, or was killed, is idle again.
LEMMA BackToIdleType ==
  ASSUME TypeOK, NEW p \in Procs, Exit(p) \/ Crash(p)
  PROVE  TypeOK'
<1>1. job' \in [Procs -> Job] BY IdleJobType, Becoming DEF Exit, Crash, TypeOK
<1>2. pc' \in [Procs -> Stages] BY Moving DEF Exit, Crash, TypeOK, Stages
<1>3. cancelled' \in [Procs -> BOOLEAN] BY DEF Exit, Crash, TypeOK
<1>4. hist' \in [RunIds -> History] BY DEF Exit, Crash, TypeOK
<1>5. UNCHANGED <<world, ledger, nextRun>> BY DEF Exit, Crash
<1> QED BY <1>1, <1>2, <1>3, <1>4, <1>5 DEF TypeOK, world, ledger

\* A process that fails to start touches nothing but itself.
LEMMA StartFailsType ==
  ASSUME TypeOK, NEW p \in Procs, StartFails(p)
  PROVE  TypeOK'
<1>1. [job[p] EXCEPT !.status = "ingest_failed"] \in Job BY JobType, StatusNames DEF Job
<1>2. job' \in [Procs -> Job] BY <1>1, Becoming DEF StartFails, TypeOK
<1>3. pc' \in [Procs -> Stages] BY Moving DEF StartFails, TypeOK, Stages
<1> QED BY <1>2, <1>3, OnlyProcessType DEF StartFails, TypeOK

\* The next run identifier is handed out.
LEMMA RecordRunType ==
  ASSUME TypeOK, NEW p \in Procs, NEW o \in Options, RecordRun(p, o)
  PROVE  TypeOK'
<1>0. o \in Option /\ nextRun \in RunIds /\ nextRun \in Nat \ {0}
  BY PipelineAssumption DEF RecordRun, TypeOK
<1>1. [job[p] EXCEPT !.run = nextRun, !.opts = o] \in Job BY <1>0, JobType DEF Job
<1>2. job' \in [Procs -> Job] BY <1>1, Becoming DEF RecordRun, TypeOK
<1>3. pc' \in [Procs -> Stages] BY Moving DEF RecordRun, TypeOK, Stages
<1>4. hist' \in [RunIds -> History]
  <2>1. hist \in [RunIds -> History] /\ hist[nextRun] \in History BY <1>0 DEF TypeOK
  <2>2. [hist[nextRun] EXCEPT !.opts = o] \in History BY <1>0, <2>1 DEF History
  <2> QED BY <2>1, <2>2 DEF RecordRun
<1>5. nextRun' \in Nat \ {0} BY <1>0 DEF RecordRun
<1>6. runStatus' \in [RunIds -> Status]
  <2>1. "running" \in Status BY DEF Status
  <2>2. runStatus \in [RunIds -> Status] BY DEF TypeOK
  <2> QED BY <2>1, <2>2 DEF RecordRun
<1> QED BY <1>2, <1>3, <1>4, <1>5, <1>6 DEF RecordRun, TypeOK, world

\* A signal sets a flag.
LEMMA CancelType ==
  ASSUME TypeOK, NEW p \in Procs, Cancel(p)
  PROVE  TypeOK'
BY DEF Cancel, TypeOK, world, ledger

\* The world keeps its own types.
LEMMA WorldType ==
  ASSUME TypeOK, Tick \/ \E m \in Messages : Arrive(m) \/ UserReads(m)
  PROVE  TypeOK'
<1>1. CASE Tick BY <1>1 DEF Tick, TypeOK, ledger
<1>2. ASSUME NEW m \in Messages, Arrive(m) PROVE TypeOK' BY <1>2 DEF Arrive, TypeOK, ledger
<1>3. ASSUME NEW m \in Messages, UserReads(m) PROVE TypeOK' BY <1>3 DEF UserReads, TypeOK, ledger
<1> QED BY <1>1, <1>2, <1>3

-----------------------------------------------------------------------------
(* The inductive invariant *)

HasRow(r) == \E m \in Messages : processed[m].run = r

\* Runs not yet handed out have left no trace in the ledger.
UnusedRuns ==
  \A r \in RunIds : r >= nextRun => runStatus[r] = "none" /\ ~HasRow(r)

\* No two processes work on one run.
OwnRuns ==
  \A p, q \in Procs : Running(p) /\ Running(q) /\ p # q => job[p].run # job[q].run

\* A process works on the run RecordRun gave it, which is open in the ledger.
Owns(p) ==
  LET r == job[p].run IN
  /\ r \in RunIds /\ r < nextRun
  /\ hist[r].opts = job[p].opts
  /\ runStatus[r] = IF job[p].opts.stateless THEN "none" ELSE "running"

Unsuccessful == {"degraded", "ingest_failed"}

\* How far each stage may have gone: rows are written after delivery only, and
\* for no run whose status is already that of a failure.
Disciplined(p) ==
  LET j == job[p] IN
  /\ pc[p] \notin {"messages", "flags", "finish"} => ~HasRow(j.run)
  /\ pc[p] = "classify" => j.status \in {"none", "partial"}
  /\ pc[p] = "render" => j.llmErr \/ j.status \in {"none", "partial"}
  /\ pc[p] \in {"flag", "send", "sent"} /\ j.status \in Unsuccessful =>
       j.llmErr \/ Answered(j) = {}
  /\ pc[p] = "sent" => j.run \in delivered
  /\ pc[p] \in {"messages", "flags"} =>
       /\ ~j.opts.stateless
       /\ j.run \in delivered \/ j.opts.dryRun
       /\ j.status \in Unsuccessful => ~HasRow(j.run)
  /\ pc[p] = "messages" /\ j.status \in Unsuccessful => j.todoM = {}
  /\ pc[p] = "flags" => j.todoM \subseteq Flagged(j)
  /\ pc[p] = "finish" /\ HasRow(j.run) => j.status \notin Unsuccessful

IInv ==
  /\ TypeOK
  /\ RecordedAfterDelivery /\ FailedRunsRecordNothing
  /\ UnusedRuns /\ OwnRuns
  /\ \A p \in Procs : Running(p) => Owns(p) /\ Disciplined(p)

\* A step of p that leaves the other processes where they are.
Continues(p) ==
  /\ job'[p].run = job[p].run /\ job'[p].opts = job[p].opts
  /\ \A q \in Procs \ {p} : pc'[q] = pc[q] /\ job'[q] = job[q]
  /\ \A r \in RunIds : hist'[r].opts = hist[r].opts

\* The obligation of a step that keeps its run open, for process p alone: other
\* processes do not notice, even if p writes a row of its own run.
LEMMA WorkStep ==
  ASSUME IInv, TypeOK', NEW p \in Procs, Running(p), Continues(p),
         UNCHANGED <<runStatus, nextRun>>, delivered \subseteq delivered',
         \A r \in RunIds : HasRow(r)' => HasRow(r) \/ r = job[p].run,
         RecordedAfterDelivery', FailedRunsRecordNothing', Disciplined(p)'
  PROVE  IInv'
<1>1. UnusedRuns'
  <2>1. job[p].run < nextRun /\ nextRun \in Nat /\ RunIds \subseteq Nat
    BY PipelineAssumption DEF IInv, Owns, TypeOK, RunIds
  <2> QED BY <2>1 DEF IInv, UnusedRuns, RunIds
<1>2. OwnRuns'
  <2>1. \A q \in Procs : job'[q].run = job[q].run BY DEF Continues
  <2>2. \A q \in Procs : Running(q)' => Running(q) BY DEF Continues, Running
  <2> QED BY <2>1, <2>2 DEF IInv, OwnRuns
<1>3. ASSUME NEW q \in Procs, Running(q)' PROVE Owns(q)'
  <2>1. Running(q) BY <1>3 DEF Continues, Running
  <2>2. Owns(q) BY <2>1 DEF IInv
  <2>3. job'[q].run = job[q].run /\ job'[q].opts = job[q].opts BY DEF Continues
  <2>4. \A r \in RunIds : hist'[r].opts = hist[r].opts BY DEF Continues
  <2> QED BY <2>2, <2>3, <2>4 DEF Owns
<1>4. ASSUME NEW q \in Procs, Running(q)' PROVE Disciplined(q)'
  <2>1. CASE q = p BY <2>1
  <2>2. CASE q # p
    <3>1. pc'[q] = pc[q] /\ job'[q] = job[q] BY <2>2 DEF Continues
    <3>2. Running(q) BY <1>4, <3>1 DEF Running
    <3>3. Disciplined(q) /\ job[q].run \in RunIds BY <3>2 DEF IInv, Owns
    <3>4. job[q].run # job[p].run BY <2>2, <3>2 DEF IInv, OwnRuns
    <3>5. HasRow(job[q].run)' => HasRow(job[q].run) BY <3>1, <3>3, <3>4
    <3> QED BY <3>1, <3>3, <3>5 DEF Disciplined, Answered, Labelled, Flagged
  <2> QED BY <2>1, <2>2
<1> QED BY <1>1, <1>2, <1>3, <1>4 DEF IInv

\* The same for a step that writes no row.
LEMMA QuietStep ==
  ASSUME IInv, TypeOK', NEW p \in Procs, Running(p), Continues(p),
         UNCHANGED <<processed, runStatus, nextRun>>, delivered \subseteq delivered',
         Disciplined(p)'
  PROVE  IInv'
<1>1. \A m \in Messages : processed[m].run \in RunIds \cup {0} BY DEF IInv, TypeOK, Row
<1>2. \A r \in RunIds : HasRow(r)' => HasRow(r) BY DEF HasRow
<1>3. RecordedAfterDelivery' BY <1>1 DEF IInv, RecordedAfterDelivery, Continues
<1>4. FailedRunsRecordNothing' BY DEF IInv, FailedRunsRecordNothing
<1> QED BY <1>2, <1>3, <1>4, WorkStep

\* A history entry keeps its options when another field of it is written.
LEMMA HistoryKeepsOptions ==
  ASSUME hist \in [RunIds -> History], NEW r \in RunIds, NEW h \in History,
         hist' = [hist EXCEPT ![r] = h], h.opts = hist[r].opts
  PROVE  \A q \in RunIds : hist'[q].opts = hist[q].opts
OBVIOUS

\* The options a run was started with are history no step changes.
LEMMA OptionsNeverChange ==
  ASSUME IInv, TypeOK', NEW p \in Procs, Step(p)
  PROVE  \A q \in RunIds : hist'[q].opts = hist[q].opts
<1>. DEFINE r == job[p].run
            Rewritten(h) == h \in History /\ h.opts = hist[r].opts /\ hist' = [hist EXCEPT ![r] = h]
<1>0. /\ hist \in [RunIds -> History] /\ job \in [Procs -> Job] /\ clock \in Nat
      /\ Running(p) => r \in RunIds
  BY DEF IInv, TypeOK, Owns
<1>1. ASSUME NEW h, r \in RunIds, Rewritten(h)
      PROVE  \A q \in RunIds : hist'[q].opts = hist[q].opts
  BY <1>0, <1>1, HistoryKeepsOptions
<1>2. CASE FetchWindow(p)
  <2>1. r \in RunIds BY <1>0, <1>2 DEF FetchWindow, Running
  <2>2. PICK since \in WindowStart(job[p].opts) :
          /\ Become(p, [job[p] EXCEPT !.since = since, !.todoA = Accounts])
          /\ hist' = [hist EXCEPT ![r] = Noted(@, job[p].opts, since)]
    BY <1>2 DEF FetchWindow
  <2>3. since \in Int
    <3>1. job'[p] = [job[p] EXCEPT !.since = since, !.todoA = Accounts] BY <1>0, <2>2 DEF Become
    <3>2. job'[p].since \in Int BY DEF TypeOK, Job
    <3> QED BY <1>0, <3>1, <3>2 DEF Job
  <2>4. Rewritten(Noted(hist[r], job[p].opts, since))
    <3>1. hist[r] \in History BY <1>0, <2>1
    <3> QED BY <1>0, <2>1, <2>2, <2>3, <3>1 DEF Noted, History
  <2> QED BY <1>1, <2>1, <2>4
<1>3. ASSUME NEW a \in Accounts, FetchAccount(p, a) PROVE \A q \in RunIds : hist'[q].opts = hist[q].opts
  <2>. DEFINE got == {m \in Messages : AccountOf[m] = a /\ InWindow(m, job[p].since)}
  <2>1. r \in RunIds BY <1>0, <1>3 DEF FetchAccount, Running
  <2>2. Rewritten([hist[r] EXCEPT !.fetched = @ \cup got])
    BY <1>0, <1>3, <2>1 DEF FetchAccount, History
  <2> QED BY <1>1, <2>1, <2>2
<1>4. ASSUME NEW a \in Accounts, FetchAccountFails(p, a) PROVE \A q \in RunIds : hist'[q].opts = hist[q].opts
  <2>1. r \in RunIds BY <1>0, <1>4 DEF FetchAccountFails, Running
  <2>2. Rewritten([hist[r] EXCEPT !.failed = @ \cup {a}])
    BY <1>0, <1>4, <2>1 DEF FetchAccountFails, History
  <2> QED BY <1>1, <2>1, <2>2
<1>5. CASE SkipFilter(p) \/ FilterFails(p)
  <2>1. r \in RunIds BY <1>0, <1>5 DEF SkipFilter, FilterFails, Fetched, Running
  <2>2. hist' = [hist EXCEPT ![r] = [hist[r] EXCEPT !.blind = TRUE]]
    BY <1>0, <1>5, <2>1 DEF SkipFilter, FilterFails
  <2>3. hist[r] \in History BY <1>0, <2>1
  <2>4. Rewritten([hist[r] EXCEPT !.blind = TRUE]) BY <2>2, <2>3 DEF History
  <2> QED BY <1>1, <2>1, <2>4
<1>6. CASE UNCHANGED hist BY <1>6
<1>7. \/ UNCHANGED hist \/ FetchWindow(p) \/ SkipFilter(p) \/ FilterFails(p)
      \/ \E a \in Accounts : FetchAccount(p, a) \/ FetchAccountFails(p, a)
  BY DEF Step, FetchWindowFails, IngestFails, FilterProcessed, Classify, ClassifyFails, Render,
         RenderFails, FlagAccount, Send, SendFails, RecordSentDigest, RecordFailedDigest,
         RecordMessage, RecordFlag, NoMessageToRecord, FinishRun, Exit
<1> QED BY <1>2, <1>3, <1>4, <1>5, <1>6, <1>7

\* Computing the window records nothing.
LEMMA FetchWindowKeeps ==
  ASSUME IInv, TypeOK', NEW p \in Procs, FetchWindow(p)
  PROVE  IInv'
<1>0. pc \in [Procs -> Stages] /\ job \in [Procs -> Job] /\ hist \in [RunIds -> History]
  BY DEF IInv, TypeOK
<1>1. pc[p] = "window" /\ Running(p) /\ Owns(p) /\ ~HasRow(job[p].run)
  BY DEF FetchWindow, Running, IInv, Disciplined
<1>2. job[p].run \in RunIds BY <1>1 DEF Owns
<1>3. PICK since \in WindowStart(job[p].opts) :
        /\ Become(p, [job[p] EXCEPT !.since = since, !.todoA = Accounts])
        /\ hist' = [hist EXCEPT ![job[p].run] = Noted(@, job[p].opts, since)]
  BY DEF FetchWindow
<1>4. job'[p] = [job[p] EXCEPT !.since = since, !.todoA = Accounts]
      /\ \A q \in Procs \ {p} : job'[q] = job[q]
  BY <1>0, <1>3 DEF Become
<1>5. job'[p].run = job[p].run /\ job'[p].opts = job[p].opts BY <1>0, <1>4 DEF Job
<1>6. pc'[p] = "fetch" /\ \A q \in Procs \ {p} : pc'[q] = pc[q] BY <1>0 DEF FetchWindow, Goto
<1>7. \A q \in RunIds : hist'[q].opts = hist[q].opts BY OptionsNeverChange DEF Step
<1>8. Continues(p) BY <1>4, <1>5, <1>6, <1>7 DEF Continues
<1>9. UNCHANGED <<processed, runStatus, nextRun, delivered>> BY DEF FetchWindow, world, ledger
<1>10. ~HasRow(job[p].run)' BY <1>1, <1>5, <1>9 DEF HasRow
<1>11. Disciplined(p)' BY <1>6, <1>10 DEF Disciplined
<1> QED BY <1>1, <1>8, <1>9, <1>11, QuietStep

\* Fetching, or failing to, records nothing.
LEMMA FetchAccountKeeps ==
  ASSUME IInv, TypeOK', NEW p \in Procs, NEW a \in Accounts,
         FetchAccount(p, a) \/ FetchAccountFails(p, a)
  PROVE  IInv'
<1>0. pc \in [Procs -> Stages] /\ job \in [Procs -> Job] /\ hist \in [RunIds -> History]
  BY DEF IInv, TypeOK
<1>1. pc[p] = "fetch" /\ Running(p) /\ Owns(p) /\ ~HasRow(job[p].run)
  BY DEF FetchAccount, FetchAccountFails, Running, IInv, Disciplined
<1>2. job[p].run \in RunIds BY <1>1 DEF Owns
<1>3. PICK j \in Job : Become(p, j) /\ j.run = job[p].run /\ j.opts = job[p].opts
  <2>1. CASE FetchAccount(p, a)
    <3>. DEFINE got == {m \in Messages : AccountOf[m] = a /\ InWindow(m, job[p].since)}
                j == [job[p] EXCEPT !.todoA = @ \ {a}, !.msgs = @ \cup got]
    <3>0. job[p] \in Job /\ got \subseteq Messages BY <1>0
    <3>1. j \in Job /\ j.run = job[p].run /\ j.opts = job[p].opts
      <4>. HIDE DEF got
      <4> QED BY <3>0 DEF Job
    <3>2. Become(p, j) BY <2>1 DEF FetchAccount
    <3> QED BY <3>1, <3>2
  <2>2. CASE FetchAccountFails(p, a)
    <3>. DEFINE j == [job[p] EXCEPT !.todoA = @ \ {a}, !.failed = @ \cup {a}]
    <3>0. job[p] \in Job BY <1>0
    <3>1. j \in Job /\ j.run = job[p].run /\ j.opts = job[p].opts BY <3>0 DEF Job
    <3>2. Become(p, j) BY <2>2 DEF FetchAccountFails
    <3> QED BY <3>1, <3>2
  <2> QED BY <2>1, <2>2
<1>4. job'[p] = j /\ \A q \in Procs \ {p} : job'[q] = job[q] BY <1>0, <1>3, Becoming
<1>5. UNCHANGED pc BY DEF FetchAccount, FetchAccountFails
<1>6. \A q \in RunIds : hist'[q].opts = hist[q].opts BY OptionsNeverChange DEF Step
<1>7. Continues(p) BY <1>3, <1>4, <1>5, <1>6 DEF Continues
<1>8. UNCHANGED <<processed, runStatus, nextRun, delivered>>
  BY DEF FetchAccount, FetchAccountFails, world, ledger
<1>9. ~HasRow(job[p].run)' BY <1>1, <1>3, <1>4, <1>8 DEF HasRow
<1>10. Disciplined(p)' BY <1>1, <1>5, <1>9 DEF Disciplined
<1> QED BY <1>1, <1>7, <1>8, <1>10, QuietStep

\* Every error exit of a run: straight to FinishRun, with nothing recorded.
LEMMA EarlyExitKeeps ==
  ASSUME IInv, TypeOK', NEW p \in Procs, NEW s \in Status,
         pc[p] \in {"window", "fetch", "render", "unsent"}, Goto(p, "finish"),
         Become(p, [job[p] EXCEPT !.status = s]),
         UNCHANGED <<processed, runStatus, nextRun, delivered, hist>>
  PROVE  IInv'
<1>0. pc \in [Procs -> Stages] /\ job \in [Procs -> Job] BY DEF IInv, TypeOK
<1>1. Running(p) /\ Owns(p) /\ ~HasRow(job[p].run) BY DEF Running, IInv, Disciplined
<1>2. job'[p] = [job[p] EXCEPT !.status = s] /\ \A q \in Procs \ {p} : job'[q] = job[q]
  BY <1>0 DEF Become
<1>3. job'[p].run = job[p].run /\ job'[p].opts = job[p].opts BY <1>0, <1>2 DEF Job
<1>4. pc'[p] = "finish" /\ \A q \in Procs \ {p} : pc'[q] = pc[q] BY <1>0 DEF Goto
<1>5. Continues(p) BY <1>2, <1>3, <1>4 DEF Continues
<1>6. ~HasRow(job[p].run)' BY <1>1, <1>3 DEF HasRow
<1>7. Disciplined(p)' BY <1>4, <1>6 DEF Disciplined
<1> QED BY <1>1, <1>5, <1>7, QuietStep

\* The filtered run enters classification with status none or partial, or ends.
LEMMA ProceedKeeps ==
  ASSUME IInv, TypeOK', NEW p \in Procs, Fetched(p), NEW fresh \in SUBSET Messages,
         Proceed(p, fresh), UNCHANGED <<processed, runStatus, nextRun, delivered>>,
         \A r \in RunIds : hist'[r].opts = hist[r].opts
  PROVE  IInv'
<1>0. pc \in [Procs -> Stages] /\ job \in [Procs -> Job] BY DEF IInv, TypeOK
<1>1. Running(p) /\ Owns(p) /\ ~HasRow(job[p].run) BY DEF Fetched, Running, IInv, Disciplined
<1>2. \A q \in Procs \ {p} : pc'[q] = pc[q] /\ job'[q] = job[q] BY <1>0 DEF Proceed, Become, Goto
<1>3. /\ job'[p].run = job[p].run /\ job'[p].opts = job[p].opts
      /\ \/ pc'[p] = "finish"
         \/ pc'[p] = "classify" /\ job'[p].status \in {"none", "partial"}
  <2>1. CASE fresh = {}
    <3>1. job'[p] = [job[p] EXCEPT !.msgs = {}, !.status = "completed"] /\ pc'[p] = "finish"
      BY <1>0, <2>1 DEF Proceed, Become, Goto
    <3> QED BY <1>0, <3>1 DEF Job
  <2>2. CASE fresh # {}
    <3>1. /\ job'[p] = [job[p] EXCEPT !.msgs = fresh,
                          !.status = IF job[p].failed # {} THEN "partial" ELSE "none"]
          /\ pc'[p] = "classify"
      BY <1>0, <2>2 DEF Proceed, Become, Goto
    <3> QED BY <1>0, <3>1 DEF Job
  <2> QED BY <2>1, <2>2
<1>4. Continues(p) BY <1>2, <1>3 DEF Continues
<1>5. ~HasRow(job[p].run)' BY <1>1, <1>3 DEF HasRow
<1>6. Disciplined(p)' BY <1>3, <1>5 DEF Disciplined
<1> QED BY <1>1, <1>4, <1>6, QuietStep

\* Whatever the dedup filter could read, it writes no row.
LEMMA FilterKeeps ==
  ASSUME IInv, TypeOK', NEW p \in Procs, SkipFilter(p) \/ FilterProcessed(p) \/ FilterFails(p)
  PROVE  IInv'
<1>0. hist \in [RunIds -> History] /\ job[p].msgs \in SUBSET Messages BY JobType DEF IInv, TypeOK
<1>1. Fetched(p) BY DEF SkipFilter, FilterProcessed, FilterFails
<1>3. \A r \in RunIds : hist'[r].opts = hist[r].opts BY OptionsNeverChange DEF Step
<1>4. UNCHANGED <<processed, runStatus, nextRun, delivered>>
  BY DEF SkipFilter, FilterProcessed, FilterFails, world, ledger
<1>5. PICK fresh \in SUBSET Messages : Proceed(p, fresh)
  <2>1. CASE FilterProcessed(p)
    <3>1. Fresh(p) \in SUBSET Messages BY <1>0 DEF Fresh
    <3> QED BY <2>1, <3>1 DEF FilterProcessed
  <2>2. CASE SkipFilter(p) \/ FilterFails(p) BY <1>0, <2>2 DEF SkipFilter, FilterFails
  <2> QED BY <2>1, <2>2
<1> QED BY <1>1, <1>3, <1>4, <1>5, ProceedKeeps

\* Classification leaves an error or a status that is no failure.
LEMMA ClassifyKeeps ==
  ASSUME IInv, TypeOK', NEW p \in Procs, Classify(p) \/ ClassifyFails(p)
  PROVE  IInv'
<1>0. pc \in [Procs -> Stages] /\ job \in [Procs -> Job] BY DEF IInv, TypeOK
<1>1. pc[p] = "classify" BY DEF Classify, ClassifyFails
<1>2. Running(p) /\ Owns(p) /\ ~HasRow(job[p].run) /\ job[p].status \in {"none", "partial"}
  BY <1>1 DEF Running, IInv, Disciplined
<1>3. \A q \in Procs \ {p} : pc'[q] = pc[q] /\ job'[q] = job[q]
  BY <1>0 DEF Classify, ClassifyFails, Become, Goto
<1>4. pc'[p] = "render" BY <1>0 DEF Classify, ClassifyFails, Goto
<1>5. /\ job'[p].run = job[p].run /\ job'[p].opts = job[p].opts
      /\ job'[p].llmErr \/ job'[p].status \in {"none", "partial"}
  <2>1. CASE Classify(p)
    <3>1. PICK a \in Answers(p) : Become(p, [job[p] EXCEPT !.label = a.label, !.bad = a.bad])
      BY <2>1 DEF Classify
    <3>2. job'[p] = [job[p] EXCEPT !.label = a.label, !.bad = a.bad] BY <1>0, <3>1 DEF Become
    <3> QED BY <1>0, <1>2, <3>2 DEF Job
  <2>2. CASE ClassifyFails(p)
    <3>1. job'[p] = [job[p] EXCEPT !.llmErr = TRUE, !.status = "degraded"]
      BY <1>0, <2>2 DEF ClassifyFails, Become
    <3> QED BY <1>0, <3>1 DEF Job
  <2> QED BY <2>1, <2>2
<1>6. UNCHANGED <<processed, runStatus, nextRun, delivered, hist>>
  BY DEF Classify, ClassifyFails, world, ledger
<1>7. Continues(p) BY <1>3, <1>5, <1>6 DEF Continues
<1>8. ~HasRow(job[p].run)' BY <1>2, <1>5, <1>6 DEF HasRow
<1>9. Disciplined(p)' BY <1>4, <1>5, <1>8 DEF Disciplined
<1> QED BY <1>2, <1>6, <1>7, <1>9, QuietStep

\* Recording begins only for a run that was delivered (or is dry), and with
\* nothing to record if its status is a failure's.
LEMMA BeginRecordingKeeps ==
  ASSUME IInv, TypeOK', NEW p \in Procs, Running(p), ~HasRow(job[p].run),
         NEW j \in Job, BeginRecording(p, j), j.run = job[p].run, j.opts = job[p].opts,
         j.run \in delivered \/ j.opts.dryRun,
         j.status \in Unsuccessful => j.llmErr \/ Answered(j) = {},
         UNCHANGED <<processed, runStatus, nextRun, delivered, hist>>
  PROVE  IInv'
<1>0. pc \in [Procs -> Stages] /\ job \in [Procs -> Job] BY DEF IInv, TypeOK
<1>. DEFINE k == [j EXCEPT !.todoM = Answered(j) \cap j.msgs]
<1>1. /\ k.run = j.run /\ k.opts = j.opts /\ k.status = j.status
      /\ k.todoM = Answered(j) \cap j.msgs
  BY DEF Job
<1>2. job'[p] = k /\ \A q \in Procs \ {p} : job'[q] = job[q] BY <1>0 DEF BeginRecording, Become
<1>. HIDE DEF k
<1>3. pc'[p] = (IF MayRecord(j) THEN "messages" ELSE "finish") /\ \A q \in Procs \ {p} : pc'[q] = pc[q]
  BY <1>0 DEF BeginRecording, Goto
<1>4. Continues(p) BY <1>1, <1>2, <1>3 DEF Continues
<1>5. ~HasRow(job[p].run)' BY <1>1, <1>2 DEF HasRow
<1>6. pc'[p] = "messages" => ~j.opts.stateless /\ ~j.llmErr BY <1>3 DEF MayRecord
<1>7. pc'[p] \in {"messages", "finish"} BY <1>3
<1>8. Disciplined(p)' BY <1>1, <1>2, <1>5, <1>6, <1>7 DEF Disciplined
<1> QED BY <1>4, <1>8, QuietStep

\* A failure status after rendering means there is nothing to record.
LEMMA RenderKeeps ==
  ASSUME IInv, TypeOK', NEW p \in Procs, Render(p)
  PROVE  IInv'
<1>0. pc \in [Procs -> Stages] /\ job \in [Procs -> Job] BY DEF IInv, TypeOK
<1>1. pc[p] = "render" BY DEF Render
<1>2. /\ Running(p) /\ Owns(p) /\ ~HasRow(job[p].run)
      /\ job[p].llmErr \/ job[p].status \in {"none", "partial"}
  BY <1>1 DEF Running, IInv, Disciplined
<1>3. UNCHANGED <<processed, runStatus, nextRun, delivered, hist>> BY DEF Render, world, ledger
<1>. DEFINE rendered(s) == [job[p] EXCEPT !.shown = s, !.status = Graded(job[p])]
<1>4. PICK s \in Selections(job[p].msgs) :
        IF rendered(s).opts.dryRun THEN BeginRecording(p, rendered(s))
        ELSE /\ Become(p, [rendered(s) EXCEPT !.todoA = {AccountOf[m] : m \in Flagged(rendered(s))}])
             /\ Goto(p, StageAfterRender(rendered(s)))
  BY DEF Render
<1>5. s \subseteq Messages /\ Graded(job[p]) \in Status
  BY JobType, GradedType DEF Selections, IInv
<1>6. PICK j \in Job : j = rendered(s) BY <1>0, <1>5 DEF Job
<1>7. /\ j.run = job[p].run /\ j.opts = job[p].opts /\ j.status = Graded(job[p])
      /\ j.llmErr = job[p].llmErr /\ j.label = job[p].label
  BY <1>0, <1>6 DEF Job
<1>8. j.status \in Unsuccessful => j.llmErr \/ Answered(j) = {}
  BY <1>2, <1>7 DEF Graded, Unsuccessful, Answered, Labelled
<1>9. IF j.opts.dryRun THEN BeginRecording(p, j)
      ELSE /\ Become(p, [j EXCEPT !.todoA = {AccountOf[m] : m \in Flagged(j)}])
           /\ Goto(p, StageAfterRender(j))
  BY <1>4, <1>6
<1>. HIDE DEF rendered
<1>10. CASE j.opts.dryRun
  BY <1>2, <1>3, <1>7, <1>8, <1>9, <1>10, BeginRecordingKeeps
<1>11. CASE ~j.opts.dryRun
  <2>. DEFINE k == [j EXCEPT !.todoA = {AccountOf[m] : m \in Flagged(j)}]
  <2>1. k.run = j.run /\ k.opts = j.opts /\ k.status = j.status /\ k.llmErr = j.llmErr /\ k.label = j.label
    BY DEF Job
  <2>2. job'[p] = k /\ \A q \in Procs \ {p} : job'[q] = job[q] BY <1>0, <1>9, <1>11 DEF Become
  <2>. HIDE DEF k
  <2>3. pc'[p] \in {"flag", "send"} /\ \A q \in Procs \ {p} : pc'[q] = pc[q]
    BY <1>0, <1>9, <1>11 DEF Goto, StageAfterRender
  <2>4. Continues(p) BY <1>3, <1>7, <2>1, <2>2, <2>3 DEF Continues
  <2>5. ~HasRow(job[p].run)' BY <1>2, <1>3, <1>7, <2>1, <2>2 DEF HasRow
  <2>6. job'[p].status \in Unsuccessful => job'[p].llmErr \/ Answered(job'[p]) = {}
    BY <1>8, <2>1, <2>2 DEF Answered, Labelled
  <2>7. Answered(job[p])' = Answered(job'[p]) BY DEF Answered, Labelled
  <2>8. Disciplined(p)' BY <2>3, <2>5, <2>6, <2>7 DEF Disciplined
  <2> QED BY <1>2, <1>3, <2>4, <2>8, QuietStep
<1> QED BY <1>10, <1>11

\* Writing keywords on the server does not touch the ledger.
LEMMA FlagAccountKeeps ==
  ASSUME IInv, TypeOK', NEW p \in Procs, NEW a \in Accounts, FlagAccount(p, a)
  PROVE  IInv'
<1>0. pc \in [Procs -> Stages] /\ job \in [Procs -> Job] BY DEF IInv, TypeOK
<1>1. pc[p] = "flag" BY DEF FlagAccount
<1>2. /\ Running(p) /\ Owns(p) /\ ~HasRow(job[p].run)
      /\ job[p].status \in Unsuccessful => job[p].llmErr \/ Answered(job[p]) = {}
  BY <1>1 DEF Running, IInv, Disciplined
<1>3. UNCHANGED <<processed, runStatus, nextRun, delivered, hist>> BY DEF FlagAccount, ledger
<1>4. job'[p] = [job[p] EXCEPT !.todoA = @ \ {a}] /\ \A q \in Procs \ {p} : job'[q] = job[q]
  BY <1>0 DEF FlagAccount, Become
<1>5. /\ job'[p].run = job[p].run /\ job'[p].opts = job[p].opts /\ job'[p].status = job[p].status
      /\ job'[p].llmErr = job[p].llmErr /\ job'[p].label = job[p].label
  BY <1>0, <1>4 DEF Job
<1>6. pc'[p] \in {"flag", "send"} /\ \A q \in Procs \ {p} : pc'[q] = pc[q]
  BY <1>0, <1>1 DEF FlagAccount, Goto
<1>7. Continues(p) BY <1>3, <1>4, <1>5, <1>6 DEF Continues
<1>8. ~HasRow(job[p].run)' BY <1>2, <1>3, <1>5 DEF HasRow
<1>9. Answered(job[p])' = Answered(job[p]) BY <1>5 DEF Answered, Labelled
<1>10. Disciplined(p)' BY <1>2, <1>5, <1>6, <1>8, <1>9 DEF Disciplined
<1> QED BY <1>2, <1>3, <1>7, <1>10, QuietStep

\* After Send, "sent" means delivered.
LEMMA SendKeeps ==
  ASSUME IInv, TypeOK', NEW p \in Procs, Send(p) \/ SendFails(p)
  PROVE  IInv'
<1>0. pc \in [Procs -> Stages] BY DEF IInv, TypeOK
<1>1. pc[p] = "send" BY DEF Send, SendFails
<1>2. /\ Running(p) /\ Owns(p) /\ ~HasRow(job[p].run)
      /\ job[p].status \in Unsuccessful => job[p].llmErr \/ Answered(job[p]) = {}
  BY <1>1 DEF Running, IInv, Disciplined
<1>3. UNCHANGED <<processed, runStatus, nextRun, job, hist>> BY DEF Send, SendFails, ledger
<1>4. delivered \subseteq delivered' BY DEF Send, SendFails
<1>5. /\ pc'[p] = "unsent" \/ (pc'[p] = "sent" /\ job[p].run \in delivered')
      /\ \A q \in Procs \ {p} : pc'[q] = pc[q]
  BY <1>0 DEF Send, SendFails, Goto
<1>6. Continues(p) BY <1>3, <1>5 DEF Continues
<1>7. ~HasRow(job[p].run)' BY <1>2, <1>3 DEF HasRow
<1>8. Answered(job[p])' = Answered(job[p]) BY <1>3 DEF Answered, Labelled
<1>9. Disciplined(p)' BY <1>2, <1>3, <1>5, <1>7, <1>8 DEF Disciplined
<1> QED BY <1>2, <1>3, <1>4, <1>6, <1>9, QuietStep

\* Recording the digest starts the loops of a delivered run.
LEMMA RecordSentDigestKeeps ==
  ASSUME IInv, TypeOK', NEW p \in Procs, RecordSentDigest(p)
  PROVE  IInv'
<1>1. pc[p] = "sent" BY DEF RecordSentDigest
<1>2. /\ Running(p) /\ ~HasRow(job[p].run) /\ job[p].run \in delivered
      /\ job[p].status \in Unsuccessful => job[p].llmErr \/ Answered(job[p]) = {}
  BY <1>1 DEF Running, IInv, Disciplined
<1>3. UNCHANGED <<processed, runStatus, nextRun, delivered, hist>> BY DEF RecordSentDigest, world
<1>4. job[p] \in Job /\ BeginRecording(p, job[p]) BY DEF RecordSentDigest, IInv, TypeOK
<1> QED BY <1>2, <1>3, <1>4, BeginRecordingKeeps

\* The flag loop starts, or the run goes straight to FinishRun, with the rows of
\* the run complete.
LEMMA FlagLoopDisciplined ==
  ASSUME job \in [Procs -> Job], pc \in [Procs -> Stages],
         NEW p \in Procs, pc[p] = "messages", Disciplined(p),
         Become(p, [job[p] EXCEPT !.todoM = Flagged(job[p])]),
         Goto(p, IF Flagged(job[p]) = {} THEN "finish" ELSE "flags"),
         UNCHANGED delivered,
         job[p].status \in Unsuccessful => ~HasRow(job[p].run)'
  PROVE  Disciplined(p)'
<1>1. job'[p] = [job[p] EXCEPT !.todoM = Flagged(job[p])] BY DEF Become
<1>2. /\ job'[p].run = job[p].run /\ job'[p].opts = job[p].opts /\ job'[p].status = job[p].status
      /\ job'[p].label = job[p].label /\ job'[p].todoM = Flagged(job[p])
  BY <1>1 DEF Job
<1>3. pc'[p] \in {"finish", "flags"} BY DEF Goto
<1>4. job'[p].todoM \subseteq Flagged(job[p])' BY <1>2 DEF Flagged
<1>5. /\ ~job[p].opts.stateless
      /\ job[p].run \in delivered \/ job[p].opts.dryRun
  BY DEF Disciplined
<1> QED BY <1>2, <1>3, <1>4, <1>5 DEF Disciplined

\* Without a message to record the run goes on to its flags.
LEMMA NoMessageKeeps ==
  ASSUME IInv, TypeOK', NEW p \in Procs, NoMessageToRecord(p)
  PROVE  IInv'
<1>0. pc \in [Procs -> Stages] /\ job \in [Procs -> Job] BY DEF IInv, TypeOK
<1>1. pc[p] = "messages" BY DEF NoMessageToRecord
<1>2. Running(p) /\ Disciplined(p) BY <1>1 DEF Running, IInv
<1>3. UNCHANGED <<processed, runStatus, nextRun, delivered, hist>>
  BY DEF NoMessageToRecord, world, ledger
<1>4. /\ Become(p, [job[p] EXCEPT !.todoM = Flagged(job[p])])
      /\ Goto(p, IF Flagged(job[p]) = {} THEN "finish" ELSE "flags")
  BY DEF NoMessageToRecord
<1>5. job'[p].run = job[p].run /\ job'[p].opts = job[p].opts BY <1>0, <1>4 DEF Become, Job
<1>6. Continues(p) BY <1>0, <1>3, <1>4, <1>5 DEF Continues, Become, Goto
<1>7. job[p].status \in Unsuccessful => ~HasRow(job[p].run)
  BY <1>1, <1>2 DEF Disciplined
<1>8. HasRow(job[p].run)' <=> HasRow(job[p].run) BY <1>3, <1>5 DEF HasRow
<1>9. Disciplined(p)' BY <1>0, <1>1, <1>2, <1>3, <1>4, <1>7, <1>8, FlagLoopDisciplined
<1> QED BY <1>2, <1>3, <1>6, <1>9, QuietStep

\* A row is written for the run of the process, which is delivered (or dry), open and no failure.
LEMMA RecordMessageKeeps ==
  ASSUME IInv, TypeOK', NEW p \in Procs, NEW m \in Messages, RecordMessage(p, m)
  PROVE  IInv'
<1>0. /\ pc \in [Procs -> Stages] /\ job \in [Procs -> Job] /\ processed \in [Messages -> Row]
      /\ runStatus \in [RunIds -> Status]
  BY DEF IInv, TypeOK
<1>. DEFINE r == job[p].run
            row == [run |-> r, label |-> job[p].label[m]]
<1>1. pc[p] = "messages" /\ m \in job[p].todoM BY DEF RecordMessage
<1>2. Running(p) /\ Owns(p) /\ Disciplined(p) BY <1>1 DEF Running, IInv
<1>3. /\ ~job[p].opts.stateless
      /\ r \in delivered \/ job[p].opts.dryRun
      /\ job[p].status \notin Unsuccessful
  BY <1>1, <1>2 DEF Disciplined
<1>4. UNCHANGED <<runStatus, nextRun, delivered, hist>> BY DEF RecordMessage, world
<1>5. \A n \in Messages : processed'[n].run = processed[n].run \/ processed'[n].run = r
  <2>1. processed' = processed \/ processed' = Inserted(m, row) BY DEF RecordMessage
  <2>2. row.run = r OBVIOUS
  <2>. HIDE DEF row
  <2> QED BY <1>0, <2>1, <2>2 DEF Inserted
<1>6. \A q \in RunIds : HasRow(q)' => HasRow(q) \/ q = r BY <1>5 DEF HasRow
<1>7. r \in RunIds /\ hist[r].opts = job[p].opts /\ runStatus[r] = "running"
  BY <1>2, <1>3 DEF Owns
<1>8. RecordedAfterDelivery'
  BY <1>3, <1>4, <1>5, <1>7 DEF RecordedAfterDelivery, IInv
<1>9. FailedRunsRecordNothing'
  BY <1>4, <1>5, <1>7 DEF FailedRunsRecordNothing, IInv
<1>10. NextMessage(p, m) BY DEF RecordMessage
<1>11. /\ job'[p].run = job[p].run /\ job'[p].opts = job[p].opts
       /\ \A q \in Procs \ {p} : pc'[q] = pc[q] /\ job'[q] = job[q]
  BY <1>0, <1>10 DEF NextMessage, Become, Goto, Job
<1>12. Continues(p) BY <1>4, <1>11 DEF Continues
<1>13. Disciplined(p)'
  <2>1. CASE job[p].todoM = {m}
    <3>1. /\ Become(p, [job[p] EXCEPT !.todoM = Flagged(job[p])])
          /\ Goto(p, IF Flagged(job[p]) = {} THEN "finish" ELSE "flags")
      BY <1>10, <2>1 DEF NextMessage
    <3> QED BY <1>0, <1>1, <1>2, <1>3, <1>4, <3>1, FlagLoopDisciplined
  <2>2. CASE job[p].todoM # {m}
    <3>1. pc'[p] = "messages" BY <1>1, <1>10, <2>2 DEF NextMessage
    <3>2. job'[p] = [job[p] EXCEPT !.todoM = @ \ {m}] BY <1>0, <1>10, <2>2 DEF NextMessage, Become
    <3>3. job'[p].status = job[p].status BY <1>0, <3>2 DEF Job
    <3> QED BY <1>3, <1>4, <1>11, <3>1, <3>3 DEF Disciplined
  <2> QED BY <2>1, <2>2
<1> QED BY <1>2, <1>4, <1>6, <1>8, <1>9, <1>12, <1>13, WorkStep

\* Flag records are no rows.
LEMMA RecordFlagKeeps ==
  ASSUME IInv, TypeOK', NEW p \in Procs, NEW m \in Messages, RecordFlag(p, m)
  PROVE  IInv'
<1>0. pc \in [Procs -> Stages] /\ job \in [Procs -> Job] BY DEF IInv, TypeOK
<1>1. pc[p] = "flags" BY DEF RecordFlag
<1>2. Running(p) /\ Disciplined(p) BY <1>1 DEF Running, IInv
<1>3. UNCHANGED <<processed, runStatus, nextRun, delivered, hist>> BY DEF RecordFlag, world
<1>4. job'[p] = [job[p] EXCEPT !.todoM = @ \ {m}] /\ \A q \in Procs \ {p} : job'[q] = job[q]
  BY <1>0 DEF RecordFlag, Become
<1>5. /\ job'[p].run = job[p].run /\ job'[p].opts = job[p].opts /\ job'[p].status = job[p].status
      /\ job'[p].label = job[p].label /\ job'[p].todoM = job[p].todoM \ {m}
  BY <1>0, <1>4 DEF Job
<1>6. pc'[p] \in {"flags", "finish"} /\ \A q \in Procs \ {p} : pc'[q] = pc[q]
  BY <1>0, <1>1 DEF RecordFlag, Goto
<1>7. Continues(p) BY <1>3, <1>4, <1>5, <1>6 DEF Continues
<1>8. HasRow(job[p].run)' <=> HasRow(job[p].run) BY <1>3, <1>5 DEF HasRow
<1>9. Flagged(job[p])' = Flagged(job[p]) BY <1>5 DEF Flagged
<1>10. /\ ~job[p].opts.stateless
       /\ job[p].run \in delivered \/ job[p].opts.dryRun
       /\ job[p].status \in Unsuccessful => ~HasRow(job[p].run)
       /\ job[p].todoM \subseteq Flagged(job[p])
  BY <1>1, <1>2 DEF Disciplined
<1>11. Disciplined(p)' BY <1>3, <1>5, <1>6, <1>8, <1>9, <1>10 DEF Disciplined
<1> QED BY <1>2, <1>3, <1>7, <1>11, QuietStep

\* A process that stops working on its run: nothing it did is in doubt.
LEMMA LeavingStep ==
  ASSUME IInv, TypeOK', NEW p \in Procs, pc'[p] \in {"idle", "exited"},
         \A q \in Procs \ {p} : pc'[q] = pc[q] /\ job'[q] = job[q],
         UNCHANGED <<processed, nextRun, delivered, hist>>,
         \A r \in RunIds : runStatus'[r] # runStatus[r] =>
           /\ Running(p) /\ r = job[p].run
           /\ HasRow(r) => runStatus'[r] \notin {"none"} \cup Unsuccessful
  PROVE  IInv'
<1>1. RecordedAfterDelivery' BY DEF IInv, RecordedAfterDelivery
<1>2. FailedRunsRecordNothing'
  <2>1. \A m \in Messages : processed[m].run \in RunIds \cup {0} BY DEF IInv, TypeOK, Row
  <2> QED BY <2>1 DEF IInv, FailedRunsRecordNothing, HasRow, Unsuccessful
<1>3. UnusedRuns'
  <2>1. nextRun \in Nat /\ RunIds \subseteq Nat BY PipelineAssumption DEF IInv, TypeOK, RunIds
  <2>2. Running(p) => job[p].run < nextRun BY DEF IInv, Owns
  <2>3. \A r \in RunIds : r >= nextRun => runStatus'[r] = runStatus[r]
    BY <2>1, <2>2
  <2> QED BY <2>3 DEF IInv, UnusedRuns, HasRow
<1>4. OwnRuns' BY DEF IInv, OwnRuns, Running
<1>5. ASSUME NEW q \in Procs, Running(q)' PROVE Owns(q)' /\ Disciplined(q)'
  <2>1. q # p BY <1>5 DEF Running
  <2>2. pc'[q] = pc[q] /\ job'[q] = job[q] BY <2>1
  <2>3. Running(q) /\ Owns(q) /\ Disciplined(q) BY <1>5, <2>2 DEF Running, IInv
  <2>4. Running(p) => job[q].run # job[p].run BY <2>1, <2>3 DEF IInv, OwnRuns
  <2>5. job[q].run \in RunIds BY <2>3 DEF Owns
  <2>6. runStatus'[job[q].run] = runStatus[job[q].run] BY <2>4, <2>5
  <2>7. Owns(q)' BY <2>2, <2>3, <2>6 DEF Owns
  <2>8. HasRow(job[q].run)' <=> HasRow(job[q].run) BY <2>2 DEF HasRow
  <2>9. Disciplined(q)' BY <2>2, <2>3, <2>8 DEF Disciplined, Answered, Labelled, Flagged
  <2> QED BY <2>7, <2>9
<1> QED BY <1>1, <1>2, <1>3, <1>4, <1>5 DEF IInv

\* A run with rows is not closed as a failure.
LEMMA FinishRunKeeps ==
  ASSUME IInv, TypeOK', NEW p \in Procs, FinishRun(p)
  PROVE  IInv'
<1>0. pc \in [Procs -> Stages] /\ job \in [Procs -> Job] /\ runStatus \in [RunIds -> Status]
  BY DEF IInv, TypeOK
<1>1. pc[p] = "finish" BY DEF FinishRun
<1>2. Running(p) /\ Owns(p) /\ (HasRow(job[p].run) => job[p].status \notin Unsuccessful)
  BY <1>1 DEF Running, IInv, Disciplined
<1>3. pc'[p] = "exited" /\ \A q \in Procs \ {p} : pc'[q] = pc[q] /\ job'[q] = job[q]
  BY <1>0 DEF FinishRun, Become, Goto
<1>4. UNCHANGED <<processed, nextRun, delivered, hist>> BY DEF FinishRun, world
<1>5. HasRow(job[p].run) => Outcome(job[p]) \notin {"none"} \cup Unsuccessful
  BY <1>2 DEF Outcome, Unsuccessful
<1>6. runStatus' = runStatus \/ runStatus' = [runStatus EXCEPT ![job[p].run] = Outcome(job[p])]
  BY DEF FinishRun
<1>7. \A r \in RunIds : runStatus'[r] # runStatus[r] =>
        /\ Running(p) /\ r = job[p].run
        /\ HasRow(r) => runStatus'[r] \notin {"none"} \cup Unsuccessful
  BY <1>0, <1>2, <1>5, <1>6
<1> QED BY <1>3, <1>4, <1>7, LeavingStep

\* Ending, dying and failing to start change no run.
LEMMA LeavingKeeps ==
  ASSUME IInv, TypeOK', NEW p \in Procs, Exit(p) \/ Crash(p) \/ StartFails(p)
  PROVE  IInv'
<1>1. pc \in [Procs -> Stages] /\ job \in [Procs -> Job] BY DEF IInv, TypeOK
<1>2. /\ pc'[p] \in {"idle", "exited"}
      /\ \A q \in Procs \ {p} : pc'[q] = pc[q] /\ job'[q] = job[q]
  BY <1>1 DEF Exit, Crash, StartFails, Become, Goto
<1>3. UNCHANGED <<processed, nextRun, delivered, hist, runStatus>>
  BY DEF Exit, Crash, StartFails, world, ledger
<1> QED BY <1>2, <1>3, LeavingStep

\* A new run is unused, hence belongs to nobody else and has no row.
LEMMA RecordRunKeeps ==
  ASSUME IInv, TypeOK', NEW p \in Procs, NEW o \in Options, RecordRun(p, o)
  PROVE  IInv'
<1>0. /\ pc \in [Procs -> Stages] /\ job \in [Procs -> Job] /\ hist \in [RunIds -> History]
      /\ runStatus \in [RunIds -> Status] /\ processed \in [Messages -> Row]
      /\ nextRun \in RunIds /\ RunIds \subseteq Nat /\ o \in Option /\ nextRun' = nextRun + 1
  BY PipelineAssumption DEF IInv, TypeOK, RecordRun, RunIds
<1>1. UNCHANGED <<processed, delivered>> BY DEF RecordRun, world
<1>2. runStatus[nextRun] = "none" /\ ~HasRow(nextRun) BY <1>0 DEF IInv, UnusedRuns
<1>3. \A r \in RunIds : HasRow(r)' <=> HasRow(r) BY <1>1 DEF HasRow
<1>4. \A r \in RunIds \ {nextRun} : hist'[r] = hist[r] /\ runStatus'[r] = runStatus[r]
  BY <1>0 DEF RecordRun
<1>5. hist'[nextRun].opts = o
  <2>1. hist' = [hist EXCEPT ![nextRun] = [hist[nextRun] EXCEPT !.opts = o]]
    BY <1>0 DEF RecordRun
  <2>2. [hist[nextRun] EXCEPT !.opts = o].opts = o BY <1>0 DEF History
  <2> QED BY <1>0, <2>1, <2>2
<1>6. runStatus'[nextRun] = IF o.stateless THEN "none" ELSE "running"
  BY <1>0, <1>2 DEF RecordRun
<1>7. \A m \in Messages : processed[m].run \in (RunIds \cup {0}) \ {nextRun}
  BY <1>0, <1>2 DEF HasRow, Row
<1>8. RecordedAfterDelivery' BY <1>1, <1>4, <1>7 DEF IInv, RecordedAfterDelivery
<1>9. FailedRunsRecordNothing' BY <1>1, <1>4, <1>7 DEF IInv, FailedRunsRecordNothing
<1>10. UnusedRuns' BY <1>0, <1>3, <1>4 DEF IInv, UnusedRuns
<1>11. /\ job'[p] = [job[p] EXCEPT !.run = nextRun, !.opts = o] /\ pc'[p] = "window"
       /\ \A q \in Procs \ {p} : job'[q] = job[q] /\ pc'[q] = pc[q]
  BY <1>0 DEF RecordRun, Become, Goto
<1>12. job'[p].run = nextRun /\ job'[p].opts = o BY <1>0, <1>11 DEF Job
<1>13. ASSUME NEW q \in Procs \ {p}, Running(q)'
       PROVE  Running(q) /\ job[q].run \in RunIds \ {nextRun} /\ job[q].run < nextRun
  BY <1>0, <1>11, <1>13 DEF Running, IInv, Owns
<1>14. OwnRuns'
  <2>1. SUFFICES ASSUME NEW q1 \in Procs, NEW q2 \in Procs, Running(q1)', Running(q2)', q1 # q2
                 PROVE  job'[q1].run # job'[q2].run
    BY DEF OwnRuns
  <2>2. CASE q1 = p BY <1>11, <1>12, <1>13, <2>1, <2>2
  <2>3. CASE q2 = p BY <1>11, <1>12, <1>13, <2>1, <2>3
  <2>4. CASE q1 # p /\ q2 # p
    <3>1. Running(q1) /\ Running(q2) BY <1>13, <2>1, <2>4
    <3>2. job[q1].run # job[q2].run BY <2>1, <3>1 DEF IInv, OwnRuns
    <3> QED BY <1>11, <2>4, <3>2
  <2> QED BY <2>2, <2>3, <2>4
<1>15. Owns(p)'
  <2>1. nextRun \in RunIds /\ nextRun < nextRun' BY <1>0
  <2> QED BY <2>1, <1>5, <1>6, <1>12 DEF Owns
<1>16. Disciplined(p)' BY <1>2, <1>0, <1>3, <1>11, <1>12 DEF Disciplined, HasRow
<1>17. ASSUME NEW q \in Procs \ {p}, Running(q)' PROVE Owns(q)' /\ Disciplined(q)'
  <2>1. Running(q) /\ job[q].run \in RunIds \ {nextRun} /\ job[q].run < nextRun BY <1>13, <1>17
  <2>2. Owns(q) /\ Disciplined(q) BY <2>1 DEF IInv
  <2>3. job'[q] = job[q] /\ pc'[q] = pc[q] BY <1>11
  <2>4. Owns(q)'
    <3>. DEFINE r == job[q].run
    <3>0. r \in Nat /\ nextRun \in Nat /\ nextRun' = nextRun + 1 /\ r < nextRun BY <1>0, <2>1
    <3>. HIDE DEF r
    <3>1. r < nextRun' BY <3>0
    <3>. USE DEF r
    <3> QED BY <1>4, <2>1, <2>2, <2>3, <3>1 DEF Owns
  <2>5. HasRow(job[q].run)' <=> HasRow(job[q].run) BY <1>1, <2>3 DEF HasRow
  <2>6. Disciplined(q)' BY <1>1, <2>2, <2>3, <2>5 DEF Disciplined, Answered, Labelled, Flagged
  <2> QED BY <2>4, <2>6
<1> QED BY <1>8, <1>9, <1>10, <1>14, <1>15, <1>16, <1>17 DEF IInv

\* Steps of the world and signals touch nothing the invariant speaks of.
LEMMA OutsideKeeps ==
  ASSUME IInv, TypeOK',
         UNCHANGED <<processed, runStatus, nextRun, delivered, hist, pc, job>>
  PROVE  IInv'
BY DEF IInv, RecordedAfterDelivery, FailedRunsRecordNothing, UnusedRuns, OwnRuns, HasRow,
       Owns, Disciplined, Running, Answered, Labelled, Flagged

-----------------------------------------------------------------------------

\* The invariant holds initially.
LEMMA InitIInv == Init => IInv
<1> SUFFICES ASSUME Init PROVE IInv
  OBVIOUS
<1>1. TypeOK
  <2>1. NoOption \in Option BY DEF NoOption, Option
  <2>2. NoHistory \in History BY <2>1 DEF NoHistory, History
  <2>3. NoRow \in Row BY DEF NoRow, Row
  <2>4. hist \in [RunIds -> History] BY <2>2 DEF Init
  <2>5. processed \in [Messages -> Row] BY <2>3 DEF Init
  <2>6. job \in [Procs -> Job] BY IdleJobType DEF Init
  <2>7. pc \in [Procs -> Stages] BY DEF Init, Stages
  <2>8. runStatus \in [RunIds -> Status] BY StatusNames DEF Init
  <2> QED BY <2>4, <2>5, <2>6, <2>7, <2>8 DEF Init, TypeOK
<1>2. \A m \in Messages : processed[m].run = 0 BY DEF Init, NoRow
<1>3. \A r \in RunIds : r # 0 BY PipelineAssumption DEF RunIds
<1>4. RecordedAfterDelivery /\ FailedRunsRecordNothing
  BY <1>2 DEF RecordedAfterDelivery, FailedRunsRecordNothing
<1>5. UnusedRuns BY <1>2, <1>3 DEF UnusedRuns, HasRow, Init
<1>6. \A p \in Procs : ~Running(p) BY DEF Init, Running
<1> QED BY <1>1, <1>4, <1>5, <1>6 DEF IInv, OwnRuns

\* Every step of a process keeps the invariant.
LEMMA StepKeeps ==
  ASSUME IInv, NEW p \in Procs, Step(p)
  PROVE  IInv'
<1>0. TypeOK /\ pc \in [Procs -> Stages] /\ job \in [Procs -> Job] BY DEF IInv, TypeOK
<1>1. Running(p) => job[p].run \in RunIds BY DEF IInv, Owns
<1>2. CASE FetchWindow(p)
  <2>1. job[p].run \in RunIds BY <1>1, <1>2 DEF FetchWindow, Running
  <2> QED BY <1>0, <1>2, <2>1, FetchWindowType, FetchWindowKeeps
<1>3. CASE FetchWindowFails(p)
  <2>1. TypeOK' BY <1>0, <1>3, WindowFailsType
  <2> QED BY <1>3, <2>1, StatusNames, EarlyExitKeeps DEF FetchWindowFails, world, ledger
<1>4. ASSUME NEW a \in Accounts, FetchAccount(p, a) PROVE IInv'
  <2>1. job[p].run \in RunIds BY <1>1, <1>4 DEF FetchAccount, Running
  <2> QED BY <1>0, <1>4, <2>1, FetchAccountType, FetchAccountKeeps
<1>5. ASSUME NEW a \in Accounts, FetchAccountFails(p, a) PROVE IInv'
  <2>1. job[p].run \in RunIds BY <1>1, <1>5 DEF FetchAccountFails, Running
  <2> QED BY <1>0, <1>5, <2>1, FetchAccountFailsType, FetchAccountKeeps
<1>6. ASSUME NEW a \in Accounts, FlagAccount(p, a) PROVE IInv'
  BY <1>0, <1>6, FlagAccountType, FlagAccountKeeps
<1>7. CASE IngestFails(p)
  <2>1. TypeOK' BY <1>0, <1>7, IngestFailsType
  <2> QED BY <1>7, <2>1, StatusNames, EarlyExitKeeps DEF IngestFails, Fetched, world, ledger
<1>8. CASE SkipFilter(p) \/ FilterProcessed(p) \/ FilterFails(p)
  <2>1. job[p].run \in RunIds
    BY <1>1, <1>8 DEF SkipFilter, FilterProcessed, FilterFails, Fetched, Running
  <2> QED BY <1>0, <1>8, <2>1, FilterType, FilterKeeps
<1>9. CASE Classify(p) \/ ClassifyFails(p) BY <1>0, <1>9, ClassifyType, ClassifyKeeps
<1>10. CASE Render(p) BY <1>0, <1>10, RenderType, RenderKeeps
<1>11. CASE RenderFails(p)
  <2>1. TypeOK' BY <1>0, <1>11, RenderType
  <2> QED BY <1>11, <2>1, StatusNames, EarlyExitKeeps DEF RenderFails, world, ledger
<1>12. CASE Send(p) \/ SendFails(p)
  <2>1. job[p].run \in RunIds BY <1>1, <1>12 DEF Send, SendFails, Running
  <2> QED BY <1>0, <1>12, <2>1, SendType, SendKeeps
<1>13. CASE RecordSentDigest(p) BY <1>0, <1>13, RecordDigestsType, RecordSentDigestKeeps
<1>14. CASE RecordFailedDigest(p)
  <2>1. TypeOK' BY <1>0, <1>14, RecordDigestsType
  <2> QED BY <1>14, <2>1, StatusNames, EarlyExitKeeps DEF RecordFailedDigest, world
<1>15. ASSUME NEW m \in Messages, RecordMessage(p, m) PROVE IInv'
  BY <1>0, <1>15, RecordMessageType, RecordMessageKeeps
<1>16. ASSUME NEW m \in Messages, RecordFlag(p, m) PROVE IInv'
  <2>1. FlagLoopKeywords BY DEF FlagLoopKeywords, IInv, Disciplined, Running
  <2> QED BY <1>0, <1>16, <2>1, RecordFlagType, RecordFlagKeeps
<1>17. CASE NoMessageToRecord(p) BY <1>0, <1>17, NoMessageType, NoMessageKeeps
<1>18. CASE FinishRun(p) BY <1>0, <1>18, FinishRunType, FinishRunKeeps
<1>19. CASE Exit(p) BY <1>0, <1>19, BackToIdleType, LeavingKeeps
<1> QED BY <1>2, <1>3, <1>4, <1>5, <1>6, <1>7, <1>8, <1>9, <1>10, <1>11, <1>12, <1>13,
           <1>14, <1>15, <1>16, <1>17, <1>18, <1>19 DEF Step

\* Every step keeps the invariant.
LEMMA NextKeeps == IInv /\ [Next]_vars => IInv'
<1> SUFFICES ASSUME IInv, [Next]_vars PROVE IInv'
  OBVIOUS
<1>0. TypeOK BY DEF IInv
<1>1. CASE Tick \/ \E m \in Messages : Arrive(m) \/ UserReads(m)
  <2>1. TypeOK' BY <1>0, <1>1, WorldType
  <2>2. UNCHANGED <<processed, runStatus, nextRun, delivered, hist, pc, job>>
    BY <1>1 DEF Tick, Arrive, UserReads, ledger
  <2> QED BY <2>1, <2>2, OutsideKeeps
<1>2. ASSUME NEW p \in Procs, Step(p) PROVE IInv' BY <1>2, StepKeeps
<1>3. ASSUME NEW p \in Procs, StartFails(p) PROVE IInv'
  BY <1>0, <1>3, StartFailsType, LeavingKeeps
<1>4. ASSUME NEW p \in Procs, Crash(p) PROVE IInv' BY <1>0, <1>4, BackToIdleType, LeavingKeeps
<1>5. ASSUME NEW p \in Procs, Cancel(p) PROVE IInv'
  <2>1. TypeOK' BY <1>0, <1>5, CancelType
  <2>2. UNCHANGED <<processed, runStatus, nextRun, delivered, hist, pc, job>>
    BY <1>5 DEF Cancel, world, ledger
  <2> QED BY <2>1, <2>2, OutsideKeeps
<1>6. ASSUME NEW p \in Procs, NEW o \in Options, RecordRun(p, o) PROVE IInv'
  BY <1>0, <1>6, RecordRunType, RecordRunKeeps
<1>7. CASE UNCHANGED vars
  <2>1. TypeOK' BY <1>0, <1>7 DEF vars, world, ledger, TypeOK
  <2>2. UNCHANGED <<processed, runStatus, nextRun, delivered, hist, pc, job>>
    BY <1>7 DEF vars, world, ledger
  <2> QED BY <2>1, <2>2, OutsideKeeps
<1> QED BY <1>1, <1>2, <1>3, <1>4, <1>5, <1>6, <1>7 DEF Next

\* The inductive invariant: types, ownership of runs, and how far each stage may
\* have gone, from which the safety theorems below follow.
THEOREM InductiveInvariant == Spec => []IInv
BY InitIInv, NextKeeps, PTL DEF Spec

\* The types of the variables, for every value of the constants.
THEOREM TypeCorrect == Spec => []TypeOK
<1>1. IInv => TypeOK BY DEF IInv
<1> QED BY InductiveInvariant, <1>1, PTL

\* A message is marked processed only for a run whose digest Telegram accepted,
\* or a dry run: pipeline.go's order of Send and RecordMessage, under any
\* interleaving of processes, crashes, signals and store failures.
THEOREM RecordedOnlyAfterDelivery == Spec => []RecordedAfterDelivery
<1>1. IInv => RecordedAfterDelivery BY DEF IInv
<1> QED BY InductiveInvariant, <1>1, PTL

\* A run that ends degraded or ingest_failed has marked no message processed.
THEOREM FailedRunsLeaveNoRow == Spec => []FailedRunsRecordNothing
<1>1. IInv => FailedRunsRecordNothing BY DEF IInv
<1> QED BY InductiveInvariant, <1>1, PTL

-----------------------------------------------------------------------------
(* The ledger is append-only *)

KeepsRecords ==
  /\ \A r \in RunIds : runStatus[r] \in Final =>
       runStatus'[r] = runStatus[r] /\ finishedAt'[r] = finishedAt[r]
  /\ \A m \in Messages : processed[m].run # 0 => processed'[m] = processed[m]
  /\ flagRecords \subseteq flagRecords'
  /\ \A r \in RunIds : digests[r] \subseteq digests'[r]

\* Every step of a process adds to the ledger or leaves it alone.
LEMMA StepAppends ==
  ASSUME IInv, NEW p \in Procs, Step(p)
  PROVE  KeepsRecords \/ UNCHANGED ledger
<1>0. /\ processed \in [Messages -> Row] /\ runStatus \in [RunIds -> Status]
      /\ finishedAt \in [RunIds -> Nat] /\ digests \in [RunIds -> SUBSET {"sent", "failed"}]
  BY DEF IInv, TypeOK
<1>1. CASE \/ FetchWindow(p) \/ FetchWindowFails(p) \/ IngestFails(p)
           \/ SkipFilter(p) \/ FilterProcessed(p) \/ FilterFails(p)
           \/ Classify(p) \/ ClassifyFails(p) \/ Render(p) \/ RenderFails(p)
           \/ Send(p) \/ SendFails(p) \/ NoMessageToRecord(p) \/ Exit(p)
           \/ \E a \in Accounts : FetchAccount(p, a) \/ FetchAccountFails(p, a) \/ FlagAccount(p, a)
  BY <1>1 DEF FetchWindow, FetchWindowFails, IngestFails, SkipFilter, FilterProcessed, FilterFails,
              Classify, ClassifyFails, Render, RenderFails, Send, SendFails, NoMessageToRecord, Exit,
              FetchAccount, FetchAccountFails, FlagAccount
<1>2. CASE RecordSentDigest(p) \/ RecordFailedDigest(p)
  <2>1. UNCHANGED <<runStatus, finishedAt, processed, flagRecords>>
    BY <1>2 DEF RecordSentDigest, RecordFailedDigest
  <2>2. PICK o : RecordDigest(p, o) BY <1>2 DEF RecordSentDigest, RecordFailedDigest
  <2>3. \A r \in RunIds : digests[r] \subseteq digests'[r] BY <1>0, <2>2 DEF RecordDigest
  <2> QED BY <2>1, <2>3 DEF KeepsRecords
<1>3. ASSUME NEW m \in Messages, RecordMessage(p, m) PROVE KeepsRecords
  <2>1. UNCHANGED <<runStatus, finishedAt, flagRecords, digests>> BY <1>3 DEF RecordMessage
  <2>2. \A n \in Messages : processed[n].run # 0 => processed'[n] = processed[n]
    BY <1>0, <1>3 DEF RecordMessage, Inserted
  <2> QED BY <2>1, <2>2 DEF KeepsRecords
<1>4. ASSUME NEW m \in Messages, RecordFlag(p, m) PROVE KeepsRecords
  BY <1>4 DEF RecordFlag, KeepsRecords
<1>5. CASE FinishRun(p)
  <2>1. UNCHANGED <<processed, flagRecords, digests>> BY <1>5 DEF FinishRun
  <2>2. Owns(p) BY <1>5 DEF FinishRun, IInv, Running
  <2>3. runStatus[job[p].run] \notin Final BY <2>2 DEF Owns, Final
  <2>4. \A r \in RunIds \ {job[p].run} : runStatus'[r] = runStatus[r] /\ finishedAt'[r] = finishedAt[r]
    BY <1>0, <1>5 DEF FinishRun
  <2> QED BY <2>1, <2>3, <2>4 DEF KeepsRecords
<1> QED BY <1>1, <1>2, <1>3, <1>4, <1>5 DEF Step

\* Every step adds to the ledger or leaves it alone.
LEMMA NextAppends ==
  ASSUME IInv, [Next]_vars
  PROVE  KeepsRecords \/ UNCHANGED ledger
<1>1. CASE UNCHANGED vars BY <1>1 DEF vars
<1>2. CASE Tick \/ \E m \in Messages : Arrive(m) \/ UserReads(m)
  BY <1>2 DEF Tick, Arrive, UserReads
<1>3. ASSUME NEW p \in Procs, Step(p) PROVE KeepsRecords \/ UNCHANGED ledger BY <1>3, StepAppends
<1>4. ASSUME NEW p \in Procs, StartFails(p) \/ Crash(p) \/ Cancel(p)
      PROVE  KeepsRecords \/ UNCHANGED ledger
  BY <1>4 DEF StartFails, Crash, Cancel
<1>5. ASSUME NEW p \in Procs, NEW o \in Options, RecordRun(p, o) PROVE KeepsRecords
  <2>1. UNCHANGED <<finishedAt, processed, flagRecords, digests>> BY <1>5 DEF RecordRun
  <2>2. nextRun \in RunIds /\ nextRun \in Nat BY <1>5 DEF RecordRun, IInv, TypeOK
  <2>3. runStatus[nextRun] \notin Final BY <2>2 DEF IInv, UnusedRuns, Final
  <2>4. \A r \in RunIds \ {nextRun} : runStatus'[r] = runStatus[r]
    BY <1>5 DEF RecordRun, IInv, TypeOK
  <2> QED BY <2>1, <2>3, <2>4 DEF KeepsRecords
<1> QED BY <1>1, <1>2, <1>3, <1>4, <1>5 DEF Next

\* No step, of any process, revises what the ledger already says: finished
\* runs, processed messages, flag and digest records.
THEOREM LedgerOnlyGrows == Spec => LedgerAppendOnly
<1>1. IInv /\ [Next]_vars =>
        [/\ \A r \in RunIds : runStatus[r] \in Final =>
              runStatus'[r] = runStatus[r] /\ finishedAt'[r] = finishedAt[r]
         /\ \A m \in Messages : processed[m].run # 0 => processed'[m] = processed[m]
         /\ flagRecords \subseteq flagRecords'
         /\ \A r \in RunIds : digests[r] \subseteq digests'[r]]_ledger
  BY NextAppends DEF KeepsRecords
<1> QED BY InductiveInvariant, <1>1, PTL DEF Spec, LedgerAppendOnly

-----------------------------------------------------------------------------
(* The flag records *)

\* A record of a keyword is justified by an open, delivered (or dry) run.
FlagJustified(m, k) ==
  \E p \in Procs :
    LET r == job[p].run IN
    /\ r # 0 /\ runStatus[r] = "running" /\ job[p].label[m] = k
    /\ r \in delivered \/ hist[r].opts.dryRun

\* Recording a flag is the one step that changes them.
LEMMA FlagsByRecordFlag ==
  ASSUME [Next]_vars, flagRecords' # flagRecords
  PROVE  \E p \in Procs, m \in Messages : RecordFlag(p, m)
<1>0. ~(UNCHANGED ledger) BY DEF ledger
<1>1. CASE UNCHANGED vars BY <1>0, <1>1 DEF vars
<1>2. CASE Tick \/ \E m \in Messages : Arrive(m) \/ UserReads(m)
  BY <1>0, <1>2 DEF Tick, Arrive, UserReads
<1>3. ASSUME NEW p \in Procs, Step(p) PROVE \E q \in Procs, m \in Messages : RecordFlag(q, m)
  <2>1. CASE \/ FetchWindow(p) \/ FetchWindowFails(p) \/ IngestFails(p)
             \/ SkipFilter(p) \/ FilterProcessed(p) \/ FilterFails(p)
             \/ Classify(p) \/ ClassifyFails(p) \/ Render(p) \/ RenderFails(p)
             \/ Send(p) \/ SendFails(p) \/ NoMessageToRecord(p) \/ Exit(p)
    <3>1. UNCHANGED ledger
      BY <2>1, Zenon DEF FetchWindow, FetchWindowFails, IngestFails, SkipFilter, FilterProcessed, FilterFails,
                  Classify, ClassifyFails, Render, RenderFails, Send, SendFails, NoMessageToRecord, Exit
    <3> QED BY <1>0, <3>1
  <2>2. ASSUME NEW a \in Accounts, FetchAccount(p, a) \/ FetchAccountFails(p, a) \/ FlagAccount(p, a)
        PROVE  FALSE
    BY <1>0, <2>2 DEF FetchAccount, FetchAccountFails, FlagAccount
  <2>3. CASE \/ RecordSentDigest(p) \/ RecordFailedDigest(p) \/ FinishRun(p)
             \/ \E m \in Messages : RecordMessage(p, m)
    BY <2>3 DEF RecordSentDigest, RecordFailedDigest, FinishRun, RecordMessage
  <2> QED BY <1>3, <2>1, <2>2, <2>3 DEF Step
<1>4. ASSUME NEW p \in Procs, StartFails(p) \/ Crash(p) \/ Cancel(p) PROVE FALSE
  BY <1>0, <1>4 DEF StartFails, Crash, Cancel
<1>5. ASSUME NEW p \in Procs, NEW o \in Options, RecordRun(p, o) PROVE FALSE
  BY <1>5 DEF RecordRun
<1> QED BY <1>1, <1>2, <1>3, <1>4, <1>5 DEF Next

\* Whatever fails, and however processes interleave, a keyword is recorded only by an
\* open run whose digest was accepted (or that was dry), with the label it gave.
THEOREM FlagsRecordedAfterDelivery == Spec => FlagRecordsFollowDelivery
<1>1. ASSUME IInv, [Next]_vars, NEW m \in Messages, NEW k \in Labels,
             <<m, k>> \in flagRecords' \ flagRecords
      PROVE  FlagJustified(m, k)
  <2>1. PICK p \in Procs, n \in Messages : RecordFlag(p, n) BY <1>1, FlagsByRecordFlag
  <2>2. /\ pc[p] = "flags" /\ Running(p)
        /\ flagRecords' = flagRecords \cup {<<n, job[p].label[n]>>}
    BY <1>1, <2>1 DEF RecordFlag, Running
  <2>3. n = m /\ job[p].label[m] = k BY <1>1, <2>2
  <2>4. Owns(p) /\ Disciplined(p) BY <1>1, <2>2 DEF IInv
  <2>5. /\ job[p].run \in RunIds /\ runStatus[job[p].run] = "running"
        /\ job[p].run \in delivered \/ hist[job[p].run].opts.dryRun
    BY <2>2, <2>4 DEF Owns, Disciplined
  <2>6. job[p].run # 0 BY <2>5 DEF RunIds
  <2> QED BY <2>3, <2>5, <2>6 DEF FlagJustified
<1>2. IInv /\ [Next]_vars =>
        [\A m \in Messages, k \in Labels :
           <<m, k>> \in flagRecords' \ flagRecords => FlagJustified(m, k)]_flagRecords
  BY <1>1
<1> QED BY InductiveInvariant, <1>2, PTL DEF Spec, FlagRecordsFollowDelivery, FlagJustified

-----------------------------------------------------------------------------
(* The pipeline implements the ledger protocol *)

\* A step that keeps statuses, options and claims is a delivery or a stutter.
LEMMA DeliveryMaps ==
  ASSUME NEW r \in RunIds, runStatus[r] \notin Final,
         UNCHANGED <<runStatus, processed>>,
         delivered' = delivered \/ delivered' = delivered \cup {r},
         \A q \in RunIds : hist'[q].opts = hist[q].opts
  PROVE  [Promise!Next]_(Promise!vars)
<1>1. UNCHANGED <<RecordedDryRuns, Claims>> BY DEF RecordedDryRuns, Claims
<1>2. CASE delivered' = delivered BY <1>1, <1>2 DEF Promise!vars
<1>3. CASE delivered' = delivered \cup {r}
  <2>1. Promise!Deliver(r) BY <1>1, <1>3 DEF Promise!Deliver
  <2> QED BY <2>1 DEF Promise!Next
<1> QED BY <1>2, <1>3

\* A row is written by the open, delivered (or dry) run of its process.
LEMMA ClaimMaps ==
  ASSUME IInv, NEW p \in Procs, NEW m \in Messages, RecordMessage(p, m)
  PROVE  [Promise!Next]_(Promise!vars)
<1>. DEFINE r == job[p].run
<1>1. /\ processed \in [Messages -> Row] /\ r \in RunIds /\ runStatus[r] = "running"
      /\ r \in delivered \cup RecordedDryRuns
  <2>1. Running(p) /\ pc[p] = "messages" BY DEF RecordMessage, Running
  <2>2. Owns(p) /\ Disciplined(p) BY <2>1 DEF IInv
  <2> QED BY <2>1, <2>2 DEF IInv, TypeOK, Owns, Disciplined, RecordedDryRuns
<1>2. UNCHANGED <<runStatus, delivered, hist>> BY DEF RecordMessage, world
<1>3. UNCHANGED RecordedDryRuns BY <1>2 DEF RecordedDryRuns
<1>4. CASE UNCHANGED processed
  <2>1. UNCHANGED Claims BY <1>4 DEF Claims
  <2> QED BY <1>2, <1>3, <2>1 DEF Promise!vars
<1>5. CASE processed' = Inserted(m, [run |-> r, label |-> job[p].label[m]]) /\ processed[m].run = 0
  <2>1. processed' = [processed EXCEPT ![m] = [run |-> r, label |-> job[p].label[m]]]
    BY <1>5 DEF Inserted
  <2>2. processed'[m].run = r /\ \A n \in Messages \ {m} : processed'[n].run = processed[n].run
    BY <1>1, <2>1
  <2>3. Claims[m] = 0 /\ Claims' = [Claims EXCEPT ![m] = r] BY <1>5, <2>2 DEF Claims
  <2>4. Promise!Claim(r, m) BY <1>1, <1>2, <1>3, <2>3 DEF Promise!Claim
  <2> QED BY <1>1, <2>4 DEF Promise!Next
<1>6. CASE processed' = Inserted(m, [run |-> r, label |-> job[p].label[m]]) /\ processed[m].run # 0
  BY <1>4, <1>6 DEF Inserted
<1> QED BY <1>4, <1>5, <1>6 DEF RecordMessage

\* A run is closed with the status its process computed; a failure has no row.
LEMMA CloseMaps ==
  ASSUME IInv, NEW p \in Procs, FinishRun(p)
  PROVE  [Promise!Next]_(Promise!vars)
<1>. DEFINE r == job[p].run  s == Outcome(job[p])
<1>1. UNCHANGED <<processed, delivered, hist>> BY DEF FinishRun, world
<1>2. UNCHANGED Claims BY <1>1 DEF Claims
<1>3. CASE UNCHANGED runStatus
  <2>1. UNCHANGED RecordedDryRuns BY <1>1, <1>3 DEF RecordedDryRuns
  <2> QED BY <1>1, <1>2, <1>3, <2>1 DEF Promise!vars
<1>4. CASE ~job[p].opts.stateless /\ runStatus' = [runStatus EXCEPT ![r] = s]
  <2>1. Owns(p) /\ Disciplined(p) /\ pc[p] = "finish" /\ job[p].status \in Status /\ s = Outcome(job[p])
    BY JobType DEF FinishRun, Running, IInv
  <2>1a. runStatus \in [RunIds -> Status] BY DEF IInv, TypeOK
  <2>2. r \in RunIds /\ runStatus[r] = "running" BY <1>4, <2>1 DEF Owns
  <2>3. CASE s \in Final
    <3>1. s \in {"degraded", "ingest_failed"} => \A m \in Messages : Claims[m] # r
      BY <2>1 DEF Disciplined, HasRow, Outcome, Unsuccessful, Claims
    <3>2. UNCHANGED RecordedDryRuns BY <1>1, <1>4, <2>1a, <2>2, <2>3 DEF RecordedDryRuns, Final
    <3>3. Promise!Close(r, s) BY <1>1, <1>2, <1>4, <2>2, <3>1, <3>2 DEF Promise!Close
    <3> QED BY <2>2, <2>3, <3>3 DEF Promise!Next
  <2>4. CASE s = "running"
    <3>1. UNCHANGED runStatus BY <1>4, <2>1a, <2>2, <2>4
    <3> QED BY <1>3, <3>1
  <2>5. s \in Final \cup {"running"} BY <2>1 DEF Outcome, Status, Final
  <2> QED BY <2>3, <2>4, <2>5
<1> QED BY <1>3, <1>4 DEF FinishRun

\* A new run opens once; a stateless one is not in the ledger.
LEMMA OpenMaps ==
  ASSUME IInv, NEW p \in Procs, NEW o \in Options, RecordRun(p, o)
  PROVE  [Promise!Next]_(Promise!vars)
<1>1. /\ nextRun \in RunIds /\ nextRun \in Nat /\ hist \in [RunIds -> History]
      /\ runStatus \in [RunIds -> Status]
  BY DEF RecordRun, IInv, TypeOK
<1>2. UNCHANGED <<processed, delivered>> /\ UNCHANGED Claims BY DEF RecordRun, world, Claims
<1>3. runStatus[nextRun] = "none" BY <1>1 DEF IInv, UnusedRuns
<1>4. \A q \in RunIds \ {nextRun} : hist'[q] = hist[q] BY <1>1 DEF RecordRun
<1>5. CASE o.stateless
  <2>1. UNCHANGED runStatus BY <1>5 DEF RecordRun
  <2>2. UNCHANGED RecordedDryRuns BY <1>3, <1>4, <2>1 DEF RecordedDryRuns
  <2> QED BY <1>2, <2>1, <2>2 DEF Promise!vars
<1>6. CASE ~o.stateless
  <2>1. runStatus' = [runStatus EXCEPT ![nextRun] = "running"] BY <1>6 DEF RecordRun
  <2>2. RecordedDryRuns' \in {RecordedDryRuns, RecordedDryRuns \cup {nextRun}}
    <3>1. nextRun \notin RecordedDryRuns BY <1>3 DEF RecordedDryRuns
    <3>2. \A q \in RunIds \ {nextRun} : q \in RecordedDryRuns' <=> q \in RecordedDryRuns
      BY <1>1, <1>4, <2>1 DEF RecordedDryRuns
    <3>3. RecordedDryRuns \subseteq RunIds /\ RecordedDryRuns' \subseteq RunIds BY DEF RecordedDryRuns
    <3> QED BY <3>1, <3>2, <3>3
  <2>3. Promise!Open(nextRun) BY <1>2, <1>3, <2>1, <2>2 DEF Promise!Open
  <2> QED BY <1>1, <2>3 DEF Promise!Next
<1> QED BY <1>5, <1>6

\* Every step is a step of the protocol or a stutter.
LEMMA NextMaps ==
  ASSUME IInv, IInv', [Next]_vars
  PROVE  [Promise!Next]_(Promise!vars)
<1>1. CASE UNCHANGED <<runStatus, delivered, processed, hist>>
  BY <1>1 DEF Promise!vars, RecordedDryRuns, Claims
<1>2. ASSUME NEW p \in Procs, Step(p) PROVE [Promise!Next]_(Promise!vars)
  <2>1. CASE \E m \in Messages : RecordMessage(p, m) BY <2>1, ClaimMaps
  <2>2. CASE FinishRun(p) BY <2>2, CloseMaps
  <2>3. CASE Exit(p) BY <1>1, <2>3 DEF Exit, world, ledger
  <2>4. ASSUME ~Exit(p), ~FinishRun(p), ~\E m \in Messages : RecordMessage(p, m)
        PROVE  [Promise!Next]_(Promise!vars)
    <3>1. /\ Running(p)
          /\ UNCHANGED <<runStatus, processed>>
          /\ delivered' \in {delivered, delivered \cup {job[p].run}}
      BY <1>2, <2>4
      DEF Step, Running, FetchWindow, FetchWindowFails, FetchAccount, FetchAccountFails, FlagAccount,
          IngestFails, SkipFilter, FilterProcessed, FilterFails, Fetched, Classify, ClassifyFails,
          Render, RenderFails, Send, SendFails, RecordSentDigest, RecordFailedDigest, RecordFlag,
          NoMessageToRecord, world, ledger
    <3>2. job[p].run \in RunIds /\ runStatus[job[p].run] \notin Final BY <3>1 DEF IInv, Owns, Final
    <3>3. TypeOK' BY DEF IInv
    <3>4. \A q \in RunIds : hist'[q].opts = hist[q].opts BY <1>2, <3>3, OptionsNeverChange
    <3> QED BY <3>1, <3>2, <3>4, DeliveryMaps
  <2> QED BY <2>1, <2>2, <2>3, <2>4
<1>3. ASSUME NEW p \in Procs, NEW o \in Options, RecordRun(p, o) PROVE [Promise!Next]_(Promise!vars)
  BY <1>3, OpenMaps
<1>4. CASE \/ UNCHANGED vars \/ Tick \/ \E m \in Messages : Arrive(m) \/ UserReads(m)
           \/ \E p \in Procs : StartFails(p) \/ Crash(p) \/ Cancel(p)
  BY <1>1, <1>4 DEF vars, world, ledger, Tick, Arrive, UserReads, StartFails, Crash, Cancel
<1> QED BY <1>2, <1>3, <1>4 DEF Next

\* The processes, whatever crashes, fails or overlaps, together implement the
\* abstract ledger: Run's order of RecordRun, Send, RecordMessage and FinishRun
\* is the protocol RunLedger states.
THEOREM PipelineKeepsProtocol == Spec => ImplementsRunLedger
<1>1. Init => Promise!Init BY DEF Init, Promise!Init, RecordedDryRuns, Claims, NoRow
<1>2. IInv /\ IInv' /\ [Next]_vars => [Promise!Next]_(Promise!vars) BY NextMaps
<1> QED BY InductiveInvariant, <1>1, <1>2, PTL DEF Spec, ImplementsRunLedger, Promise!Spec
=============================================================================
