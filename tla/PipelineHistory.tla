--------------------------- MODULE PipelineHistory ---------------------------
(***************************************************************************)
(* What the ledger and the chat say about each other, for every value of   *)
(* the constants.  PipelineProofs shows when rows are written; here it is  *)
(* what they mean: the digest records tell the truth, a recorded message   *)
(* was shown, a completed run has accounted for its window, successive     *)
(* windows leave no gap, and runs that do not overlap never show a message *)
(* twice.                                                                  *)
(*                                                                         *)
(* Each of these is about the run of the process that moves (predicates    *)
(* Reporting, Accounted, Attended, Undisturbed); lemma StepEffect says     *)
(* once that a step changes no other run's records.                        *)
(***************************************************************************)
EXTENDS PipelineProofs

-----------------------------------------------------------------------------
(* The invariants, of a process p that works on a run *)

BeforeDigest == {"window", "fetch", "classify", "render", "flag", "send"}

\* What p has told the chat and the digest ledger, by the stage it has reached.
Reporting(p) ==
  LET j == job[p]
      r == job[p].run IN
  /\ pc[p] \in BeforeDigest => chat[r] = {}
  /\ pc[p] \in BeforeDigest \cup {"sent", "unsent"} => digests[r] = {}
  /\ "failed" \in digests[r] => pc[p] = "finish" /\ j.status = "degraded"
  /\ pc[p] \in {"flag", "send", "sent"} =>
       j.shown \subseteq j.msgs /\ (MaxMessages = 0 => j.shown = j.msgs)
  /\ pc[p] = "sent" => chat[r] = j.shown
  /\ pc[p] = "messages" =>
       /\ j.todoM \subseteq j.msgs
       /\ MaxMessages = 0 => j.msgs \subseteq chat[r] \/ j.opts.dryRun

\* Why run r need not show message m itself.
Excused(r, m) ==
  Reported(m) \/ hist[r].opts.dryRun \/ AccountOf[m] \in hist[r].failed \/ (UnreadOnly /\ m \in seen)

\* What became of the messages that the run of p was due to report.
Accounted(p) ==
  LET j == job[p]
      r == job[p].run IN
  /\ pc[p] = "fetch" => \A m \in hist[r].due :
       /\ arrived[m] # 0 /\ Day(arrived[m], ServerZone) >= j.since
       /\ AccountOf[m] \in j.todoA \/ m \in j.msgs \/ Excused(r, m)
  /\ pc[p] \in {"classify", "render", "flag", "send", "sent"} =>
       \A m \in hist[r].due : m \in j.msgs \/ Excused(r, m)
  /\ pc[p] \in {"messages", "flags"} \/ (pc[p] = "finish" /\ Outcome(j) = "completed") =>
       \A m \in hist[r].due : Excused(r, m)

\* The run of p has computed its window.
HasWindow(p) == pc[p] # "window" /\ ~(pc[p] = "finish" /\ job[p].status = "ingest_failed")

\* The window of the run of p starts no later than the last success, and what has
\* arrived in it was fetched, or came too late for the run.
Attended(p) ==
  LET j == job[p]
      h == hist[job[p].run] IN
  HasWindow(p) =>
    /\ h.whole /\ ~j.opts.stateless =>
         h.since <= Day(clock, 0) /\ \A w \in LastSuccess : h.since <= Day(w, 0)
    /\ pc[p] = "fetch" => h.since = j.since
    /\ \A m \in Messages : arrived[m] # 0 /\ Day(arrived[m], ServerZone) >= h.since =>
         \/ pc[p] = "fetch" /\ AccountOf[m] \in j.todoA
         \/ m \in h.fetched \/ AccountOf[m] \in h.failed
         \/ UnreadOnly /\ m \in seen
         \/ Day(arrived[m], ServerZone) >= Day(h.began, ServerZone)

\* The messages p works on are still unprocessed, if it looked.
Undisturbed(p) ==
  LET j == job[p]
      r == job[p].run IN
  /\ r + 1 = nextRun
  /\ pc[p] \in {"classify", "render", "flag", "send"} =>
       hist[r].blind \/ \A m \in j.msgs : processed[m].run = 0

\* Runs not yet handed out have left no trace in the chat or the digest ledger.
UnusedSilent == \A r \in RunIds : r >= nextRun => chat[r] = {} /\ digests[r] = {}

\* Nothing is dated in the future.
PastOnly == \A r \in RunIds : hist[r].began <= clock /\ finishedAt[r] <= clock

-----------------------------------------------------------------------------
(* What a step of p leaves alone *)

\* Only p moves, only the records of its run change, and what was read, shown as
\* a keyword or recorded as processed stays so.
Effect(p) ==
  /\ \A q \in Procs \ {p} : pc'[q] = pc[q] /\ job'[q] = job[q]
  /\ \A r \in RunIds \ {job[p].run} :
       /\ hist'[r] = hist[r] /\ chat'[r] = chat[r] /\ digests'[r] = digests[r]
       /\ runStatus'[r] = runStatus[r] /\ finishedAt'[r] = finishedAt[r]
  /\ UNCHANGED <<clock, arrived, seen, nextRun>> /\ keywords \subseteq keywords'
  /\ \A m \in Messages :
       \/ processed'[m] = processed[m]
       \/ processed[m].run = 0 /\ processed'[m].run = job[p].run

LEMMA StepEffect ==
  ASSUME TypeOK, NEW p \in Procs, Step(p)
  PROVE  Effect(p)
<1>0. /\ pc \in [Procs -> Stages] /\ job \in [Procs -> Job] /\ hist \in [RunIds -> History]
      /\ chat \in [RunIds -> SUBSET Messages] /\ digests \in [RunIds -> SUBSET {"sent", "failed"}]
      /\ runStatus \in [RunIds -> Status] /\ finishedAt \in [RunIds -> Nat]
      /\ processed \in [Messages -> Row]
  BY DEF TypeOK
<1>. USE DEF Goto, Become, Effect, world, ledger
<1>1. CASE FetchWindow(p) \/ FetchWindowFails(p) \/ IngestFails(p)
  BY <1>0, <1>1 DEF FetchWindow, FetchWindowFails, IngestFails
<1>2. ASSUME NEW a \in Accounts, FetchAccount(p, a) \/ FetchAccountFails(p, a) \/ FlagAccount(p, a)
      PROVE  Effect(p)
  BY <1>0, <1>2 DEF FetchAccount, FetchAccountFails, FlagAccount
<1>3. CASE SkipFilter(p) \/ FilterProcessed(p) \/ FilterFails(p)
  BY <1>0, <1>3 DEF SkipFilter, FilterProcessed, FilterFails, Proceed
<1>4. CASE Classify(p) \/ ClassifyFails(p) \/ RenderFails(p)
  BY <1>0, <1>4 DEF Classify, ClassifyFails, RenderFails
<1>5. CASE Render(p)
  BY <1>0, <1>5 DEF Render, BeginRecording
<1>6. CASE Send(p) \/ SendFails(p)
  BY <1>0, <1>6 DEF Send, SendFails
<1>7. CASE RecordSentDigest(p) \/ RecordFailedDigest(p)
  BY <1>0, <1>7 DEF RecordSentDigest, RecordFailedDigest, RecordDigest, BeginRecording
<1>8. ASSUME NEW m \in Messages, RecordMessage(p, m) PROVE Effect(p)
  <2>1. \A n \in Messages :
          \/ processed'[n] = processed[n]
          \/ processed[n].run = 0 /\ processed'[n].run = job[p].run
    <3>1. \/ processed' = processed
          \/ processed' = Inserted(m, [run |-> job[p].run, label |-> job[p].label[m]])
      BY <1>8 DEF RecordMessage
    <3> QED BY <1>0, <3>1 DEF Inserted
  <2>2. \A q \in Procs \ {p} : pc'[q] = pc[q] /\ job'[q] = job[q]
    BY <1>0, <1>8 DEF RecordMessage, NextMessage
  <2> QED BY <1>8, <2>1, <2>2 DEF RecordMessage
<1>9. ASSUME NEW m \in Messages, RecordFlag(p, m) PROVE Effect(p)
  BY <1>0, <1>9 DEF RecordFlag
<1>10. CASE NoMessageToRecord(p) \/ FinishRun(p) \/ Exit(p)
  BY <1>0, <1>10 DEF NoMessageToRecord, FinishRun, Exit
<1> QED BY <1>1, <1>2, <1>3, <1>4, <1>5, <1>6, <1>7, <1>8, <1>9, <1>10 DEF Step

\* The dedup filter's part of a step.
LEMMA ProceedEffect ==
  ASSUME TypeOK, NEW p \in Procs, NEW fresh \in SUBSET Messages, Proceed(p, fresh)
  PROVE  /\ job'[p].run = job[p].run /\ job'[p].opts = job[p].opts /\ job'[p].msgs = fresh
         /\ job'[p].since = job[p].since /\ job'[p].llmErr = job[p].llmErr
         /\ fresh = {} => pc'[p] = "finish" /\ job'[p].status = "completed"
         /\ fresh # {} => pc'[p] = "classify"
<1>0. pc \in [Procs -> Stages] /\ job \in [Procs -> Job] BY DEF TypeOK
<1>1. CASE fresh = {}
  <2>1. pc'[p] = "finish" /\ job'[p] = [job[p] EXCEPT !.msgs = {}, !.status = "completed"]
    BY <1>0, <1>1 DEF Proceed, Goto, Become
  <2> QED BY <1>0, <1>1, <2>1 DEF Job
<1>2. CASE fresh # {}
  <2>. DEFINE s == IF job[p].failed # {} THEN "partial" ELSE "none"
  <2>1. pc'[p] = "classify" /\ job'[p] = [job[p] EXCEPT !.msgs = fresh, !.status = s]
    BY <1>0, <1>2 DEF Proceed, Goto, Become
  <2>. HIDE DEF s
  <2> QED BY <1>0, <1>2, <2>1 DEF Job
<1> QED BY <1>1, <1>2

LEMMA RecordingEffect ==
  ASSUME TypeOK, NEW p \in Procs, NEW j \in Job, BeginRecording(p, j)
  PROVE  /\ job'[p] = [j EXCEPT !.todoM = Answered(j) \cap j.msgs]
         /\ pc'[p] = IF MayRecord(j) THEN "messages" ELSE "finish"
BY DEF TypeOK, BeginRecording, Become, Goto

\* Up to the rendered digest p goes through its stages with the run it has.
LEMMA IngestEffect ==
  ASSUME TypeOK, NEW p \in Procs,
         \/ FetchWindow(p) \/ FetchWindowFails(p) \/ IngestFails(p)
         \/ \E a \in Accounts : FetchAccount(p, a) \/ FetchAccountFails(p, a)
         \/ SkipFilter(p) \/ FilterProcessed(p) \/ FilterFails(p)
         \/ Classify(p) \/ ClassifyFails(p) \/ RenderFails(p)
  PROVE  /\ pc'[p] \in {"window", "fetch", "classify", "render", "finish"}
         /\ job'[p].run = job[p].run /\ job'[p].opts = job[p].opts
<1>0. TypeOK /\ pc \in [Procs -> Stages] /\ job \in [Procs -> Job] /\ job[p] \in Job BY DEF TypeOK
<1>. USE DEF Goto, Become
<1>1. CASE FetchWindow(p)
  <2>1. PICK since \in WindowStart(job[p].opts) :
          Become(p, [job[p] EXCEPT !.since = since, !.todoA = Accounts])
    BY <1>1 DEF FetchWindow
  <2> QED BY <1>0, <1>1, <2>1 DEF FetchWindow, Job
<1>2. CASE FetchWindowFails(p) \/ IngestFails(p) \/ RenderFails(p) \/ ClassifyFails(p)
  <2>1. pc'[p] \in {"finish", "render"}
    BY <1>0, <1>2 DEF FetchWindowFails, IngestFails, RenderFails, ClassifyFails
  <2>2. \/ \E s \in {"ingest_failed", "degraded"} : job'[p] = [job[p] EXCEPT !.status = s]
        \/ job'[p] = [job[p] EXCEPT !.llmErr = TRUE, !.status = "degraded"]
    BY <1>0, <1>2 DEF FetchWindowFails, IngestFails, RenderFails, ClassifyFails
  <2>3. job'[p].run = job[p].run /\ job'[p].opts = job[p].opts BY <1>0, <2>2 DEF Job
  <2> QED BY <2>1, <2>3
<1>3. ASSUME NEW a \in Accounts, FetchAccount(p, a) \/ FetchAccountFails(p, a)
      PROVE  pc'[p] = "fetch" /\ job'[p].run = job[p].run /\ job'[p].opts = job[p].opts
  <2>1. pc'[p] = "fetch" BY <1>0, <1>3 DEF FetchAccount, FetchAccountFails
  <2>2. \/ \E got \in SUBSET Messages :
             job'[p] = [job[p] EXCEPT !.todoA = @ \ {a}, !.msgs = @ \cup got]
        \/ job'[p] = [job[p] EXCEPT !.todoA = @ \ {a}, !.failed = @ \cup {a}]
    BY <1>0, <1>3 DEF FetchAccount, FetchAccountFails
  <2>3. job'[p].run = job[p].run /\ job'[p].opts = job[p].opts BY <1>0, <2>2 DEF Job
  <2> QED BY <2>1, <2>3
<1>4. CASE SkipFilter(p) \/ FilterProcessed(p) \/ FilterFails(p)
  <2>1. PICK fresh \in SUBSET Messages : Proceed(p, fresh)
    BY <1>0, <1>4 DEF SkipFilter, FilterProcessed, FilterFails, Fresh, Job
  <2> QED BY <1>0, <2>1, ProceedEffect
<1>5. CASE Classify(p)
  <2>1. PICK a \in Answers(p) : Become(p, [job[p] EXCEPT !.label = a.label, !.bad = a.bad])
    BY <1>5 DEF Classify
  <2>2. pc'[p] = "render" BY <1>0, <1>5 DEF Classify
  <2>3. job'[p] = [job[p] EXCEPT !.label = a.label, !.bad = a.bad] BY <1>0, <2>1
  <2> QED BY <1>0, <2>2, <2>3 DEF Job
<1> QED BY <1>1, <1>2, <1>3, <1>4, <1>5

\* The loops that follow delivery change only what is left to write.
LEMMA LoopEffect ==
  ASSUME TypeOK, NEW p \in Procs,
         \/ \E m \in Messages : RecordMessage(p, m) \/ RecordFlag(p, m)
         \/ NoMessageToRecord(p)
  PROVE  LET j == job[p]
             k == job'[p] IN
         /\ k.run = j.run /\ k.opts = j.opts /\ k.msgs = j.msgs /\ k.label = j.label
         /\ k.llmErr = j.llmErr /\ k.status = j.status
         /\ pc[p] \in {"messages", "flags"} /\ pc'[p] \in {"messages", "flags", "finish"}
         /\ pc'[p] = "messages" => pc[p] = "messages" /\ k.todoM \subseteq j.todoM
         /\ UNCHANGED <<delivered, chat, runStatus, finishedAt, digests, hist, keywords>>
<1>0. pc \in [Procs -> Stages] /\ job \in [Procs -> Job] /\ job[p] \in Job BY DEF TypeOK
<1>1. PICK todo \in SUBSET Messages :
        job'[p] = [job[p] EXCEPT !.todoM = todo] /\ (pc'[p] = "messages" => todo \subseteq job[p].todoM)
  <2>1. Flagged(job[p]) \subseteq Messages BY DEF Flagged
  <2>. DEFINE W(todo) == /\ job'[p] = [job[p] EXCEPT !.todoM = todo]
                         /\ pc'[p] = "messages" => todo \subseteq job[p].todoM
  <2>2. ASSUME NEW m \in Messages, RecordMessage(p, m)
        PROVE  W(Flagged(job[p])) \/ W(job[p].todoM \ {m})
    BY <1>0, <2>2 DEF RecordMessage, NextMessage, Become, Goto
  <2>3. ASSUME NEW m \in Messages, RecordFlag(p, m) PROVE W(job[p].todoM \ {m})
    BY <1>0, <2>3 DEF RecordFlag, Become, Goto
  <2>4. CASE NoMessageToRecord(p)
    <3>1. W(Flagged(job[p])) BY <1>0, <2>4 DEF NoMessageToRecord, Become, Goto
    <3> QED BY <2>1, <3>1
  <2>5. \A m \in Messages : job[p].todoM \ {m} \in SUBSET Messages BY <1>0 DEF Job
  <2> HIDE DEF W
  <2>6. \E todo \in SUBSET Messages : W(todo) BY <2>1, <2>2, <2>3, <2>4, <2>5 DEF W
  <2> QED BY <2>6 DEF W
<1>2. pc[p] \in {"messages", "flags"} /\ pc'[p] \in {"messages", "flags", "finish"}
      /\ (pc'[p] = "messages" => pc[p] = "messages")
  BY <1>0 DEF RecordMessage, NextMessage, RecordFlag, NoMessageToRecord, Goto
<1>3. UNCHANGED <<delivered, chat, runStatus, finishedAt, digests, hist, keywords>>
  BY DEF RecordMessage, RecordFlag, NoMessageToRecord, world, ledger
<1> QED BY <1>0, <1>1, <1>2, <1>3 DEF Job

LEMMA StepAtWork ==
  ASSUME IInv, IInv', NEW p \in Procs, Step(p), ~Exit(p)
  PROVE  Running(p) /\ Effect(p) /\ \A q \in RunIds : hist'[q].opts = hist[q].opts
<1>1. Running(p)
  BY DEF Step, Running, FetchWindow, FetchWindowFails, FetchAccount, FetchAccountFails, FlagAccount,
         IngestFails, SkipFilter, FilterProcessed, FilterFails, Fetched, Classify, ClassifyFails,
         Render, RenderFails, Send, SendFails, RecordSentDigest, RecordFailedDigest, RecordMessage,
         RecordFlag, NoMessageToRecord, FinishRun
<1>2. TypeOK /\ TypeOK' BY DEF IInv
<1> QED BY <1>1, <1>2, StepEffect, OptionsNeverChange

\* A step of nobody's run: the world moves, or a process starts, ends or dies.
Aside ==
  /\ UNCHANGED <<chat, delivered, keywords, runStatus, finishedAt, processed, flagRecords,
                 digests, nextRun, hist>>
  /\ \A q \in Procs : Running(q)' => pc'[q] = pc[q] /\ job'[q] = job[q]
  /\ clock <= clock' /\ seen \subseteq seen'
  /\ \A m \in Messages : arrived'[m] = arrived[m] \/ (arrived[m] = 0 /\ arrived'[m] = clock)

LEMMA AsideSteps ==
  ASSUME TypeOK,
         \/ UNCHANGED vars \/ Tick \/ \E m \in Messages : Arrive(m) \/ UserReads(m)
         \/ \E p \in Procs : Exit(p) \/ StartFails(p) \/ Crash(p) \/ Cancel(p)
  PROVE  Aside
<1>0. /\ pc \in [Procs -> Stages] /\ job \in [Procs -> Job] /\ arrived \in [Messages -> Nat]
      /\ clock \in Nat
  BY DEF TypeOK
<1>. USE DEF Aside, world, ledger
<1>1. CASE UNCHANGED vars \/ Tick \/ \E m \in Messages : UserReads(m)
  BY <1>0, <1>1 DEF vars, Tick, UserReads
<1>2. ASSUME NEW m \in Messages, Arrive(m) PROVE Aside
  BY <1>0, <1>2 DEF Arrive
<1>3. ASSUME NEW p \in Procs, Exit(p) \/ StartFails(p) \/ Crash(p) \/ Cancel(p) PROVE Aside
  <2>1. UNCHANGED <<world, ledger, nextRun, hist>>
    BY <1>3 DEF Exit, StartFails, Crash, Cancel
  <2>2. ASSUME NEW q \in Procs, Running(q)' PROVE pc'[q] = pc[q] /\ job'[q] = job[q]
    BY <1>0, <1>3, <2>2 DEF Exit, StartFails, Crash, Cancel, Goto, Become, Running
  <2> QED BY <1>0, <2>1, <2>2
<1> QED BY <1>1, <1>2, <1>3

\* A process begins the next run.
LEMMA RecordRunEffect ==
  ASSUME TypeOK, NEW p \in Procs, NEW o \in Options, RecordRun(p, o)
  PROVE  /\ nextRun \in RunIds /\ nextRun' = nextRun + 1 /\ ~Running(p)
         /\ pc'[p] = "window" /\ job'[p].run = nextRun /\ job'[p].opts = o
         /\ \A q \in Procs \ {p} : pc'[q] = pc[q] /\ job'[q] = job[q]
         /\ UNCHANGED <<world, finishedAt, processed, flagRecords, digests>>
         /\ \A r \in RunIds \ {nextRun} : runStatus'[r] = runStatus[r] /\ hist'[r] = hist[r]
         /\ runStatus'[nextRun] \in {runStatus[nextRun], "running"}
         /\ hist'[nextRun] = [hist[nextRun] EXCEPT !.opts = o]
<1>0. /\ pc \in [Procs -> Stages] /\ job \in [Procs -> Job] /\ hist \in [RunIds -> History]
      /\ runStatus \in [RunIds -> Status] /\ o \in Option
  BY PipelineAssumption DEF TypeOK
<1>1. job'[p] = [job[p] EXCEPT !.run = nextRun, !.opts = o] BY <1>0 DEF RecordRun, Become
<1>2. job'[p].run = nextRun /\ job'[p].opts = o BY <1>0, <1>1 DEF Job
<1> QED BY <1>0, <1>2 DEF RecordRun, Goto, Become, Running

LEMMA RenderEffect ==
  ASSUME TypeOK, NEW p \in Procs, Render(p)
  PROVE  LET j == job[p]
             k == job'[p] IN
         /\ k.run = j.run /\ k.opts = j.opts /\ k.msgs = j.msgs /\ k.label = j.label
         /\ k.llmErr = j.llmErr /\ k.bad = j.bad /\ k.status = Graded(j)
         /\ k.shown \subseteq k.msgs /\ (MaxMessages = 0 => k.shown = k.msgs)
         /\ j.opts.dryRun =>
              k.todoM \subseteq k.msgs /\ pc'[p] = IF MayRecord(j) THEN "messages" ELSE "finish"
         /\ ~j.opts.dryRun =>
              pc'[p] = StageAfterRender(j) /\ k.todoA = {AccountOf[m] : m \in Flagged(j)}
<1>0. /\ pc \in [Procs -> Stages] /\ job \in [Procs -> Job] /\ job[p] \in Job
      /\ Graded(job[p]) \in Status /\ AccountOf \in [Messages -> Accounts]
  BY GradedType, PipelineAssumption DEF TypeOK
<1>1. PICK s \in Selections(job[p].msgs) :
        LET j == [job[p] EXCEPT !.shown = s, !.status = Graded(job[p])] IN
        IF j.opts.dryRun THEN BeginRecording(p, j)
        ELSE /\ Become(p, [j EXCEPT !.todoA = {AccountOf[m] : m \in Flagged(j)}])
             /\ Goto(p, StageAfterRender(j))
  BY DEF Render
<1>2. s \subseteq job[p].msgs /\ (MaxMessages = 0 => s = job[p].msgs) BY DEF Selections
<1>. DEFINE g == Graded(job[p])
            j == [job[p] EXCEPT !.shown = s, !.status = g]
<1>3. /\ j \in Job /\ j.run = job[p].run /\ j.opts = job[p].opts /\ j.msgs = job[p].msgs
      /\ j.label = job[p].label /\ j.llmErr = job[p].llmErr /\ j.bad = job[p].bad
      /\ j.shown = s /\ j.status = g
  <2>1. g \in Status /\ s \subseteq Messages BY <1>0, <1>2 DEF Job
  <2>. HIDE DEF g
  <2> QED BY <1>0, <2>1 DEF Job
<1>4. IF j.opts.dryRun THEN BeginRecording(p, j)
      ELSE /\ Become(p, [j EXCEPT !.todoA = {AccountOf[m] : m \in Flagged(j)}])
           /\ Goto(p, StageAfterRender(j))
  BY <1>1
<1>. HIDE DEF j, g
<1>5. /\ Flagged(j) = Flagged(job[p]) /\ MayRecord(j) = MayRecord(job[p])
      /\ StageAfterRender(j) = StageAfterRender(job[p])
  BY <1>3 DEF Flagged, MayRecord, StageAfterRender
<1>6. CASE job[p].opts.dryRun
  <2>1. BeginRecording(p, j) BY <1>3, <1>4, <1>6
  <2>2. /\ job'[p] = [j EXCEPT !.todoM = Answered(j) \cap j.msgs]
        /\ pc'[p] = IF MayRecord(j) THEN "messages" ELSE "finish"
    BY <1>3, <2>1, RecordingEffect
  <2> QED BY <1>2, <1>3, <1>5, <1>6, <2>2 DEF Job, g
<1>7. CASE ~job[p].opts.dryRun
  <2>1. /\ job'[p] = [j EXCEPT !.todoA = {AccountOf[m] : m \in Flagged(j)}]
        /\ pc'[p] = StageAfterRender(j)
    <3>1. StageAfterRender(j) \in Stages BY DEF StageAfterRender, Stages
    <3> QED BY <1>0, <1>3, <1>4, <1>7, <3>1 DEF Become, Goto
  <2> QED BY <1>2, <1>3, <1>5, <1>7, <2>1 DEF Job, g
<1> QED BY <1>6, <1>7

-----------------------------------------------------------------------------
(* The digest records and the rows *)

ReportInv ==
  /\ UnusedSilent /\ DigestRecordsTruthful /\ RecordedWasShown
  /\ \A p \in Procs : Running(p) => Reporting(p)

\* The digest ledger and the rows of run r are as promised.
RunRecords(r) ==
  /\ "sent" \in digests[r] => r \in delivered /\ "failed" \notin digests[r]
  /\ "failed" \in digests[r] => runStatus[r] \in {"running", "degraded"}
  /\ MaxMessages = 0 =>
       \A m \in Messages : processed[m].run = r => m \in chat[r] \/ hist[r].opts.dryRun

LEMMA RunByRun ==
  ASSUME TypeOK
  PROVE  DigestRecordsTruthful /\ RecordedWasShown <=> \A r \in RunIds : RunRecords(r)
<1>1. /\ RunIds \subseteq Nat \ {0} /\ \A m \in Messages : processed[m].run \in RunIds \cup {0}
  BY PipelineAssumption DEF TypeOK, RunIds, Row
<1> QED BY <1>1 DEF DigestRecordsTruthful, RecordedWasShown, RunRecords

\* The obligation of a step of p, for p and its run alone.
LEMMA ReportStep ==
  ASSUME IInv, IInv', ReportInv, NEW p \in Procs, Running(p), Effect(p),
         \A q \in RunIds : hist'[q].opts = hist[q].opts,
         delivered \subseteq delivered', job'[p].run = job[p].run,
         RunRecords(job[p].run)', Running(p)' => Reporting(p)'
  PROVE  ReportInv'
<1>. DEFINE r == job[p].run
<1>00. TypeOK /\ TypeOK' /\ Owns(p) BY DEF IInv
<1>0. /\ TypeOK /\ TypeOK' /\ r \in RunIds /\ r < nextRun /\ nextRun \in Nat
      /\ RunIds \subseteq Nat \ {0}
  <2>1. nextRun \in Nat /\ RunIds \subseteq Nat \ {0} BY <1>00, PipelineAssumption DEF TypeOK, RunIds
  <2> QED BY <1>00, <2>1 DEF Owns
<1>1. UnusedSilent' BY <1>0 DEF ReportInv, UnusedSilent, Effect
<1>2. ASSUME NEW q \in RunIds, q # r PROVE RunRecords(q)'
  <2>1. RunRecords(q) BY <1>0, RunByRun DEF ReportInv
  <2>2. /\ digests'[q] = digests[q] /\ chat'[q] = chat[q] /\ runStatus'[q] = runStatus[q]
        /\ \A m \in Messages : processed'[m].run = q => processed[m].run = q
    BY <1>2 DEF Effect
  <2> QED BY <2>1, <2>2 DEF RunRecords
<1>3. DigestRecordsTruthful' /\ RecordedWasShown'
  <2>1. \A q \in RunIds : RunRecords(q)' BY <1>2
  <2>2. \A m \in Messages : processed'[m].run \in RunIds \cup {0} BY <1>0 DEF TypeOK, Row
  <2> QED BY <1>0, <2>1, <2>2 DEF RunRecords, DigestRecordsTruthful, RecordedWasShown
<1>4. ASSUME NEW q \in Procs, q # p, Running(q)' PROVE Reporting(q)'
  <2>1. pc'[q] = pc[q] /\ job'[q] = job[q] BY <1>4 DEF Effect
  <2>2. Running(q) BY <1>4, <2>1 DEF Running
  <2>3. Reporting(q) /\ job[q].run \in RunIds /\ job[q].run # r
    BY <1>4, <2>2 DEF ReportInv, IInv, Owns, OwnRuns
  <2>4. digests'[job[q].run] = digests[job[q].run] /\ chat'[job[q].run] = chat[job[q].run]
    BY <2>3 DEF Effect
  <2> QED BY <2>1, <2>3, <2>4 DEF Reporting
<1> QED BY <1>1, <1>3, <1>4 DEF ReportInv

\* A step that only moves p on.
LEMMA ReportQuiet ==
  ASSUME IInv, IInv', ReportInv, NEW p \in Procs, Running(p), Effect(p),
         \A q \in RunIds : hist'[q].opts = hist[q].opts,
         UNCHANGED <<delivered, chat, digests, runStatus, processed>>,
         job'[p].run = job[p].run, Running(p)' => Reporting(p)'
  PROVE  ReportInv'
<1>1. job[p].run \in RunIds BY DEF IInv, Owns
<1>2. RunRecords(job[p].run)
  <2>1. TypeOK BY DEF IInv
  <2> QED BY <1>1, <2>1, RunByRun DEF ReportInv
<1>3. RunRecords(job[p].run)' BY <1>1, <1>2 DEF RunRecords
<1> QED BY <1>3, ReportStep

\* Up to the answer of the provider nothing is shown or recorded.
LEMMA IngestReports ==
  ASSUME IInv, IInv', ReportInv, NEW p \in Procs, Running(p), Effect(p),
         \A q \in RunIds : hist'[q].opts = hist[q].opts,
         \/ FetchWindow(p) \/ FetchWindowFails(p) \/ IngestFails(p)
         \/ \E a \in Accounts : FetchAccount(p, a) \/ FetchAccountFails(p, a)
         \/ SkipFilter(p) \/ FilterProcessed(p) \/ FilterFails(p)
         \/ Classify(p) \/ ClassifyFails(p) \/ RenderFails(p)
  PROVE  ReportInv'
<1>0. TypeOK /\ pc \in [Procs -> Stages] /\ job \in [Procs -> Job] /\ job[p] \in Job BY DEF IInv, TypeOK
<1>. USE DEF world, ledger, Goto, Become
<1>1. /\ UNCHANGED <<delivered, chat, digests, runStatus, processed>>
      /\ pc[p] \in {"window", "fetch", "classify", "render"}
  BY DEF FetchWindow, FetchWindowFails, IngestFails, FetchAccount, FetchAccountFails, Fetched,
         SkipFilter, FilterProcessed, FilterFails, Classify, ClassifyFails, RenderFails
<1>2. pc'[p] \in {"window", "fetch", "classify", "render", "finish"} /\ job'[p].run = job[p].run
  BY <1>0, IngestEffect
<1>3. digests[job[p].run] = {} /\ chat[job[p].run] = {}
  BY <1>1 DEF ReportInv, Reporting, BeforeDigest
<1>4. Reporting(p)' BY <1>1, <1>2, <1>3 DEF Reporting
<1> QED BY <1>1, <1>2, <1>4, ReportQuiet

\* The rendered digest shows the messages of the run, all of them without a cap.
LEMMA RenderReports ==
  ASSUME IInv, IInv', ReportInv, NEW p \in Procs, Running(p), Effect(p),
         \A q \in RunIds : hist'[q].opts = hist[q].opts, Render(p)
  PROVE  ReportInv'
<1>0. TypeOK BY DEF IInv
<1>1. UNCHANGED <<delivered, chat, digests, runStatus, processed>> /\ pc[p] = "render"
  BY DEF Render, world, ledger
<1>2. digests[job[p].run] = {} /\ chat[job[p].run] = {}
  BY <1>1 DEF ReportInv, Reporting, BeforeDigest
<1>. DEFINE k == job'[p]
<1>3. /\ k.run = job[p].run /\ k.opts = job[p].opts
      /\ k.shown \subseteq k.msgs /\ (MaxMessages = 0 => k.shown = k.msgs)
      /\ \/ job[p].opts.dryRun /\ k.todoM \subseteq k.msgs /\ pc'[p] \in {"messages", "finish"}
         \/ ~job[p].opts.dryRun /\ pc'[p] \in {"send", "flag"}
  BY <1>0, RenderEffect DEF StageAfterRender
<1>. HIDE DEF k
<1>4. Reporting(p)' BY <1>1, <1>2, <1>3 DEF Reporting, k
<1> QED BY <1>1, <1>3, <1>4, ReportQuiet DEF k

LEMMA FlagAccountReports ==
  ASSUME IInv, IInv', ReportInv, NEW p \in Procs, Running(p), Effect(p),
         \A q \in RunIds : hist'[q].opts = hist[q].opts,
         NEW a \in Accounts, FlagAccount(p, a)
  PROVE  ReportInv'
<1>0. pc \in [Procs -> Stages] /\ job \in [Procs -> Job] /\ job[p] \in Job BY DEF IInv, TypeOK
<1>1. UNCHANGED <<delivered, chat, digests, runStatus, processed>> /\ pc[p] = "flag"
  BY DEF FlagAccount, ledger
<1>2. pc'[p] \in {"flag", "send"} /\ job'[p] = [job[p] EXCEPT !.todoA = @ \ {a}]
  BY <1>0, <1>1 DEF FlagAccount, Goto, Become
<1>3. /\ job'[p].run = job[p].run /\ job'[p].opts = job[p].opts
      /\ job'[p].shown = job[p].shown /\ job'[p].msgs = job[p].msgs
  BY <1>0, <1>2 DEF Job
<1>4. Reporting(p) BY DEF ReportInv
<1>5. Reporting(p)' BY <1>1, <1>2, <1>3, <1>4 DEF Reporting, BeforeDigest
<1> QED BY <1>1, <1>3, <1>5, ReportQuiet

\* What Telegram accepts is the rendered digest.
LEMMA SendReports ==
  ASSUME IInv, IInv', ReportInv, NEW p \in Procs, Running(p), Effect(p),
         \A q \in RunIds : hist'[q].opts = hist[q].opts, Send(p) \/ SendFails(p)
  PROVE  ReportInv'
<1>0. /\ pc \in [Procs -> Stages] /\ chat \in [RunIds -> SUBSET Messages]
      /\ TypeOK /\ job[p].run \in RunIds
  BY DEF IInv, TypeOK, Owns
<1>1. UNCHANGED <<job, digests, runStatus, processed, hist>> /\ pc[p] = "send"
  BY DEF Send, SendFails, ledger
<1>2. /\ delivered \subseteq delivered'
      /\ (pc'[p] = "sent" /\ chat'[job[p].run] = job[p].shown) \/ pc'[p] = "unsent"
  BY <1>0 DEF Send, SendFails, Goto
<1>3. Reporting(p) /\ digests[job[p].run] = {} /\ ~HasRow(job[p].run)
  <2>1. Disciplined(p) BY DEF IInv
  <2>2. ~HasRow(job[p].run) BY <1>1, <2>1 DEF Disciplined
  <2>3. Reporting(p) BY DEF ReportInv
  <2>4. digests[job[p].run] = {} BY <1>1, <2>3 DEF Reporting, BeforeDigest
  <2> QED BY <2>2, <2>3, <2>4
<1>4. Reporting(p)' BY <1>1, <1>2, <1>3 DEF Reporting, BeforeDigest
<1>5. RunRecords(job[p].run)' BY <1>1, <1>3 DEF RunRecords, HasRow
<1> QED BY <1>1, <1>2, <1>4, <1>5, ReportStep

LEMMA DigestReports ==
  ASSUME IInv, IInv', ReportInv, NEW p \in Procs, Running(p), Effect(p),
         \A q \in RunIds : hist'[q].opts = hist[q].opts,
         RecordSentDigest(p) \/ RecordFailedDigest(p)
  PROVE  ReportInv'
<1>. DEFINE r == job[p].run
<1>0. /\ pc \in [Procs -> Stages] /\ job \in [Procs -> Job] /\ job[p] \in Job /\ TypeOK
      /\ digests \in [RunIds -> SUBSET {"sent", "failed"}] /\ r \in RunIds
  BY DEF IInv, TypeOK, Owns
<1>1. /\ UNCHANGED <<delivered, chat, runStatus, processed, hist>>
      /\ pc[p] \in {"sent", "unsent"}
  BY DEF RecordSentDigest, RecordFailedDigest, world
<1>2. /\ Reporting(p) /\ digests[r] = {} /\ ~HasRow(r)
      /\ runStatus[r] = IF job[p].opts.stateless THEN "none" ELSE "running"
  <2>1. Disciplined(p) /\ Owns(p) BY DEF IInv
  <2>2. ~HasRow(r) BY <1>1, <2>1 DEF Disciplined
  <2>3. Reporting(p) BY DEF ReportInv
  <2>4. digests[r] = {} BY <1>1, <2>3 DEF Reporting
  <2> QED BY <2>1, <2>2, <2>3, <2>4 DEF Owns
<1>3. CASE RecordSentDigest(p)
  <2>1. /\ pc[p] = "sent" /\ digests'[r] \subseteq {"sent"} /\ r \in delivered
        /\ BeginRecording(p, job[p])
    <3>1. Disciplined(p) BY DEF IInv
    <3> QED BY <1>0, <1>2, <1>3, <3>1 DEF RecordSentDigest, RecordDigest, Disciplined
  <2>2. /\ job'[p] = [job[p] EXCEPT !.todoM = Answered(job[p]) \cap job[p].msgs]
        /\ pc'[p] \in {"messages", "finish"}
    BY <1>0, <2>1, RecordingEffect
  <2>3. /\ job'[p].run = r /\ job'[p].opts = job[p].opts /\ job'[p].msgs = job[p].msgs
        /\ job'[p].todoM \subseteq job[p].msgs
    BY <1>0, <2>2 DEF Job
  <2>4. Reporting(p)' BY <1>1, <1>2, <2>1, <2>2, <2>3 DEF Reporting, BeforeDigest
  <2>5. RunRecords(r)' BY <1>1, <1>2, <2>1, <2>3 DEF RunRecords, HasRow
  <2> QED BY <1>1, <2>3, <2>4, <2>5, ReportStep
<1>4. CASE RecordFailedDigest(p)
  <2>1. /\ digests'[r] \subseteq {"failed"} /\ pc'[p] = "finish"
        /\ job[p].opts.stateless => digests'[r] = {}
        /\ job'[p] = [job[p] EXCEPT !.status = "degraded"]
    BY <1>0, <1>2, <1>4 DEF RecordFailedDigest, RecordDigest, Goto, Become
  <2>2. job'[p].run = r /\ job'[p].status = "degraded" BY <1>0, <2>1 DEF Job
  <2>3. Reporting(p)' BY <2>1, <2>2 DEF Reporting, BeforeDigest
  <2>4. RunRecords(r)' BY <1>1, <1>2, <2>1 DEF RunRecords, HasRow
  <2> QED BY <1>1, <2>2, <2>3, <2>4, ReportStep
<1> QED BY <1>3, <1>4

\* The rows of a run are those of messages its digest showed.
LEMMA RecordReports ==
  ASSUME IInv, IInv', ReportInv, NEW p \in Procs, Running(p), Effect(p),
         \A q \in RunIds : hist'[q].opts = hist[q].opts,
         NEW m \in Messages, RecordMessage(p, m)
  PROVE  ReportInv'
<1>. DEFINE r == job[p].run
            row == [run |-> r, label |-> job[p].label[m]]
<1>0. /\ pc \in [Procs -> Stages] /\ job \in [Procs -> Job] /\ job[p] \in Job /\ TypeOK
      /\ processed \in [Messages -> Row] /\ r \in RunIds /\ hist[r].opts = job[p].opts
  BY DEF IInv, TypeOK, Owns
<1>1. /\ UNCHANGED <<delivered, chat, runStatus, digests, hist>> /\ pc[p] = "messages"
      /\ m \in job[p].todoM /\ NextMessage(p, m)
  BY DEF RecordMessage, world
<1>2. Reporting(p) BY DEF ReportInv
<1>3. \A n \in Messages : processed'[n].run = processed[n].run \/ (n = m /\ processed'[n].run = r)
  <2>1. processed' = processed \/ processed' = Inserted(m, row) BY DEF RecordMessage
  <2>2. row.run = r OBVIOUS
  <2>. HIDE DEF row
  <2> QED BY <1>0, <2>1, <2>2 DEF Inserted
<1>4. /\ job'[p].run = r /\ job'[p].opts = job[p].opts /\ job'[p].msgs = job[p].msgs
      /\ pc'[p] \in {"flags", "finish"} \/ (pc'[p] = "messages" /\ job'[p].todoM \subseteq job[p].todoM)
  BY <1>0, <1>1 DEF NextMessage, Become, Goto, Job
<1>5. Reporting(p)' BY <1>1, <1>2, <1>4 DEF Reporting, BeforeDigest
<1>6. RunRecords(r)'
  <2>1. RunRecords(r) BY <1>0, RunByRun DEF ReportInv
  <2>2. MaxMessages = 0 => m \in chat[r] \/ hist[r].opts.dryRun
    BY <1>0, <1>1, <1>2 DEF Reporting
  <2> QED BY <1>1, <1>3, <1>4, <2>1, <2>2 DEF RunRecords
<1> QED BY <1>1, <1>4, <1>5, <1>6, ReportStep

LEMMA FlagsReport ==
  ASSUME IInv, IInv', ReportInv, NEW p \in Procs, Running(p), Effect(p),
         \A q \in RunIds : hist'[q].opts = hist[q].opts,
         NoMessageToRecord(p) \/ \E m \in Messages : RecordFlag(p, m)
  PROVE  ReportInv'
<1>0. pc \in [Procs -> Stages] /\ job \in [Procs -> Job] /\ job[p] \in Job BY DEF IInv, TypeOK
<1>1. /\ UNCHANGED <<delivered, chat, runStatus, digests, processed>>
      /\ pc[p] \in {"messages", "flags"} /\ pc'[p] \in {"flags", "finish"}
  BY <1>0 DEF NoMessageToRecord, RecordFlag, world, ledger, Goto
<1>2. \E todo : job'[p] = [job[p] EXCEPT !.todoM = todo]
  BY <1>0 DEF NoMessageToRecord, RecordFlag, Become
<1>3. job'[p].run = job[p].run BY <1>0, <1>2 DEF Job
<1>4. Reporting(p) BY DEF ReportInv
<1>5. Reporting(p)' BY <1>1, <1>3, <1>4 DEF Reporting, BeforeDigest
<1> QED BY <1>1, <1>3, <1>5, ReportQuiet

\* A run with a failed digest is closed as degraded.
LEMMA FinishReports ==
  ASSUME IInv, IInv', ReportInv, NEW p \in Procs, Running(p), Effect(p),
         \A q \in RunIds : hist'[q].opts = hist[q].opts, FinishRun(p)
  PROVE  ReportInv'
<1>. DEFINE r == job[p].run
<1>0. /\ pc \in [Procs -> Stages] /\ job \in [Procs -> Job] /\ job[p] \in Job /\ TypeOK
      /\ runStatus \in [RunIds -> Status] /\ r \in RunIds
  BY DEF IInv, TypeOK, Owns
<1>1. UNCHANGED <<delivered, chat, digests, processed, hist>> BY DEF FinishRun, world
<1>2. pc'[p] = "exited" /\ job'[p] = [job[p] EXCEPT !.status = Outcome(job[p])]
  BY <1>0 DEF FinishRun, Goto, Become
<1>3. job'[p].run = r BY <1>0, <1>2 DEF Job
<1>4. RunRecords(r) /\ Reporting(p) BY <1>0, RunByRun DEF ReportInv
<1>5. runStatus'[r] = runStatus[r] \/ runStatus'[r] = Outcome(job[p])
  BY <1>0 DEF FinishRun
<1>6. RunRecords(r)' BY <1>1, <1>3, <1>4, <1>5 DEF RunRecords, Reporting, Outcome
<1>7. ~Running(p)' BY <1>2 DEF Running
<1> QED BY <1>1, <1>3, <1>6, <1>7, ReportStep

LEMMA StepReports ==
  ASSUME IInv, IInv', ReportInv, NEW p \in Procs, Step(p), ~Exit(p)
  PROVE  ReportInv'
<1>1. Running(p) /\ Effect(p) /\ \A q \in RunIds : hist'[q].opts = hist[q].opts
  BY StepAtWork
<1> QED
  BY <1>1, IngestReports, RenderReports, FlagAccountReports, SendReports, DigestReports,
     RecordReports, FlagsReport, FinishReports DEF Step

LEMMA AsideReports ==
  ASSUME ReportInv, Aside
  PROVE  ReportInv'
<1>1. UnusedSilent' /\ DigestRecordsTruthful' /\ RecordedWasShown'
  BY DEF ReportInv, Aside, UnusedSilent, DigestRecordsTruthful, RecordedWasShown
<1>2. ASSUME NEW q \in Procs, Running(q)' PROVE Reporting(q)'
  <2>1. pc'[q] = pc[q] /\ job'[q] = job[q] BY <1>2 DEF Aside
  <2>2. Reporting(q) BY <1>2, <2>1 DEF ReportInv, Running
  <2> QED BY <2>1, <2>2 DEF Aside, Reporting
<1> QED BY <1>1, <1>2 DEF ReportInv

LEMMA RecordRunReports ==
  ASSUME IInv, IInv', ReportInv, NEW p \in Procs, NEW o \in Options, RecordRun(p, o)
  PROVE  ReportInv'
<1>0. TypeOK /\ TypeOK' /\ RunIds \subseteq Nat \ {0} /\ nextRun \in Nat
  <2>1. TypeOK /\ TypeOK' BY DEF IInv
  <2>2. RunIds \subseteq Nat \ {0} BY PipelineAssumption DEF RunIds
  <2>3. nextRun \in Nat BY <2>1 DEF TypeOK
  <2> QED BY <2>1, <2>2, <2>3
<1>. DEFINE r == nextRun
<1>1. /\ r \in RunIds /\ nextRun' = r + 1 /\ pc'[p] = "window" /\ job'[p].run = r
      /\ UNCHANGED <<delivered, chat, processed, digests>>
      /\ \A q \in Procs \ {p} : pc'[q] = pc[q] /\ job'[q] = job[q]
      /\ \A q \in RunIds \ {r} : runStatus'[q] = runStatus[q] /\ hist'[q] = hist[q]
  BY <1>0, RecordRunEffect DEF world
<1>2. chat[r] = {} /\ digests[r] = {} /\ ~HasRow(r)
  BY <1>0, <1>1 DEF ReportInv, UnusedSilent, IInv, UnusedRuns
<1>3. UnusedSilent'
  <2>1. \A q \in RunIds : q >= nextRun + 1 => q >= nextRun BY <1>0
  <2> QED BY <1>1, <2>1 DEF ReportInv, UnusedSilent
<1>4. DigestRecordsTruthful' BY <1>1, <1>2 DEF ReportInv, DigestRecordsTruthful
<1>5. RecordedWasShown'
  <2>1. \A m \in Messages : processed[m].run \in (RunIds \cup {0}) \ {r}
    BY <1>0, <1>2 DEF TypeOK, Row, HasRow
  <2> QED BY <1>1, <2>1 DEF ReportInv, RecordedWasShown
<1>6. ASSUME NEW q \in Procs, Running(q)' PROVE Reporting(q)'
  <2>1. CASE q = p BY <1>1, <1>2, <2>1 DEF Reporting, BeforeDigest
  <2>2. CASE q # p
    <3>1. pc'[q] = pc[q] /\ job'[q] = job[q] BY <1>1, <2>2
    <3>2. Reporting(q) BY <1>6, <3>1 DEF ReportInv, Running
    <3> QED BY <1>1, <3>1, <3>2 DEF Reporting
  <2> QED BY <2>1, <2>2
<1> QED BY <1>3, <1>4, <1>5, <1>6 DEF ReportInv

LEMMA InitReports == Init => ReportInv
<1> SUFFICES ASSUME Init PROVE ReportInv
  OBVIOUS
<1>1. UnusedSilent /\ DigestRecordsTruthful BY DEF Init, UnusedSilent, DigestRecordsTruthful
<1>2. RecordedWasShown BY DEF Init, RecordedWasShown, NoRow
<1>3. \A p \in Procs : ~Running(p) BY DEF Init, Running
<1> QED BY <1>1, <1>2, <1>3 DEF ReportInv

LEMMA NextReports == IInv /\ IInv' /\ ReportInv /\ [Next]_vars => ReportInv'
<1> SUFFICES ASSUME IInv, IInv', ReportInv, [Next]_vars PROVE ReportInv'
  OBVIOUS
<1>1. CASE \/ UNCHANGED vars \/ Tick \/ \E m \in Messages : Arrive(m) \/ UserReads(m)
           \/ \E p \in Procs : Exit(p) \/ StartFails(p) \/ Crash(p) \/ Cancel(p)
  <2>1. TypeOK BY DEF IInv
  <2> QED BY <1>1, <2>1, AsideSteps, AsideReports
<1>2. ASSUME NEW p \in Procs, Step(p), ~Exit(p) PROVE ReportInv' BY <1>2, StepReports
<1>3. ASSUME NEW p \in Procs, NEW o \in Options, RecordRun(p, o) PROVE ReportInv'
  BY <1>3, RecordRunReports
<1> QED BY <1>1, <1>2, <1>3 DEF Next

LEMMA ReportsCorrect == Spec => []ReportInv
BY InductiveInvariant, InitReports, NextReports, PTL DEF Spec

\* A "sent" record stands for an accepted digest, a "failed" one for a run that does
\* not count as successful, and no run has both, whatever calls fail in between.
THEOREM DigestRecordsAreTrue == Spec => []DigestRecordsTruthful
<1>1. ReportInv => DigestRecordsTruthful BY DEF ReportInv
<1> QED BY <1>1, ReportsCorrect, PTL

\* Without a cap on the digest, a message marked processed was shown by the digest of
\* the run that marked it, unless that run was dry.
THEOREM RecordedMessagesWereShown == Spec => []RecordedWasShown
<1>1. ReportInv => RecordedWasShown BY DEF ReportInv
<1> QED BY <1>1, ReportsCorrect, PTL

-----------------------------------------------------------------------------
(* A completed run has accounted for its window *)

Covered == \A r \in RunIds : runStatus[r] = "completed" => \A m \in hist[r].due : Excused(r, m)
CoverInv == MaxMessages = 0 => Covered /\ \A p \in Procs : Running(p) => Accounted(p)

\* An excuse lasts: nothing shown, recorded or read is undone.
LEMMA ExcusedStays ==
  ASSUME TypeOK, \A q \in RunIds : hist'[q].opts = hist[q].opts /\ chat[q] \subseteq chat'[q],
         \A m \in Messages : processed[m].run # 0 => processed'[m] = processed[m],
         seen \subseteq seen',
         NEW r \in RunIds, hist[r].failed \subseteq hist'[r].failed,
         NEW m \in Messages, Excused(r, m)
  PROVE  Excused(r, m)'
<1>1. processed[m].run \in RunIds \cup {0} BY DEF TypeOK, Row
<1>2. Reported(m) => Reported(m)' BY <1>1 DEF Reported
<1> QED BY <1>2 DEF Excused

\* The chat of a run is written once.
LEMMA ChatGrows ==
  ASSUME IInv, ReportInv, NEW p \in Procs, Step(p), ~Exit(p), Running(p), Effect(p)
  PROVE  \A q \in RunIds : chat[q] \subseteq chat'[q]
<1>1. CASE Send(p) \/ SendFails(p)
  <2>1. pc[p] = "send" BY <1>1 DEF Send, SendFails
  <2>2. chat[job[p].run] = {} BY <2>1 DEF ReportInv, Reporting, BeforeDigest
  <2> QED BY <2>2 DEF Effect
<1>2. CASE ~(Send(p) \/ SendFails(p))
  <2>1. UNCHANGED chat
    BY <1>2 DEF Step, FetchWindow, FetchWindowFails, FetchAccount, FetchAccountFails, FlagAccount,
         IngestFails, SkipFilter, FilterProcessed, FilterFails, Classify, ClassifyFails,
         Render, RenderFails, RecordSentDigest, RecordFailedDigest, RecordMessage,
         RecordFlag, NoMessageToRecord, FinishRun, world
  <2> QED BY <2>1
<1> QED BY <1>1, <1>2

\* What is settled about the run of a process that does not move stays settled.
LEMMA AccountedStays ==
  ASSUME TypeOK, NEW q \in Procs, NEW u \in RunIds, job[q].run = u, Accounted(q),
         pc'[q] = pc[q], job'[q] = job[q], hist'[u] = hist[u],
         \A m \in Messages : arrived[m] # 0 => arrived'[m] = arrived[m],
         \A m \in hist[u].due : Excused(u, m) => Excused(u, m)'
  PROVE  Accounted(q)'
<1>1. \A m \in hist[u].due : m \in Messages BY DEF TypeOK, History
<1>2. /\ job'[q].run = u /\ job'[q].msgs = job[q].msgs /\ job'[q].since = job[q].since
      /\ job'[q].todoA = job[q].todoA /\ Outcome(job[q])' = Outcome(job[q])
  BY DEF Outcome
<1>3. /\ pc[q] = "fetch" => \A m \in hist[u].due :
           /\ arrived[m] # 0 /\ Day(arrived[m], ServerZone) >= job[q].since
           /\ AccountOf[m] \in job[q].todoA \/ m \in job[q].msgs \/ Excused(u, m)
      /\ pc[q] \in {"classify", "render", "flag", "send", "sent"} =>
           \A m \in hist[u].due : m \in job[q].msgs \/ Excused(u, m)
      /\ pc[q] \in {"messages", "flags"} \/ (pc[q] = "finish" /\ Outcome(job[q]) = "completed") =>
           \A m \in hist[u].due : Excused(u, m)
  BY DEF Accounted
<1>4. /\ pc'[q] = "fetch" => \A m \in hist'[u].due :
           /\ arrived'[m] # 0 /\ Day(arrived'[m], ServerZone) >= job[q].since
           /\ AccountOf[m] \in job[q].todoA \/ m \in job[q].msgs \/ Excused(u, m)'
      /\ pc'[q] \in {"classify", "render", "flag", "send", "sent"} =>
           \A m \in hist'[u].due : m \in job[q].msgs \/ Excused(u, m)'
      /\ pc'[q] \in {"messages", "flags"} \/ (pc'[q] = "finish" /\ Outcome(job[q]) = "completed") =>
           \A m \in hist'[u].due : Excused(u, m)'
  BY <1>1, <1>3
<1> QED BY <1>2, <1>4 DEF Accounted, Excused

\* The obligation of a step of p, for p and its run r alone.
LEMMA CoverStep ==
  ASSUME IInv, IInv', CoverInv, MaxMessages = 0, NEW p \in Procs, Running(p), Effect(p),
         NEW r \in RunIds, job[p].run = r, job'[p].run = r,
         \A q \in RunIds : hist'[q].opts = hist[q].opts /\ chat[q] \subseteq chat'[q],
         Running(p)' => Accounted(p)',
         runStatus'[r] = "completed" => \A m \in hist'[r].due : Excused(r, m)'
  PROVE  CoverInv'
<1>0. TypeOK /\ hist \in [RunIds -> History] BY DEF IInv, TypeOK
<1>1. \A m \in Messages : processed[m].run # 0 => processed'[m] = processed[m]
  BY DEF Effect
<1>2. ASSUME NEW q \in RunIds, q # r, NEW m \in hist[q].due, Excused(q, m)
      PROVE  Excused(q, m)'
  <2>1. hist'[q] = hist[q] /\ seen' = seen BY <1>2 DEF Effect
  <2>2. m \in Messages BY <1>0 DEF History
  <2> QED BY <1>0, <1>1, <1>2, <2>1, <2>2, ExcusedStays
<1>3. Covered'
  <2>1. ASSUME NEW q \in RunIds, runStatus'[q] = "completed", NEW m \in hist'[q].due
        PROVE  Excused(q, m)'
    <3>1. CASE q = r BY <2>1, <3>1
    <3>2. CASE q # r
      <4>1. runStatus[q] = "completed" /\ hist'[q] = hist[q] BY <2>1, <3>2 DEF Effect
      <4>2. Excused(q, m) BY <2>1, <4>1 DEF CoverInv, Covered
      <4> QED BY <1>2, <2>1, <3>2, <4>1, <4>2
    <3> QED BY <3>1, <3>2
  <2> QED BY <2>1 DEF Covered
<1>4. ASSUME NEW q \in Procs, q # p, Running(q)' PROVE Accounted(q)'
  <2>1. pc'[q] = pc[q] /\ job'[q] = job[q] BY <1>4 DEF Effect
  <2>2. Running(q) BY <1>4, <2>1 DEF Running
  <2>3. PICK u \in RunIds : u = job[q].run BY <2>2 DEF IInv, Owns
  <2>4. Accounted(q) /\ u # r BY <1>4, <2>2, <2>3 DEF CoverInv, IInv, OwnRuns
  <2>5. hist'[u] = hist[u] /\ arrived' = arrived BY <2>4 DEF Effect
  <2>6. \A m \in hist[u].due : Excused(u, m) => Excused(u, m)' BY <1>2, <2>4
  <2> QED BY <1>0, <2>1, <2>3, <2>4, <2>5, <2>6, AccountedStays
<1> QED BY <1>3, <1>4 DEF CoverInv

\* A step of p that closes no run as completed.
LEMMA CoverQuiet ==
  ASSUME IInv, IInv', CoverInv, MaxMessages = 0, NEW p \in Procs, Running(p), Effect(p),
         NEW r \in RunIds, job[p].run = r, job'[p].run = r, UNCHANGED runStatus,
         \A q \in RunIds : hist'[q].opts = hist[q].opts /\ chat[q] \subseteq chat'[q],
         Accounted(p)'
  PROVE  CoverInv'
<1>1. runStatus'[r] # "completed" BY DEF IInv, Owns
<1> QED BY <1>1, CoverStep

\* The run of p keeps its excuses through a step of p.
LEMMA OwnExcusesStay ==
  ASSUME IInv, ReportInv, NEW p \in Procs, Step(p), ~Exit(p), Effect(p), Running(p),
         NEW r \in RunIds, job[p].run = r,
         \A q \in RunIds : hist'[q].opts = hist[q].opts, hist[r].failed \subseteq hist'[r].failed,
         NEW m \in Messages, Excused(r, m)
  PROVE  Excused(r, m)'
<1>1. \A q \in RunIds : chat[q] \subseteq chat'[q] BY ChatGrows
<1>2. TypeOK /\ seen' = seen /\ \A n \in Messages : processed[n].run # 0 => processed'[n] = processed[n]
  BY DEF IInv, Effect
<1> QED BY <1>1, <1>2, ExcusedStays

\* Fetching: every due message is fetched or excused, or its account is still to do.
LEMMA FetchCovers ==
  ASSUME IInv, IInv', ReportInv, CoverInv, MaxMessages = 0, NEW p \in Procs, ~Exit(p),
         Running(p), Effect(p), NEW r \in RunIds, job[p].run = r,
         \A q \in RunIds : hist'[q].opts = hist[q].opts,
         FetchWindow(p) \/ \E a \in Accounts : FetchAccount(p, a) \/ FetchAccountFails(p, a)
  PROVE  CoverInv'
<1>0. /\ TypeOK /\ pc \in [Procs -> Stages] /\ job \in [Procs -> Job] /\ job[p] \in Job
      /\ hist \in [RunIds -> History] /\ hist[r] \in History /\ hist[r].due \subseteq Messages
      /\ Accounted(p) /\ AccountOf \in [Messages -> Accounts] /\ clock \in Nat
  BY PipelineAssumption DEF IInv, TypeOK, CoverInv, History
<1>1. /\ UNCHANGED <<chat, runStatus, arrived, seen>> /\ Step(p)
  BY DEF FetchWindow, FetchAccount, FetchAccountFails, world, ledger, Step
<1>2. job'[p].run = r BY <1>0, IngestEffect
<1>. DEFINE Told == Accounted(p)'
<1>3. CASE FetchWindow(p)
  <2>1. PICK since \in WindowStart(job[p].opts) :
          /\ Become(p, [job[p] EXCEPT !.since = since, !.todoA = Accounts])
          /\ hist' = [hist EXCEPT ![job[p].run] = Noted(@, job[p].opts, since)]
    BY <1>3 DEF FetchWindow
  <2>2. job'[p].since = since /\ job'[p].todoA = Accounts BY <1>0, <2>1 DEF Become, Job
  <2>3. hist'[r].due = {m \in Messages : InWindow(m, since)}
    <3>1. hist'[r] = Noted(hist[r], job[p].opts, since) BY <1>0, <2>1
    <3>. DEFINE w == (job[p].opts.window = 0 /\ \A x \in LastSuccess : ~Capped(x))
                d == {m \in Messages : InWindow(m, since)}
    <3>2. hist'[r] = [hist[r] EXCEPT !.began = clock, !.since = since, !.whole = w, !.due = d]
      BY <3>1 DEF Noted
    <3>3. hist'[r].due = d
      <4>. HIDE DEF w, d
      <4> QED BY <1>0, <3>2 DEF History
    <3> QED BY <3>3
  <2>4. pc'[p] = "fetch" BY <1>0, <1>3 DEF FetchWindow, Goto
  <2>5. Told BY <1>0, <1>1, <1>2, <2>2, <2>3, <2>4 DEF Accounted, InWindow
  <2> QED BY <1>1, <1>2, <2>5, CoverQuiet
<1>4. ASSUME NEW a \in Accounts, FetchAccount(p, a) \/ FetchAccountFails(p, a) PROVE CoverInv'
  <2>1. /\ pc[p] = "fetch" /\ pc'[p] = "fetch" /\ hist'[r].due = hist[r].due
        /\ job'[p].since = job[p].since /\ job'[p].todoA = job[p].todoA \ {a}
        /\ job[p].msgs \subseteq job'[p].msgs /\ hist[r].failed \subseteq hist'[r].failed
    <3>1. pc[p] = "fetch" /\ pc'[p] = "fetch"
      BY <1>0, <1>4 DEF FetchAccount, FetchAccountFails
    <3>2. CASE FetchAccount(p, a)
      BY <1>0, <3>1, <3>2 DEF FetchAccount, Become, Job, History
    <3>3. CASE FetchAccountFails(p, a)
      BY <1>0, <3>1, <3>3 DEF FetchAccountFails, Become, Job, History
    <3> QED BY <1>4, <3>2, <3>3
  <2>2. ASSUME NEW m \in hist[r].due
        PROVE  /\ arrived[m] # 0 /\ Day(arrived[m], ServerZone) >= job[p].since
               /\ AccountOf[m] \in job[p].todoA \ {a} \/ m \in job'[p].msgs \/ Excused(r, m)'
    <3>1. m \in Messages BY <1>0
    <3>2. Excused(r, m) => Excused(r, m)' BY <1>1, <2>1, <3>1, OwnExcusesStay
    <3>3. /\ arrived[m] # 0 /\ Day(arrived[m], ServerZone) >= job[p].since
          /\ AccountOf[m] \in job[p].todoA \/ m \in job[p].msgs \/ Excused(r, m)
      BY <1>0, <2>1 DEF Accounted
    <3>4. CASE AccountOf[m] = a /\ FetchAccount(p, a)
      <4>1. InWindow(m, job[p].since) \/ (UnreadOnly /\ m \in seen) BY <3>3 DEF InWindow
      <4>2. InWindow(m, job[p].since) => m \in job'[p].msgs
        BY <1>0, <3>1, <3>4 DEF FetchAccount, Become, Job
      <4>3. UnreadOnly /\ m \in seen => Excused(r, m)' BY <1>1 DEF Excused
      <4> QED BY <3>3, <4>1, <4>2, <4>3
    <3>5. CASE AccountOf[m] = a /\ FetchAccountFails(p, a)
      <4>1. AccountOf[m] \in hist'[r].failed
        BY <1>0, <3>5 DEF FetchAccountFails, History
      <4> QED BY <3>3, <4>1 DEF Excused
    <3>6. CASE AccountOf[m] # a BY <2>1, <3>2, <3>3, <3>6
    <3> QED BY <1>4, <3>4, <3>5, <3>6
  <2>3. Told BY <1>1, <1>2, <2>1, <2>2 DEF Accounted, Excused
  <2> QED BY <1>1, <1>2, <2>3, CoverQuiet
<1> QED BY <1>3, <1>4

\* Filtering drops only messages that have a row, and those were shown.
LEMMA FilterCovers ==
  ASSUME IInv, IInv', ReportInv, CoverInv, MaxMessages = 0, NEW p \in Procs, ~Exit(p),
         Running(p), Effect(p), NEW r \in RunIds, job[p].run = r,
         \A q \in RunIds : hist'[q].opts = hist[q].opts,
         SkipFilter(p) \/ FilterProcessed(p) \/ FilterFails(p)
  PROVE  CoverInv'
<1>0. /\ TypeOK /\ job \in [Procs -> Job] /\ job[p] \in Job
      /\ hist \in [RunIds -> History] /\ hist[r].due \subseteq Messages /\ Accounted(p)
  BY DEF IInv, TypeOK, CoverInv, History
<1>1. /\ UNCHANGED <<chat, runStatus, arrived, seen>> /\ Step(p)
      /\ pc[p] = "fetch" /\ job[p].todoA = {}
  BY DEF SkipFilter, FilterProcessed, FilterFails, Fetched, world, ledger, Step
<1>2. PICK fresh \in SUBSET Messages :
        /\ Proceed(p, fresh)
        /\ \A m \in job[p].msgs : m \in fresh \/ processed[m].run # 0
  BY <1>0 DEF SkipFilter, FilterProcessed, FilterFails, Fresh, Job
<1>3. hist'[r].due = hist[r].due /\ hist'[r].failed = hist[r].failed
  BY <1>0 DEF SkipFilter, FilterProcessed, FilterFails, History
<1>4. ASSUME NEW m \in hist[r].due PROVE m \in fresh \/ Excused(r, m)'
  <2>1. m \in Messages BY <1>0
  <2>2. m \in job[p].msgs \/ Excused(r, m) BY <1>0, <1>1 DEF Accounted
  <2>3. CASE processed[m].run # 0
    <3>1. processed[m].run \in RunIds BY <1>0, <2>1, <2>3 DEF TypeOK, Row
    <3>2. Reported(m) BY <2>1, <2>3, <3>1 DEF ReportInv, RecordedWasShown, Reported
    <3> QED BY <1>1, <1>3, <2>1, <3>2, OwnExcusesStay DEF Excused
  <2>4. Excused(r, m) => Excused(r, m)' BY <1>1, <1>3, <2>1, OwnExcusesStay
  <2> QED BY <1>2, <2>2, <2>3, <2>4
<1>5. /\ job'[p].run = r /\ job'[p].msgs = fresh
      /\ pc'[p] = "classify" \/ (fresh = {} /\ pc'[p] = "finish")
  BY <1>0, <1>2, ProceedEffect
<1>6. Accounted(p)' BY <1>3, <1>4, <1>5 DEF Accounted, Excused
<1> QED BY <1>1, <1>5, <1>6, CoverQuiet

\* A step at which p keeps its messages, or ends a run that is not completed.
LEMMA KeepingCovers ==
  ASSUME IInv, IInv', ReportInv, CoverInv, MaxMessages = 0, NEW p \in Procs, Step(p), ~Exit(p),
         Running(p), Effect(p), NEW r \in RunIds, job[p].run = r, job'[p].run = r,
         \A q \in RunIds : hist'[q].opts = hist[q].opts, UNCHANGED <<runStatus, hist>>,
         \/ /\ pc[p] \in {"classify", "render", "flag", "send", "sent"}
            /\ pc'[p] \in {"classify", "render", "flag", "send", "sent"}
            /\ job'[p].msgs = job[p].msgs
         \/ pc'[p] = "finish" /\ job'[p].status \in {"ingest_failed", "degraded"}
         \/ pc'[p] = "unsent"
  PROVE  CoverInv'
<1>0. TypeOK /\ hist \in [RunIds -> History] /\ hist[r].due \subseteq Messages /\ Accounted(p)
  BY DEF IInv, TypeOK, CoverInv, History
<1>1. \A m \in hist[r].due : Excused(r, m) => Excused(r, m)' BY <1>0, OwnExcusesStay
<1>2. Accounted(p)'
  <2>1. CASE pc'[p] = "unsent" BY <2>1 DEF Accounted
  <2>2. CASE pc'[p] = "finish" /\ job'[p].status \in {"ingest_failed", "degraded"}
    BY <2>2 DEF Accounted, Outcome
  <2>3. CASE /\ pc[p] \in {"classify", "render", "flag", "send", "sent"}
             /\ pc'[p] \in {"classify", "render", "flag", "send", "sent"}
             /\ job'[p].msgs = job[p].msgs
    <3>1. \A m \in hist'[r].due : m \in job'[p].msgs \/ Excused(r, m)'
      BY <1>0, <1>1, <2>3 DEF Accounted
    <3> QED BY <2>3, <3>1 DEF Accounted, Excused
  <2> QED BY <2>1, <2>2, <2>3
<1>3. \A q \in RunIds : chat[q] \subseteq chat'[q] BY ChatGrows
<1> QED BY <1>2, <1>3, CoverQuiet

\* Once everything due is excused, it stays so.
LEMMA SettledCovers ==
  ASSUME IInv, IInv', ReportInv, CoverInv, MaxMessages = 0, NEW p \in Procs, Step(p), ~Exit(p),
         Running(p), Effect(p), NEW r \in RunIds, job[p].run = r, job'[p].run = r,
         \A q \in RunIds : hist'[q].opts = hist[q].opts, UNCHANGED hist,
         \/ /\ runStatus' = runStatus /\ pc'[p] # "fetch"
            /\ \A m \in hist[r].due : Excused(r, m)'
         \/ FinishRun(p)
  PROVE  CoverInv'
<1>0. /\ TypeOK /\ hist \in [RunIds -> History] /\ hist[r].due \subseteq Messages /\ Accounted(p)
      /\ pc \in [Procs -> Stages] /\ runStatus \in [RunIds -> Status]
  BY DEF IInv, TypeOK, CoverInv, History
<1>1. \A q \in RunIds : chat[q] \subseteq chat'[q] BY ChatGrows
<1>2. CASE runStatus' = runStatus /\ pc'[p] # "fetch" /\ \A m \in hist[r].due : Excused(r, m)'
  <2>1. \A m \in hist'[r].due : Excused(r, m)' BY <1>2
  <2>2. Accounted(p)' BY <1>2, <2>1 DEF Accounted, Excused
  <2> QED BY <1>1, <2>1, <2>2, CoverStep
<1>3. CASE FinishRun(p)
  <2>1. pc[p] = "finish" /\ pc'[p] = "exited" BY <1>0, <1>3 DEF FinishRun, Goto
  <2>2. runStatus'[r] = runStatus[r] \/ runStatus'[r] = Outcome(job[p])
    BY <1>0, <1>3 DEF FinishRun
  <2>3. runStatus[r] # "completed" BY DEF IInv, Owns
  <2>4. ASSUME runStatus'[r] = "completed", NEW m \in hist'[r].due PROVE Excused(r, m)'
    <3>1. Excused(r, m) /\ m \in Messages BY <1>0, <2>1, <2>2, <2>3, <2>4 DEF Accounted
    <3> QED BY <3>1, OwnExcusesStay
  <2> QED BY <1>1, <2>1, <2>4, CoverStep DEF Running
<1> QED BY <1>2, <1>3

LEMMA StepCovers ==
  ASSUME IInv, IInv', ReportInv, CoverInv, MaxMessages = 0, NEW p \in Procs, Step(p), ~Exit(p)
  PROVE  CoverInv'
<1>0. /\ Running(p) /\ Effect(p) /\ \A q \in RunIds : hist'[q].opts = hist[q].opts
      /\ TypeOK /\ pc \in [Procs -> Stages] /\ job \in [Procs -> Job] /\ job[p] \in Job
      /\ hist \in [RunIds -> History]
  BY StepAtWork DEF IInv, TypeOK
<1>1. PICK r \in RunIds : r = job[p].run /\ hist[r].opts = job[p].opts BY <1>0 DEF IInv, Owns
<1>2. Accounted(p) /\ Reporting(p) /\ hist[r].due \subseteq Messages
  BY <1>0, <1>1 DEF CoverInv, ReportInv, History
<1>3. CASE FetchWindow(p) \/ \E a \in Accounts : FetchAccount(p, a) \/ FetchAccountFails(p, a)
  BY <1>0, <1>1, <1>3, FetchCovers
<1>4. CASE SkipFilter(p) \/ FilterProcessed(p) \/ FilterFails(p)
  BY <1>0, <1>1, <1>4, FilterCovers
<1>5. CASE FetchWindowFails(p) \/ IngestFails(p) \/ RenderFails(p) \/ RecordFailedDigest(p)
  <2>1. /\ UNCHANGED <<runStatus, hist>> /\ pc'[p] = "finish"
        /\ \E s \in {"ingest_failed", "degraded"} : job'[p] = [job[p] EXCEPT !.status = s]
    BY <1>0, <1>5 DEF FetchWindowFails, IngestFails, RenderFails, RecordFailedDigest, Goto, Become, ledger
  <2>2. job'[p].run = r /\ job'[p].status \in {"ingest_failed", "degraded"} BY <1>0, <1>1, <2>1 DEF Job
  <2> QED BY <1>0, <1>1, <2>1, <2>2, KeepingCovers
<1>6. CASE Classify(p) \/ ClassifyFails(p)
  <2>1. UNCHANGED <<runStatus, hist>> /\ pc[p] = "classify" /\ pc'[p] = "render"
    BY <1>0, <1>6 DEF Classify, ClassifyFails, Goto, ledger
  <2>2. job'[p].run = r /\ job'[p].msgs = job[p].msgs
    <3>1. CASE Classify(p)
      <4>1. PICK a \in Answers(p) : job'[p] = [job[p] EXCEPT !.label = a.label, !.bad = a.bad]
        BY <1>0, <3>1 DEF Classify, Become
      <4> QED BY <1>0, <1>1, <4>1 DEF Job
    <3>2. CASE ClassifyFails(p) BY <1>0, <1>1, <3>2 DEF ClassifyFails, Become, Job
    <3> QED BY <1>6, <3>1, <3>2
  <2> QED BY <1>0, <1>1, <2>1, <2>2, KeepingCovers
<1>7. CASE Render(p)
  <2>1. UNCHANGED <<runStatus, hist>> /\ pc[p] = "render" BY <1>7 DEF Render, ledger
  <2>2. /\ job'[p].run = r /\ job'[p].msgs = job[p].msgs
        /\ job[p].opts.dryRun => pc'[p] \in {"messages", "finish"}
        /\ ~job[p].opts.dryRun => pc'[p] \in {"send", "flag"}
    BY <1>0, <1>1, <1>7, RenderEffect DEF StageAfterRender
  <2>3. CASE job[p].opts.dryRun
    <3>1. \A m \in hist[r].due : Excused(r, m)' BY <1>1, <2>1, <2>3 DEF Excused
    <3> QED BY <1>0, <1>1, <2>1, <2>2, <2>3, <3>1, SettledCovers
  <2>4. CASE ~job[p].opts.dryRun BY <1>0, <1>1, <2>1, <2>2, <2>4, KeepingCovers
  <2> QED BY <2>3, <2>4
<1>8. ASSUME NEW a \in Accounts, FlagAccount(p, a) PROVE CoverInv'
  <2>1. /\ UNCHANGED <<runStatus, hist>> /\ pc[p] = "flag" /\ pc'[p] \in {"flag", "send"}
        /\ job'[p] = [job[p] EXCEPT !.todoA = @ \ {a}]
    BY <1>0, <1>8 DEF FlagAccount, Goto, Become, ledger
  <2>2. job'[p].run = r /\ job'[p].msgs = job[p].msgs BY <1>0, <1>1, <2>1 DEF Job
  <2> QED BY <1>0, <1>1, <2>1, <2>2, KeepingCovers
<1>9. CASE Send(p) \/ SendFails(p)
  <2>1. /\ UNCHANGED <<runStatus, hist, job>> /\ pc[p] = "send" /\ pc'[p] \in {"sent", "unsent"}
    BY <1>0, <1>9 DEF Send, SendFails, Goto, ledger
  <2> QED BY <1>0, <1>1, <2>1, KeepingCovers
<1>10. CASE RecordSentDigest(p)
  <2>1. UNCHANGED <<runStatus, hist, chat, seen>> /\ pc[p] = "sent" BY <1>10 DEF RecordSentDigest, world
  <2>2. /\ job'[p] = [job[p] EXCEPT !.todoM = Answered(job[p]) \cap job[p].msgs]
        /\ pc'[p] \in {"messages", "finish"}
    BY <1>0, <1>10, RecordingEffect DEF RecordSentDigest
  <2>3. job'[p].run = r BY <1>0, <1>1, <2>2 DEF Job
  <2>4. ASSUME NEW m \in hist[r].due PROVE Excused(r, m)'
    <3>1. m \in chat[r] \/ Excused(r, m) BY <1>1, <1>2, <2>1 DEF Accounted, Reporting
    <3>2. Excused(r, m) BY <3>1 DEF Excused, Reported
    <3> QED BY <1>0, <1>1, <1>2, <2>1, <3>2, OwnExcusesStay
  <2> QED BY <1>0, <1>1, <2>1, <2>2, <2>3, <2>4, SettledCovers
<1>11. CASE NoMessageToRecord(p) \/ \E m \in Messages : RecordMessage(p, m) \/ RecordFlag(p, m)
  <2>1. /\ UNCHANGED <<runStatus, hist>> /\ job'[p].run = r
        /\ pc[p] \in {"messages", "flags"} /\ pc'[p] \in {"messages", "flags", "finish"}
    BY <1>0, <1>1, <1>11, LoopEffect
  <2>2. ASSUME NEW m \in hist[r].due PROVE Excused(r, m)'
    <3>1. Excused(r, m) BY <1>1, <1>2, <2>1 DEF Accounted
    <3> QED BY <1>0, <1>1, <1>2, <2>1, <3>1, OwnExcusesStay
  <2> QED BY <1>0, <1>1, <2>1, <2>2, SettledCovers
<1>12. CASE FinishRun(p)
  <2>1. UNCHANGED hist /\ job'[p] = [job[p] EXCEPT !.status = Outcome(job[p])]
    BY <1>0, <1>12 DEF FinishRun, Become
  <2>2. job'[p].run = r BY <1>0, <1>1, <2>1 DEF Job
  <2> QED BY <1>0, <1>1, <1>12, <2>1, <2>2, SettledCovers
<1> QED BY <1>3, <1>4, <1>5, <1>6, <1>7, <1>8, <1>9, <1>10, <1>11, <1>12 DEF Step

\* Outside a run excuses stay, and nothing is closed.
LEMMA AsideCovers ==
  ASSUME IInv, CoverInv, MaxMessages = 0, Aside
  PROVE  CoverInv'
<1>0. TypeOK /\ hist \in [RunIds -> History] BY DEF IInv, TypeOK
<1>1. ASSUME NEW r \in RunIds, NEW m \in hist[r].due, Excused(r, m) PROVE Excused(r, m)'
  <2>1. m \in Messages BY <1>0 DEF History
  <2> QED BY <1>0, <1>1, <2>1, ExcusedStays DEF Aside
<1>2. Covered' BY <1>1 DEF CoverInv, Covered, Aside
<1>3. ASSUME NEW q \in Procs, Running(q)' PROVE Accounted(q)'
  <2>1. pc'[q] = pc[q] /\ job'[q] = job[q] /\ hist' = hist BY <1>3 DEF Aside
  <2>2. Running(q) BY <1>3, <2>1 DEF Running
  <2>3. PICK u \in RunIds : u = job[q].run BY <2>2 DEF IInv, Owns
  <2>4. Accounted(q) BY <2>2 DEF CoverInv
  <2>5. \A m \in Messages : arrived[m] # 0 => arrived'[m] = arrived[m] BY DEF Aside
  <2> QED BY <1>0, <1>1, <2>1, <2>3, <2>4, <2>5, AccountedStays
<1> QED BY <1>2, <1>3 DEF CoverInv

LEMMA RecordRunCovers ==
  ASSUME IInv, ReportInv, CoverInv, MaxMessages = 0, NEW p \in Procs, NEW o \in Options,
         RecordRun(p, o)
  PROVE  CoverInv'
<1>. DEFINE n == nextRun
<1>0. /\ TypeOK /\ hist \in [RunIds -> History] /\ nextRun \in Nat
      /\ \A m \in Messages : processed[m].run \in RunIds \cup {0}
  BY DEF IInv, TypeOK, Row
<1>1. /\ n \in RunIds /\ pc'[p] = "window" /\ job'[p].run = n
      /\ UNCHANGED <<chat, processed, arrived, seen>>
      /\ \A q \in Procs \ {p} : pc'[q] = pc[q] /\ job'[q] = job[q]
      /\ \A q \in RunIds \ {n} : runStatus'[q] = runStatus[q] /\ hist'[q] = hist[q]
      /\ runStatus'[n] \in {runStatus[n], "running"}
  BY <1>0, RecordRunEffect DEF world
<1>2. runStatus'[n] # "completed" /\ ~HasRow(n) BY <1>0, <1>1 DEF IInv, UnusedRuns
<1>3. ASSUME NEW r \in RunIds, r # n, NEW m \in hist[r].due, Excused(r, m) PROVE Excused(r, m)'
  <2>1. m \in Messages BY <1>0 DEF History
  <2>2. hist'[r] = hist[r] BY <1>1, <1>3
  <2>3. Reported(m) => Reported(m)'
    <3>1. processed[m].run # n BY <1>2, <2>1 DEF HasRow
    <3> QED BY <1>0, <1>1, <2>1, <3>1 DEF Reported
  <2> QED BY <1>1, <1>3, <2>2, <2>3 DEF Excused
<1>4. Covered' BY <1>1, <1>2, <1>3 DEF CoverInv, Covered
<1>5. ASSUME NEW q \in Procs, Running(q)' PROVE Accounted(q)'
  <2>1. CASE q = p BY <1>1, <2>1 DEF Accounted
  <2>2. CASE q # p
    <3>1. pc'[q] = pc[q] /\ job'[q] = job[q] BY <1>1, <2>2
    <3>2. Running(q) BY <1>5, <3>1 DEF Running
    <3>3. PICK u \in RunIds : u = job[q].run /\ u < n BY <3>2 DEF IInv, Owns
    <3>4. u # n BY <1>0, <3>3 DEF RunIds
    <3>5. Accounted(q) /\ hist'[u] = hist[u] BY <1>1, <3>2, <3>4 DEF CoverInv
    <3>6. \A m \in hist[u].due : Excused(u, m) => Excused(u, m)' BY <1>3, <3>4
    <3> QED BY <1>0, <1>1, <3>1, <3>3, <3>5, <3>6, AccountedStays
  <2> QED BY <2>1, <2>2
<1> QED BY <1>4, <1>5 DEF CoverInv

\* Without a cap on the digest, a completed run that was not dry has accounted for its
\* window: every message in it was shown to the user or recorded by a dry run, unless
\* its account failed or the user read it.
THEOREM CompletedRunsAccountForTheirWindow == Spec => []CompletedCoversDue
<1>1. Init => CoverInv BY DEF Init, CoverInv, Covered, Running
<1>2. IInv /\ IInv' /\ ReportInv /\ CoverInv /\ [Next]_vars => CoverInv'
  <2> SUFFICES ASSUME IInv, IInv', ReportInv, CoverInv, [Next]_vars, MaxMessages = 0
               PROVE  CoverInv'
    BY DEF CoverInv
  <2>0. TypeOK BY DEF IInv
  <2>1. CASE \/ UNCHANGED vars \/ Tick \/ \E m \in Messages : Arrive(m) \/ UserReads(m)
             \/ \E p \in Procs : Exit(p) \/ StartFails(p) \/ Crash(p) \/ Cancel(p)
    BY <2>0, <2>1, AsideSteps, AsideCovers
  <2>2. ASSUME NEW p \in Procs, Step(p), ~Exit(p) PROVE CoverInv' BY <2>2, StepCovers
  <2>3. ASSUME NEW p \in Procs, NEW o \in Options, RecordRun(p, o) PROVE CoverInv'
    BY <2>3, RecordRunCovers
  <2> QED BY <2>1, <2>2, <2>3 DEF Next
<1>3. CoverInv => CompletedCoversDue BY DEF CoverInv, Covered, CompletedCoversDue, Excused
<1> QED BY <1>1, <1>2, <1>3, InductiveInvariant, ReportsCorrect, PTL DEF Spec

-----------------------------------------------------------------------------
(* Runs that do not overlap never show a message twice *)

NoOverlap == \A p, q \in Procs : Running(p) /\ Running(q) => p = q
DedupInv == NoRedelivery /\ \A p \in Procs : Running(p) => Undisturbed(p)

\* A step of p that shows nothing and marks nothing.
LEMMA DedupQuiet ==
  ASSUME IInv, DedupInv, NoOverlap', NEW p \in Procs, Running(p), Running(p)', Effect(p),
         UNCHANGED <<chat, processed>>, job'[p].run = job[p].run,
         \A q \in RunIds : hist[q].blind => hist'[q].blind,
         \/ pc'[p] \notin {"classify", "render", "flag", "send"}
         \/ hist'[job[p].run].blind
         \/ \A m \in job'[p].msgs : processed[m].run = 0
  PROVE  DedupInv'
<1>1. NoRedelivery' BY DEF DedupInv, NoRedelivery
<1>2. Undisturbed(p)'
  <2>1. Undisturbed(p) BY DEF DedupInv
  <2> QED BY <2>1 DEF Undisturbed, Effect
<1> QED BY <1>1, <1>2 DEF DedupInv, NoOverlap

\* The blind mark of a run is only ever set.
LEMMA BlindStays ==
  ASSUME TypeOK, NEW p \in Procs, Step(p), job[p].run \in RunIds
  PROVE  \A q \in RunIds : hist[q].blind => hist'[q].blind
<1>0. hist \in [RunIds -> History] /\ hist[job[p].run] \in History BY DEF TypeOK
<1>1. CASE FetchWindow(p)
  <2>1. PICK since \in WindowStart(job[p].opts) :
          hist' = [hist EXCEPT ![job[p].run] = Noted(@, job[p].opts, since)]
    BY <1>1 DEF FetchWindow
  <2>. DEFINE w == (job[p].opts.window = 0 /\ \A x \in LastSuccess : ~Capped(x))
              d == {m \in Messages : InWindow(m, since)}
  <2>2. hist' = [hist EXCEPT ![job[p].run] =
                   [@ EXCEPT !.began = clock, !.since = since, !.whole = w, !.due = d]]
    BY <2>1 DEF Noted
  <2>. HIDE DEF w, d
  <2> QED BY <1>0, <2>2 DEF History
<1>2. ASSUME NEW a \in Accounts, FetchAccount(p, a) \/ FetchAccountFails(p, a)
      PROVE  \A q \in RunIds : hist[q].blind => hist'[q].blind
  BY <1>0, <1>2 DEF FetchAccount, FetchAccountFails, History
<1>3. CASE SkipFilter(p) \/ FilterFails(p)
  BY <1>0, <1>3 DEF SkipFilter, FilterFails, History
<1>4. CASE UNCHANGED hist BY <1>4
<1>5. \/ UNCHANGED hist \/ FetchWindow(p) \/ SkipFilter(p) \/ FilterFails(p)
      \/ \E a \in Accounts : FetchAccount(p, a) \/ FetchAccountFails(p, a)
  BY DEF Step, FetchWindowFails, FlagAccount, IngestFails, FilterProcessed, Classify, ClassifyFails,
         Render, RenderFails, Send, SendFails, RecordSentDigest, RecordFailedDigest, RecordMessage,
         RecordFlag, NoMessageToRecord, FinishRun, Exit
<1> QED BY <1>1, <1>2, <1>3, <1>4, <1>5

LEMMA StepDedups ==
  ASSUME IInv, IInv', ReportInv, DedupInv, NoOverlap', NEW p \in Procs, Step(p), ~Exit(p)
  PROVE  DedupInv'
<1>0. /\ Running(p) /\ Effect(p) /\ Undisturbed(p) /\ Reporting(p)
      /\ TypeOK /\ pc \in [Procs -> Stages] /\ job \in [Procs -> Job] /\ job[p] \in Job
      /\ hist \in [RunIds -> History] /\ chat \in [RunIds -> SUBSET Messages]
      /\ processed \in [Messages -> Row] /\ nextRun \in Nat /\ RunIds \subseteq Nat \ {0}
  <2>1. Running(p) /\ Effect(p) /\ TypeOK BY StepAtWork DEF IInv
  <2>2. Undisturbed(p) /\ Reporting(p) BY <2>1 DEF DedupInv, ReportInv
  <2>3. RunIds \subseteq Nat \ {0} BY PipelineAssumption DEF RunIds
  <2> QED BY <2>1, <2>2, <2>3 DEF TypeOK
<1>1. PICK r \in RunIds : r = job[p].run BY <1>0 DEF IInv, Owns
<1>2. r + 1 = nextRun /\ \A q \in RunIds : hist[q].blind => hist'[q].blind
  BY <1>0, <1>1, BlindStays DEF Undisturbed
<1>3. CASE \/ FetchWindow(p) \/ FetchWindowFails(p) \/ IngestFails(p) \/ RenderFails(p)
           \/ \E a \in Accounts : FetchAccount(p, a) \/ FetchAccountFails(p, a)
  <2>1. /\ UNCHANGED <<chat, processed>> /\ pc'[p] \in {"fetch", "finish"}
    BY <1>0, <1>3 DEF FetchWindow, FetchWindowFails, IngestFails, RenderFails, FetchAccount,
                      FetchAccountFails, Goto, world, ledger
  <2>2. job'[p].run = r BY <1>0, <1>1, <1>3, IngestEffect
  <2> QED BY <1>0, <1>1, <1>2, <2>1, <2>2, DedupQuiet DEF Running
<1>4. CASE SkipFilter(p) \/ FilterProcessed(p) \/ FilterFails(p)
  <2>1. PICK fresh \in SUBSET Messages :
          Proceed(p, fresh) /\ (FilterProcessed(p) => \A m \in fresh : processed[m].run = 0)
    BY <1>0, <1>4 DEF SkipFilter, FilterProcessed, FilterFails, Fresh, Job
  <2>2. /\ job'[p].run = r /\ job'[p].msgs = fresh /\ pc'[p] \in {"classify", "finish"}
    BY <1>0, <1>1, <2>1, ProceedEffect
  <2>3. UNCHANGED <<chat, processed>>
    BY <1>4 DEF SkipFilter, FilterProcessed, FilterFails, world, ledger
  <2>4. hist'[r].blind \/ FilterProcessed(p)
    BY <1>0, <1>1, <1>4 DEF SkipFilter, FilterFails, History
  <2> QED BY <1>0, <1>1, <1>2, <2>1, <2>2, <2>3, <2>4, DedupQuiet DEF Running
<1>5. CASE \/ Classify(p) \/ ClassifyFails(p) \/ Render(p)
           \/ \E a \in Accounts : FlagAccount(p, a)
  <2>1. /\ UNCHANGED <<chat, processed, hist>> /\ pc[p] \in {"classify", "render", "flag"}
    BY <1>5 DEF Classify, ClassifyFails, Render, FlagAccount, world, ledger
  <2>2. job'[p].run = r /\ job'[p].msgs = job[p].msgs /\ pc'[p] \notin {"idle", "exited"}
    <3>1. CASE Classify(p)
      <4>1. PICK a \in Answers(p) : job'[p] = [job[p] EXCEPT !.label = a.label, !.bad = a.bad]
        BY <1>0, <3>1 DEF Classify, Become
      <4>2. pc'[p] = "render" BY <1>0, <3>1 DEF Classify, Goto
      <4> QED BY <1>0, <1>1, <4>1, <4>2 DEF Job
    <3>2. CASE ClassifyFails(p) BY <1>0, <1>1, <3>2 DEF ClassifyFails, Goto, Become, Job
    <3>3. CASE Render(p) BY <1>0, <1>1, <3>3, RenderEffect DEF StageAfterRender
    <3>4. ASSUME NEW a \in Accounts, FlagAccount(p, a)
          PROVE  job'[p].run = r /\ job'[p].msgs = job[p].msgs /\ pc'[p] \notin {"idle", "exited"}
      BY <1>0, <1>1, <3>4 DEF FlagAccount, Goto, Become, Job
    <3> QED BY <1>5, <3>1, <3>2, <3>3, <3>4
  <2>3. hist'[r].blind \/ \A m \in job'[p].msgs : processed[m].run = 0
    BY <1>0, <1>1, <2>1, <2>2 DEF Undisturbed
  <2> QED BY <1>0, <1>1, <1>2, <2>1, <2>2, <2>3, DedupQuiet DEF Running
<1>6. CASE Send(p) \/ SendFails(p)
  <2>1. /\ UNCHANGED <<processed, hist, job>> /\ pc[p] = "send" /\ pc'[p] \in {"sent", "unsent"}
        /\ chat' = chat \/ chat' = [chat EXCEPT ![r] = job[p].shown]
    BY <1>0, <1>1, <1>6 DEF Send, SendFails, Goto, ledger
  <2>2. job[p].shown \subseteq job[p].msgs /\ (hist[r].blind \/ \A m \in job[p].msgs : processed[m].run = 0)
    BY <1>0, <1>1, <2>1 DEF Reporting, Undisturbed
  <2>3. NoRedelivery'
    <3>1. \A q \in RunIds : chat'[q] = chat[q] \/ (q = r /\ chat'[q] = job[p].shown)
      BY <1>0, <2>1
    <3> QED BY <2>1, <2>2, <3>1 DEF DedupInv, NoRedelivery
  <2>4. Undisturbed(p)' BY <1>0, <2>1 DEF Undisturbed, Effect
  <2> QED BY <1>0, <2>1, <2>3, <2>4 DEF DedupInv, NoOverlap, Running
<1>7. CASE RecordSentDigest(p) \/ RecordFailedDigest(p)
  <2>1. UNCHANGED <<chat, processed, hist>> BY <1>7 DEF RecordSentDigest, RecordFailedDigest, world
  <2>2. job'[p].run = r /\ pc'[p] \in {"messages", "finish"}
    <3>1. CASE RecordSentDigest(p)
      <4>1. /\ job'[p] = [job[p] EXCEPT !.todoM = Answered(job[p]) \cap job[p].msgs]
            /\ pc'[p] \in {"messages", "finish"}
        BY <1>0, <3>1, RecordingEffect DEF RecordSentDigest
      <4> QED BY <1>0, <1>1, <4>1 DEF Job
    <3>2. CASE RecordFailedDigest(p)
      BY <1>0, <1>1, <3>2 DEF RecordFailedDigest, Goto, Become, Job
    <3> QED BY <1>7, <3>1, <3>2
  <2> QED BY <1>0, <1>1, <1>2, <2>1, <2>2, DedupQuiet DEF Running
<1>8. CASE NoMessageToRecord(p) \/ \E m \in Messages : RecordMessage(p, m) \/ RecordFlag(p, m)
  <2>1. /\ UNCHANGED <<chat, hist>> /\ job'[p].run = r
        /\ pc[p] \in {"messages", "flags"} /\ pc'[p] \in {"messages", "flags", "finish"}
    BY <1>0, <1>1, <1>8, LoopEffect
  <2>2. ASSUME NEW m \in Messages, NEW q \in RunIds,
               processed'[m].run # 0, processed'[m].run < q, m \in chat'[q]
        PROVE  hist'[q].blind
    <3>1. CASE processed'[m] = processed[m]
      BY <2>1, <2>2, <3>1 DEF DedupInv, NoRedelivery
    <3>2. CASE processed'[m].run = r
      <4>1. q >= nextRun BY <1>0, <1>2, <2>2, <3>2
      <4> QED BY <2>1, <2>2, <4>1 DEF ReportInv, UnusedSilent
    <3> QED BY <1>0, <1>1, <3>1, <3>2 DEF Effect
  <2>3. NoRedelivery' BY <2>2 DEF NoRedelivery
  <2>4. Undisturbed(p)' BY <1>0, <1>1, <1>2, <2>1 DEF Undisturbed, Effect
  <2> QED BY <1>0, <2>1, <2>3, <2>4 DEF DedupInv, NoOverlap, Running
<1>9. CASE FinishRun(p)
  <2>1. UNCHANGED <<chat, processed, hist>> /\ pc'[p] = "exited"
    BY <1>0, <1>9 DEF FinishRun, Goto, world
  <2>2. NoRedelivery' BY <2>1 DEF DedupInv, NoRedelivery
  <2>3. ASSUME NEW q \in Procs, Running(q)' PROVE Undisturbed(q)'
    <3>1. q # p /\ pc'[q] = pc[q] /\ job'[q] = job[q] BY <1>0, <2>1, <2>3 DEF Effect, Running
    <3>2. Undisturbed(q) BY <2>3, <3>1 DEF DedupInv, Running
    <3> QED BY <1>0, <2>1, <3>1, <3>2 DEF Undisturbed, Effect
  <2> QED BY <2>2, <2>3 DEF DedupInv
<1> QED BY <1>3, <1>4, <1>5, <1>6, <1>7, <1>8, <1>9 DEF Step

LEMMA RecordRunDedups ==
  ASSUME IInv, DedupInv, NoOverlap', NEW p \in Procs, NEW o \in Options, RecordRun(p, o)
  PROVE  DedupInv'
<1>0. TypeOK /\ hist \in [RunIds -> History] BY DEF IInv, TypeOK
<1>1. /\ nextRun' = nextRun + 1 /\ pc'[p] = "window" /\ job'[p].run = nextRun
      /\ UNCHANGED <<chat, processed>>
      /\ \A r \in RunIds \ {nextRun} : hist'[r] = hist[r]
      /\ hist'[nextRun] = [hist[nextRun] EXCEPT !.opts = o] /\ nextRun \in RunIds
  BY <1>0, RecordRunEffect DEF world
<1>2. \A r \in RunIds : hist'[r].blind = hist[r].blind BY <1>0, <1>1 DEF History
<1>3. NoRedelivery' BY <1>1, <1>2 DEF DedupInv, NoRedelivery
<1>4. ASSUME NEW q \in Procs, Running(q)' PROVE Undisturbed(q)'
  <2>1. q = p BY <1>1, <1>4 DEF NoOverlap, Running
  <2> QED BY <1>1, <2>1 DEF Undisturbed
<1> QED BY <1>3, <1>4 DEF DedupInv

\* As long as no two runs overlap, no digest shows a message that an earlier run marked
\* processed, unless the run was told to reprocess, is stateless or could not read the
\* ledger: whatever crashes, errors and signals come in between.
THEOREM SerialRunsNeverRedeliver == Spec /\ []NoOverlap => []NoRedelivery
<1>1. Init => DedupInv BY DEF Init, DedupInv, NoRedelivery, Running, NoRow
<1>2. IInv /\ IInv' /\ ReportInv /\ DedupInv /\ NoOverlap' /\ [Next]_vars => DedupInv'
  <2> SUFFICES ASSUME IInv, IInv', ReportInv, DedupInv, NoOverlap', [Next]_vars PROVE DedupInv'
    OBVIOUS
  <2>0. TypeOK BY DEF IInv
  <2>1. CASE \/ UNCHANGED vars \/ Tick \/ \E m \in Messages : Arrive(m) \/ UserReads(m)
             \/ \E p \in Procs : Exit(p) \/ StartFails(p) \/ Crash(p) \/ Cancel(p)
    <3>1. Aside BY <2>0, <2>1, AsideSteps
    <3>2. NoRedelivery' BY <3>1 DEF Aside, DedupInv, NoRedelivery
    <3>3. ASSUME NEW q \in Procs, Running(q)' PROVE Undisturbed(q)'
      <4>1. pc'[q] = pc[q] /\ job'[q] = job[q] BY <3>1, <3>3 DEF Aside
      <4>2. Undisturbed(q) BY <3>3, <4>1 DEF DedupInv, Running
      <4> QED BY <3>1, <4>1, <4>2 DEF Aside, Undisturbed
    <3> QED BY <3>2, <3>3 DEF DedupInv
  <2>2. ASSUME NEW p \in Procs, Step(p), ~Exit(p) PROVE DedupInv' BY <2>2, StepDedups
  <2>3. ASSUME NEW p \in Procs, NEW o \in Options, RecordRun(p, o) PROVE DedupInv'
    BY <2>3, RecordRunDedups
  <2> QED BY <2>1, <2>2, <2>3 DEF Next
<1>3. DedupInv => NoRedelivery BY DEF DedupInv
<1> QED BY <1>1, <1>2, <1>3, InductiveInvariant, ReportsCorrect, PTL DEF Spec

-----------------------------------------------------------------------------
(* Successive windows leave no gap *)

\* What came of message m, or where it will be found.
Tended(m) ==
  \/ \E q \in RunIds : m \in hist[q].fetched
  \/ \E q \in RunIds : runStatus[q] = "completed" /\ AccountOf[m] \in hist[q].failed
  \/ UnreadOnly /\ m \in seen
  \/ \A w \in LastSuccess : Day(arrived[m], ServerZone) >= Day(w, 0)

WithinADay ==
  \A r \in RunIds : runStatus[r] = "completed" =>
    hist[r].whole /\ Day(finishedAt[r], 0) <= Day(hist[r].began, ServerZone)

Unbroken ==
  WithinADay =>
    \A r \in RunIds, m \in Messages :
      runStatus[r] = "completed" /\ arrived[m] # 0 /\ Day(arrived[m], ServerZone) >= hist[r].since
      => Tended(m)

HasWatermark == \A r \in RunIds : runStatus[r] = "completed" => LastSuccess # {}

GapInv ==
  /\ PastOnly /\ HasWatermark /\ Unbroken
  /\ \A p \in Procs : Running(p) => Attended(p)

LEMMA DayAcrossZones ==
  ASSUME NEW s \in Int, NEW t \in Int, NEW y \in Int, NEW z \in Int, s + y <= t + z
  PROVE  Day(s, y) \in Int /\ Day(t, z) \in Int /\ Day(s, y) <= Day(t, z)
<1>1. DayLength \in Nat \ {0} BY PipelineAssumption
<1>. DEFINE a == s + y
            b == t + z
<1>2. a \in Int /\ b \in Int /\ a <= b OBVIOUS
<1>. HIDE DEF a, b
<1>3. a \div DayLength \in Int /\ b \div DayLength \in Int /\ a \div DayLength <= b \div DayLength
  BY <1>1, <1>2
<1> QED BY <1>3 DEF Day, a, b

LEMMA DayMonotone ==
  ASSUME NEW s \in Int, NEW t \in Int, NEW z \in Int, s <= t
  PROVE  Day(s, z) \in Int /\ Day(t, z) \in Int /\ Day(s, z) <= Day(t, z)
<1>1. s + z <= t + z OBVIOUS
<1> QED BY <1>1, DayAcrossZones

LEMMA DayInteger ==
  ASSUME NEW t \in Int, NEW z \in Int
  PROVE  Day(t, z) \in Int
BY DayMonotone

\* The world moves on: mail arrives now, read mail stays read.
Onward ==
  /\ clock' >= clock /\ seen \subseteq seen'
  /\ \A m \in Messages : arrived'[m] = arrived[m] \/ (arrived[m] = 0 /\ arrived'[m] = clock)

LEMMA Types ==
  ASSUME TypeOK
  PROVE  /\ clock \in Nat /\ ServerZone \in Int /\ HostZone \in Int
         /\ DefaultWindow \in Nat /\ MaxWindow \in Nat
         /\ \A m \in Messages : arrived[m] \in Nat
         /\ \A r \in RunIds : /\ finishedAt[r] \in Nat /\ hist[r] \in History
                              /\ hist[r].since \in Int /\ hist[r].began \in Nat
         /\ LastSuccess \subseteq Nat
BY PipelineAssumption DEF TypeOK, History, LastSuccess

\* A step that completes no run breaks no window.
LEMMA UnbrokenStays ==
  ASSUME TypeOK, TypeOK', PastOnly, HasWatermark, Unbroken, Onward,
         \A r \in RunIds : runStatus'[r] = "completed" <=> runStatus[r] = "completed",
         \A r \in RunIds : runStatus[r] = "completed" =>
           hist'[r] = hist[r] /\ finishedAt'[r] = finishedAt[r],
         \A r \in RunIds : hist[r].fetched \subseteq hist'[r].fetched
  PROVE  Unbroken' /\ HasWatermark' /\ LastSuccess' = LastSuccess
<1>1. LastSuccess' = LastSuccess BY DEF LastSuccess
<1>2. HasWatermark' BY <1>1 DEF HasWatermark
<1>3. WithinADay' => WithinADay BY DEF WithinADay
<1>4. ASSUME WithinADay, NEW r \in RunIds, NEW m \in Messages, runStatus'[r] = "completed",
             arrived'[m] # 0, Day(arrived'[m], ServerZone) >= hist'[r].since
      PROVE  Tended(m)'
  <2>1. CASE arrived'[m] = arrived[m]
    <3>1. Tended(m) BY <1>4, <2>1 DEF Unbroken
    <3> QED BY <1>1, <2>1, <3>1 DEF Tended, Onward
  <2>2. CASE arrived[m] = 0 /\ arrived'[m] = clock
    <3>1. ASSUME NEW w \in LastSuccess PROVE Day(clock, ServerZone) >= Day(w, 0)
      <4>1. PICK q \in RunIds : runStatus[q] = "completed" /\ finishedAt[q] = w BY <3>1 DEF LastSuccess
      <4>2. Day(w, 0) <= Day(hist[q].began, ServerZone) BY <1>4, <4>1 DEF WithinADay
      <4>3. hist[q].began <= clock /\ hist[q].began \in Nat /\ clock \in Nat /\ ServerZone \in Int
            /\ w \in Nat
        BY <4>1, Types DEF PastOnly
      <4>4. /\ Day(hist[q].began, ServerZone) <= Day(clock, ServerZone)
            /\ Day(hist[q].began, ServerZone) \in Int /\ Day(clock, ServerZone) \in Int
        <5>1. hist[q].began \in Int /\ clock \in Int BY <4>3
        <5> QED BY <4>3, <5>1, DayMonotone
      <4>5. Day(w, 0) \in Int BY <4>3, DayMonotone
      <4> QED BY <4>2, <4>4, <4>5
    <3> QED BY <1>1, <2>2, <3>1 DEF Tended
  <2> QED BY <2>1, <2>2 DEF Onward
<1> QED BY <1>1, <1>2, <1>3, <1>4 DEF Unbroken

\* A run that does not move stays attended to, while others complete at the clock.
LEMMA AttendedStays ==
  ASSUME TypeOK, TypeOK', PastOnly, Onward, NEW q \in Procs, NEW u \in RunIds,
         job[q].run = u, Attended(q), pc'[q] = pc[q], job'[q] = job[q], hist'[u] = hist[u],
         \A w \in LastSuccess' : w \in LastSuccess \/ w = clock
  PROVE  Attended(q)'
<1>. DEFINE h == hist[u]
<1>1. SUFFICES ASSUME HasWindow(q)
               PROVE  /\ h.whole /\ ~job[q].opts.stateless =>
                           h.since <= Day(clock', 0) /\ \A w \in LastSuccess' : h.since <= Day(w, 0)
                      /\ \A m \in Messages : arrived'[m] # 0 /\ Day(arrived'[m], ServerZone) >= h.since =>
                           \/ pc[q] = "fetch" /\ AccountOf[m] \in job[q].todoA
                           \/ m \in h.fetched \/ AccountOf[m] \in h.failed
                           \/ UnreadOnly /\ m \in seen'
                           \/ Day(arrived'[m], ServerZone) >= Day(h.began, ServerZone)
  BY DEF Attended, HasWindow
<1>2. /\ h.whole /\ ~job[q].opts.stateless =>
           h.since <= Day(clock, 0) /\ \A w \in LastSuccess : h.since <= Day(w, 0)
      /\ \A m \in Messages : arrived[m] # 0 /\ Day(arrived[m], ServerZone) >= h.since =>
           \/ pc[q] = "fetch" /\ AccountOf[m] \in job[q].todoA
           \/ m \in h.fetched \/ AccountOf[m] \in h.failed
           \/ UnreadOnly /\ m \in seen
           \/ Day(arrived[m], ServerZone) >= Day(h.began, ServerZone)
  BY <1>1 DEF Attended
<1>3. /\ clock \in Nat /\ clock' \in Nat /\ clock <= clock' /\ ServerZone \in Int
      /\ h.began \in Nat /\ h.began <= clock /\ h.since \in Int
  BY Types DEF PastOnly, Onward, TypeOK
<1>4. Day(clock, 0) \in Int /\ Day(clock', 0) \in Int /\ Day(clock, 0) <= Day(clock', 0)
  <2>1. clock \in Int /\ clock' \in Int /\ 0 \in Int BY <1>3
  <2> QED BY <1>3, <2>1, DayMonotone
<1>5. Day(clock, ServerZone) >= Day(h.began, ServerZone)
  <2>. DEFINE b == h.began
  <2>1. b \in Int /\ clock \in Int /\ b <= clock BY <1>3
  <2>. HIDE DEF b
  <2>2. Day(b, ServerZone) <= Day(clock, ServerZone)
        /\ Day(b, ServerZone) \in Int /\ Day(clock, ServerZone) \in Int
    BY <1>3, <2>1, DayMonotone
  <2> QED BY <2>2 DEF b
<1>. HIDE DEF h
<1>6. ASSUME h.whole, ~job[q].opts.stateless
      PROVE  h.since <= Day(clock', 0) /\ \A w \in LastSuccess' : h.since <= Day(w, 0)
  BY <1>2, <1>3, <1>4, <1>6
<1>7. ASSUME NEW m \in Messages, arrived'[m] # 0, Day(arrived'[m], ServerZone) >= h.since
      PROVE  \/ pc[q] = "fetch" /\ AccountOf[m] \in job[q].todoA
             \/ m \in h.fetched \/ AccountOf[m] \in h.failed
             \/ UnreadOnly /\ m \in seen'
             \/ Day(arrived'[m], ServerZone) >= Day(h.began, ServerZone)
  BY <1>2, <1>5, <1>7 DEF Onward
<1> QED BY <1>6, <1>7

\* The obligation of a step of p that completes no run, for p alone.
LEMMA GapStep ==
  ASSUME IInv, IInv', GapInv, NEW p \in Procs, Running(p), Effect(p),
         NEW r \in RunIds, job[p].run = r, hist'[r].began <= clock, finishedAt'[r] <= clock,
         runStatus'[r] # "completed", hist[r].fetched \subseteq hist'[r].fetched,
         LastSuccess' = LastSuccess /\ Running(p)' => Attended(p)'
  PROVE  GapInv'
<1>0. TypeOK /\ TypeOK' /\ PastOnly /\ HasWatermark /\ Unbroken BY DEF IInv, GapInv
<1>1. clock' = clock /\ seen' = seen /\ arrived' = arrived BY DEF Effect
<1>2. Onward BY <1>0, <1>1, Types DEF Onward
<1>3. runStatus[r] # "completed" BY DEF IInv, Owns
<1>4. Unbroken' /\ HasWatermark' /\ LastSuccess' = LastSuccess
  BY <1>0, <1>2, <1>3, UnbrokenStays DEF Effect
<1>5. PastOnly' BY <1>1 DEF GapInv, PastOnly, Effect
<1>6. ASSUME NEW q \in Procs, q # p, Running(q)' PROVE Attended(q)'
  <2>1. pc'[q] = pc[q] /\ job'[q] = job[q] BY <1>6 DEF Effect
  <2>2. Running(q) BY <1>6, <2>1 DEF Running
  <2>3. PICK u \in RunIds : u = job[q].run BY <2>2 DEF IInv, Owns
  <2>4. Attended(q) /\ u # r BY <1>6, <2>2, <2>3 DEF GapInv, IInv, OwnRuns
  <2>5. hist'[u] = hist[u] BY <2>4 DEF Effect
  <2> QED BY <1>0, <1>2, <1>4, <2>1, <2>3, <2>4, <2>5, AttendedStays
<1> QED BY <1>4, <1>5, <1>6 DEF GapInv

\* The window of a run starts no later than the last success and no later than today.
LEMMA WindowAttended ==
  ASSUME TypeOK, PastOnly, HostZone <= DefaultWindow, HostZone <= MaxWindow,
         NEW p \in Procs, NEW r \in RunIds, job[p].run = r, FetchWindow(p)
  PROVE  Attended(p)' /\ hist'[r].began = clock /\ hist'[r].fetched = hist[r].fetched
<1>. DEFINE o == job[p].opts
            w == (o.window = 0 /\ \A x \in LastSuccess : ~Capped(x))
<1>0. /\ pc \in [Procs -> Stages] /\ job \in [Procs -> Job] /\ job[p] \in Job
      /\ hist \in [RunIds -> History] /\ hist[r] \in History /\ AccountOf \in [Messages -> Accounts]
      /\ o.stateless \in BOOLEAN
  BY PipelineAssumption DEF TypeOK, Job, Option
<1>1. PICK since \in WindowStart(o) :
        /\ Become(p, [job[p] EXCEPT !.since = since, !.todoA = Accounts])
        /\ hist' = [hist EXCEPT ![job[p].run] = Noted(@, o, since)]
  BY DEF FetchWindow
<1>2. /\ job'[p].since = since /\ job'[p].todoA = Accounts /\ job'[p].run = r
      /\ job'[p].opts = job[p].opts /\ pc'[p] = "fetch"
  BY <1>0, <1>1 DEF FetchWindow, Become, Goto, Job
<1>3. /\ hist'[r].since = since /\ hist'[r].began = clock /\ hist'[r].whole = w
      /\ hist'[r].fetched = hist[r].fetched /\ hist'[r].failed = hist[r].failed
  <2>. DEFINE d == {m \in Messages : InWindow(m, since)}
  <2>1. hist'[r] = [hist[r] EXCEPT !.began = clock, !.since = since, !.whole = w, !.due = d]
    BY <1>0, <1>1 DEF Noted
  <2>. HIDE DEF w, d
  <2> QED BY <1>0, <2>1 DEF History
<1>4. UNCHANGED <<clock, runStatus, finishedAt>> BY DEF FetchWindow, world, ledger
<1>5. ASSUME w, ~o.stateless
      PROVE  since <= Day(clock, 0) /\ \A x \in LastSuccess : since <= Day(x, 0)
  <2>1. since \in DynamicSince(FALSE) BY <1>0, <1>1, <1>5 DEF WindowStart
  <2>2. CASE LastSuccess = {}
    <3>. DEFINE t == Later(clock - DefaultWindow, clock - MaxWindow)
    <3>1. since = Day(t, HostZone) BY <2>1, <2>2 DEF DynamicSince
    <3>2. t \in Int /\ t + HostZone <= clock + 0 /\ clock \in Int /\ HostZone \in Int /\ 0 \in Int
      BY Types DEF Later
    <3>. HIDE DEF t
    <3>3. since <= Day(clock, 0) BY <3>1, <3>2, DayAcrossZones
    <3> QED BY <2>2, <3>3
  <2>3. CASE LastSuccess # {}
    <3>1. PICK x \in LastSuccess : since = Day(x, 0)
      BY <1>5, <2>1, <2>3 DEF DynamicSince
    <3>2. \A z \in LastSuccess : z = x
      <4>1. ASSUME NEW z \in LastSuccess PROVE z = x
        <5>1. z <= x /\ x <= z BY DEF LastSuccess
        <5> QED BY <5>1, Types
      <4> QED BY <4>1
    <3>3. x <= clock /\ x \in Int /\ clock \in Int /\ 0 \in Int
      BY Types DEF LastSuccess, PastOnly
    <3>4. Day(x, 0) <= Day(clock, 0) /\ Day(x, 0) \in Int BY <3>3, DayMonotone
    <3> QED BY <3>1, <3>2, <3>4
  <2> QED BY <2>2, <2>3
<1>6. LastSuccess' = LastSuccess BY <1>4 DEF LastSuccess
<1>. HIDE DEF w
<1>7. Attended(p)' BY <1>0, <1>2, <1>3, <1>4, <1>5, <1>6 DEF Attended
<1> QED BY <1>3, <1>7

\* A fetched account has given what had arrived in the window, a failed one is noted.
LEMMA FetchAttended ==
  ASSUME TypeOK, NEW p \in Procs, NEW r \in RunIds, job[p].run = r, Attended(p),
         NEW a \in Accounts, FetchAccount(p, a) \/ FetchAccountFails(p, a)
  PROVE  Attended(p)' /\ hist'[r].began = hist[r].began /\ hist[r].fetched \subseteq hist'[r].fetched
<1>0. /\ pc \in [Procs -> Stages] /\ job \in [Procs -> Job] /\ job[p] \in Job
      /\ hist \in [RunIds -> History] /\ hist[r] \in History
  BY DEF TypeOK
<1>1. /\ UNCHANGED <<clock, arrived, seen, runStatus, finishedAt, pc>> /\ pc[p] = "fetch"
  BY DEF FetchAccount, FetchAccountFails, world, ledger
<1>2. /\ job'[p].since = job[p].since /\ job'[p].todoA = job[p].todoA \ {a} /\ job'[p].run = r
      /\ job'[p].opts = job[p].opts
  <2>1. CASE FetchAccount(p, a) BY <1>0, <2>1 DEF FetchAccount, Become, Job
  <2>2. CASE FetchAccountFails(p, a) BY <1>0, <2>2 DEF FetchAccountFails, Become, Job
  <2> QED BY <2>1, <2>2
<1>3. /\ hist'[r].since = hist[r].since /\ hist'[r].began = hist[r].began
      /\ hist'[r].whole = hist[r].whole
      /\ hist[r].fetched \subseteq hist'[r].fetched /\ hist[r].failed \subseteq hist'[r].failed
      /\ \/ a \in hist'[r].failed
         \/ \A m \in Messages : AccountOf[m] = a /\ InWindow(m, job[p].since) => m \in hist'[r].fetched
  <2>1. CASE FetchAccount(p, a) BY <1>0, <2>1 DEF FetchAccount, History
  <2>2. CASE FetchAccountFails(p, a) BY <1>0, <2>2 DEF FetchAccountFails, History
  <2> QED BY <2>1, <2>2
<1>4. LastSuccess' = LastSuccess BY <1>1 DEF LastSuccess
<1>5. HasWindow(p) /\ hist[r].since = job[p].since BY <1>1 DEF Attended, HasWindow
<1>6. ASSUME NEW m \in Messages, arrived[m] # 0, Day(arrived[m], ServerZone) >= hist[r].since
      PROVE  \/ AccountOf[m] \in job[p].todoA \ {a}
             \/ m \in hist'[r].fetched \/ AccountOf[m] \in hist'[r].failed
             \/ UnreadOnly /\ m \in seen
             \/ Day(arrived[m], ServerZone) >= Day(hist[r].began, ServerZone)
  <2>1. CASE AccountOf[m] = a BY <1>3, <1>5, <1>6, <2>1 DEF InWindow
  <2>2. CASE AccountOf[m] # a BY <1>3, <1>5, <1>6, <2>2 DEF Attended
  <2> QED BY <2>1, <2>2
<1>7. Attended(p)' BY <1>1, <1>2, <1>3, <1>4, <1>5, <1>6 DEF Attended
<1> QED BY <1>3, <1>7

\* Past fetching, the run of p keeps what it noted.
LEMMA AttendedMovesOn ==
  ASSUME NEW p \in Procs, NEW r \in RunIds, job[p].run = r, Attended(p),
         HasWindow(p)' => HasWindow(p), pc'[p] # "fetch", pc[p] = "fetch" => job[p].todoA = {},
         job'[p].run = r, job'[p].opts = job[p].opts,
         UNCHANGED <<clock, arrived, seen>>, LastSuccess' = LastSuccess,
         hist'[r].since = hist[r].since, hist'[r].began = hist[r].began,
         hist'[r].whole = hist[r].whole, hist'[r].fetched = hist[r].fetched,
         hist'[r].failed = hist[r].failed
  PROVE  Attended(p)'
<1>1. SUFFICES ASSUME HasWindow(p), HasWindow(p)' PROVE Attended(p)' BY DEF Attended
<1>2. /\ hist[r].whole /\ ~job[p].opts.stateless =>
           hist[r].since <= Day(clock, 0) /\ \A w \in LastSuccess : hist[r].since <= Day(w, 0)
      /\ \A m \in Messages : arrived[m] # 0 /\ Day(arrived[m], ServerZone) >= hist[r].since =>
           \/ m \in hist[r].fetched \/ AccountOf[m] \in hist[r].failed
           \/ UnreadOnly /\ m \in seen
           \/ Day(arrived[m], ServerZone) >= Day(hist[r].began, ServerZone)
  BY <1>1 DEF Attended
<1> QED BY <1>2 DEF Attended

\* Between fetching and the end of a run nothing about its window changes.
LEMMA MovingStepGap ==
  ASSUME IInv, IInv', GapInv, NEW p \in Procs, ~Exit(p), Running(p), Effect(p),
         NEW r \in RunIds, job[p].run = r,
         \/ FetchWindowFails(p) \/ IngestFails(p) \/ SkipFilter(p) \/ FilterProcessed(p)
         \/ FilterFails(p) \/ Classify(p) \/ ClassifyFails(p) \/ Render(p) \/ RenderFails(p)
         \/ \E a \in Accounts : FlagAccount(p, a)
         \/ Send(p) \/ SendFails(p) \/ RecordSentDigest(p) \/ RecordFailedDigest(p)
         \/ NoMessageToRecord(p) \/ \E m \in Messages : RecordMessage(p, m) \/ RecordFlag(p, m)
  PROVE  GapInv'
<1>0. /\ TypeOK /\ pc \in [Procs -> Stages] /\ job \in [Procs -> Job] /\ job[p] \in Job
      /\ hist \in [RunIds -> History] /\ hist[r] \in History /\ Attended(p) /\ runStatus[r] # "completed"
  BY DEF IInv, TypeOK, GapInv, Owns
<1>1. UNCHANGED <<clock, arrived, seen, runStatus, finishedAt>>
  BY DEF FetchWindowFails, IngestFails, SkipFilter, FilterProcessed, FilterFails, Classify,
         ClassifyFails, Render, RenderFails, FlagAccount, Send, SendFails, RecordSentDigest,
         RecordFailedDigest, NoMessageToRecord, RecordMessage, RecordFlag, world, ledger
<1>2. /\ hist'[r].since = hist[r].since /\ hist'[r].began = hist[r].began
      /\ hist'[r].whole = hist[r].whole /\ hist'[r].fetched = hist[r].fetched
      /\ hist'[r].failed = hist[r].failed
  <2>1. CASE SkipFilter(p) \/ FilterFails(p)
    BY <1>0, <2>1 DEF SkipFilter, FilterFails, History
  <2>2. CASE ~(SkipFilter(p) \/ FilterFails(p))
    BY <2>2 DEF FetchWindowFails, IngestFails, FilterProcessed, Classify,
         ClassifyFails, Render, RenderFails, FlagAccount, Send, SendFails, RecordSentDigest,
         RecordFailedDigest, NoMessageToRecord, RecordMessage, RecordFlag
  <2> QED BY <2>1, <2>2
<1>3. /\ job'[p].run = r /\ job'[p].opts = job[p].opts /\ pc'[p] # "fetch"
      /\ pc[p] = "fetch" => job[p].todoA = {}
      /\ pc[p] # "finish"
      /\ pc[p] = "window" => pc'[p] = "finish" /\ job'[p].status = "ingest_failed"
  <2>1. CASE FetchWindowFails(p) \/ IngestFails(p) \/ RenderFails(p) \/ RecordFailedDigest(p)
    <3>1. /\ \E s \in {"ingest_failed", "degraded"} :
               /\ job'[p] = [job[p] EXCEPT !.status = s]
               /\ pc[p] = "window" => s = "ingest_failed"
          /\ pc'[p] = "finish" /\ pc[p] # "finish" /\ (pc[p] = "fetch" => job[p].todoA = {})
      BY <1>0, <2>1 DEF FetchWindowFails, IngestFails, RenderFails, RecordFailedDigest, Fetched, Goto, Become
    <3> QED BY <1>0, <3>1 DEF Job
  <2>2. CASE SkipFilter(p) \/ FilterProcessed(p) \/ FilterFails(p)
    <3>1. PICK fresh \in SUBSET Messages : Proceed(p, fresh)
      BY <1>0, <2>2 DEF SkipFilter, FilterProcessed, FilterFails, Fresh, Job
    <3>2. pc[p] = "fetch" /\ job[p].todoA = {}
      BY <2>2 DEF SkipFilter, FilterProcessed, FilterFails, Fetched
    <3> QED BY <1>0, <3>1, <3>2, ProceedEffect
  <2>3. CASE Classify(p) \/ ClassifyFails(p)
    <3>1. pc[p] = "classify" /\ pc'[p] = "render"
      BY <1>0, <2>3 DEF Classify, ClassifyFails, Goto
    <3>2. job'[p].run = r /\ job'[p].opts = job[p].opts BY <1>0, <2>3, IngestEffect
    <3> QED BY <3>1, <3>2
  <2>4. CASE Render(p)
    <3>1. pc[p] = "render" BY <2>4 DEF Render
    <3> QED BY <1>0, <2>4, <3>1, RenderEffect DEF StageAfterRender
  <2>5. ASSUME NEW a \in Accounts, FlagAccount(p, a)
        PROVE  /\ job'[p].run = r /\ job'[p].opts = job[p].opts /\ pc'[p] # "fetch" /\ pc[p] = "flag"
    BY <1>0, <2>5 DEF FlagAccount, Goto, Become, Job
  <2>6. CASE Send(p) \/ SendFails(p) BY <1>0, <2>6 DEF Send, SendFails, Goto
  <2>7. CASE RecordSentDigest(p)
    <3>1. /\ job'[p] = [job[p] EXCEPT !.todoM = Answered(job[p]) \cap job[p].msgs]
          /\ pc'[p] \in {"messages", "finish"} /\ pc[p] = "sent"
      BY <1>0, <2>7, RecordingEffect DEF RecordSentDigest
    <3> QED BY <1>0, <3>1 DEF Job
  <2>8. CASE NoMessageToRecord(p) \/ \E m \in Messages : RecordMessage(p, m) \/ RecordFlag(p, m)
    BY <1>0, <2>8, LoopEffect
  <2> QED BY <2>1, <2>2, <2>3, <2>4, <2>5, <2>6, <2>7, <2>8
<1>4. HasWindow(p)' => HasWindow(p) BY <1>3 DEF HasWindow
<1>5. LastSuccess' = LastSuccess BY <1>1 DEF LastSuccess
<1>6. Attended(p)' BY <1>0, <1>1, <1>2, <1>3, <1>4, <1>5, AttendedMovesOn
<1>7. hist[r].began <= clock /\ finishedAt[r] <= clock BY DEF GapInv, PastOnly
<1> QED BY <1>0, <1>1, <1>2, <1>6, <1>7, GapStep

\* A run that completes becomes the watermark: what it left is after its window began.
LEMMA CompletionGap ==
  ASSUME IInv, IInv', GapInv, NEW p \in Procs, Running(p), Effect(p),
         NEW r \in RunIds, job[p].run = r, FinishRun(p), runStatus'[r] = "completed"
  PROVE  GapInv'
<1>0. /\ TypeOK /\ TypeOK' /\ pc \in [Procs -> Stages] /\ PastOnly /\ HasWatermark /\ Unbroken
      /\ runStatus \in [RunIds -> Status] /\ finishedAt \in [RunIds -> Nat]
      /\ Attended(p) /\ runStatus[r] # "completed"
  BY DEF IInv, TypeOK, GapInv, Owns
<1>1. /\ UNCHANGED <<clock, arrived, seen, hist>> /\ pc[p] = "finish" /\ pc'[p] = "exited"
      /\ runStatus' = [runStatus EXCEPT ![r] = "completed"]
      /\ finishedAt' = [finishedAt EXCEPT ![r] = clock]
      /\ ~job[p].opts.stateless /\ Outcome(job[p]) = "completed"
  BY <1>0 DEF FinishRun, Goto, world
<1>2. Onward BY <1>0, <1>1, Types DEF Onward
<1>3. pc[p] # "fetch" /\ HasWindow(p) BY <1>1 DEF HasWindow, Outcome
<1>. DEFINE Found(m) == \/ m \in hist[r].fetched \/ AccountOf[m] \in hist[r].failed
                        \/ UnreadOnly /\ m \in seen
                        \/ Day(arrived[m], ServerZone) >= Day(hist[r].began, ServerZone)
<1>4. /\ hist[r].whole =>
           hist[r].since <= Day(clock, 0) /\ \A w \in LastSuccess : hist[r].since <= Day(w, 0)
      /\ \A m \in Messages : arrived[m] # 0 /\ Day(arrived[m], ServerZone) >= hist[r].since =>
           Found(m)
  <2>1. Attended(p) /\ job[p].run = r /\ ~job[p].opts.stateless BY <1>0, <1>1
  <2> QED BY <1>3, <2>1 DEF Attended
<1>. HIDE DEF Found
<1>5. LastSuccess' = {clock}
  <2>1. ASSUME NEW q \in RunIds, runStatus'[q] = "completed"
        PROVE  finishedAt'[q] <= clock /\ finishedAt'[q] \in Nat
    BY <1>0, <1>1, Types DEF PastOnly
  <2>2. runStatus'[r] = "completed" /\ finishedAt'[r] = clock BY <1>0, <1>1
  <2>3. clock \in LastSuccess' BY <2>1, <2>2 DEF LastSuccess
  <2>4. ASSUME NEW w \in LastSuccess' PROVE w = clock
    <3>1. clock <= w /\ w <= clock /\ w \in Nat BY <2>1, <2>2 DEF LastSuccess
    <3>2. clock \in Nat BY <1>0, Types
    <3> QED BY <3>1, <3>2
  <2> QED BY <2>3, <2>4
<1>6. HasWatermark' BY <1>5 DEF HasWatermark
<1>7. PastOnly'
  <2>1. clock <= clock BY <1>0, Types
  <2> QED BY <1>0, <1>1, <2>1 DEF PastOnly
<1>8. Unbroken'
  <2>1. SUFFICES ASSUME WithinADay', NEW q \in RunIds, NEW m \in Messages, runStatus'[q] = "completed",
                        arrived[m] # 0, Day(arrived[m], ServerZone) >= hist[q].since
                 PROVE  Tended(m)'
    BY <1>1 DEF Unbroken
  <2>2. /\ hist[r].whole /\ Day(clock, 0) <= Day(hist[r].began, ServerZone)
        /\ WithinADay
    BY <1>0, <1>1, <2>1 DEF WithinADay
  <2>3. ASSUME Day(arrived[m], ServerZone) >= hist[r].since PROVE Tended(m)'
    <3>1. Found(m) BY <1>4, <2>1, <2>3
    <3>2. CASE Day(arrived[m], ServerZone) >= Day(hist[r].began, ServerZone)
      <4>1. /\ arrived[m] \in Int /\ hist[r].began \in Int /\ clock \in Int /\ ServerZone \in Int
            /\ 0 \in Int
        BY <1>0, Types
      <4>2. /\ Day(arrived[m], ServerZone) \in Int /\ Day(hist[r].began, ServerZone) \in Int
            /\ Day(clock, 0) \in Int
        BY <4>1, DayInteger
      <4>3. Day(arrived[m], ServerZone) >= Day(clock, 0) BY <2>2, <3>2, <4>2
      <4> QED BY <1>1, <1>5, <4>3 DEF Tended
    <3> QED BY <1>1, <2>1, <3>1, <3>2 DEF Tended, Found
  <2>4. CASE q # r
    <3>1. runStatus[q] = "completed" BY <1>1, <2>1, <2>4
    <3>2. Tended(m) BY <1>0, <2>1, <2>2, <3>1 DEF Unbroken
    <3>3. CASE \A w \in LastSuccess : Day(arrived[m], ServerZone) >= Day(w, 0)
      <4>1. PICK w \in LastSuccess : TRUE BY <1>0, <3>1 DEF HasWatermark
      <4>2. Day(arrived[m], ServerZone) >= Day(w, 0) BY <3>3
      <4>3. hist[r].since <= Day(w, 0) BY <1>4, <2>2
      <4>4. /\ arrived[m] \in Int /\ w \in Int /\ hist[r].since \in Int /\ ServerZone \in Int
            /\ 0 \in Int
        BY <1>0, Types
      <4>5. Day(arrived[m], ServerZone) \in Int /\ Day(w, 0) \in Int BY <4>4, DayInteger
      <4>6. Day(arrived[m], ServerZone) >= hist[r].since BY <4>2, <4>3, <4>4, <4>5
      <4> QED BY <2>3, <4>6
    <3>4. CASE ~\A w \in LastSuccess : Day(arrived[m], ServerZone) >= Day(w, 0)
      <4>1. \/ \E s \in RunIds : m \in hist[s].fetched
            \/ \E s \in RunIds : runStatus[s] = "completed" /\ AccountOf[m] \in hist[s].failed
            \/ UnreadOnly /\ m \in seen
        BY <3>2, <3>4 DEF Tended
      <4>2. \A s \in RunIds : runStatus[s] = "completed" => runStatus'[s] = "completed"
        BY <1>0, <1>1
      <4> QED BY <1>1, <4>1, <4>2 DEF Tended
    <3> QED BY <3>3, <3>4
  <2> QED BY <2>1, <2>3, <2>4
<1>9. ASSUME NEW q \in Procs, Running(q)' PROVE Attended(q)'
  <2>1. q # p BY <1>1, <1>9 DEF Running
  <2>2. pc'[q] = pc[q] /\ job'[q] = job[q] BY <1>9, <2>1 DEF Effect
  <2>3. Running(q) BY <1>9, <2>2 DEF Running
  <2>4. PICK u \in RunIds : u = job[q].run BY <2>3 DEF IInv, Owns
  <2>5. Attended(q) /\ hist'[u] = hist[u] BY <1>1, <2>3 DEF GapInv
  <2> QED BY <1>0, <1>2, <1>5, <2>2, <2>4, <2>5, AttendedStays
<1> QED BY <1>6, <1>7, <1>8, <1>9 DEF GapInv

LEMMA StepGap ==
  ASSUME IInv, IInv', GapInv, HostZone <= DefaultWindow, HostZone <= MaxWindow,
         NEW p \in Procs, Step(p), ~Exit(p)
  PROVE  GapInv'
<1>0. /\ Running(p) /\ Effect(p) /\ TypeOK /\ PastOnly /\ pc \in [Procs -> Stages]
  BY StepAtWork DEF IInv, TypeOK, GapInv
<1>1. PICK r \in RunIds : r = job[p].run BY <1>0 DEF IInv, Owns
<1>2. runStatus[r] # "completed" /\ Attended(p) /\ hist[r].began <= clock /\ finishedAt[r] <= clock
  BY <1>0, <1>1 DEF IInv, Owns, GapInv, PastOnly
<1>3. clock <= clock BY <1>0, Types
<1>4. CASE FetchWindow(p)
  <2>1. Attended(p)' /\ hist'[r].began = clock /\ hist'[r].fetched = hist[r].fetched
    BY <1>0, <1>1, <1>4, WindowAttended
  <2>2. UNCHANGED <<runStatus, finishedAt>> BY <1>4 DEF FetchWindow, ledger
  <2> QED BY <1>0, <1>1, <1>2, <1>3, <2>1, <2>2, GapStep
<1>5. ASSUME NEW a \in Accounts, FetchAccount(p, a) \/ FetchAccountFails(p, a) PROVE GapInv'
  <2>1. /\ Attended(p)' /\ hist'[r].began = hist[r].began
        /\ hist[r].fetched \subseteq hist'[r].fetched
    BY <1>0, <1>1, <1>2, <1>5, FetchAttended
  <2>2. UNCHANGED <<runStatus, finishedAt>> BY <1>5 DEF FetchAccount, FetchAccountFails, ledger
  <2> QED BY <1>0, <1>1, <1>2, <2>1, <2>2, GapStep
<1>6. CASE FinishRun(p)
  <2>1. CASE runStatus'[r] = "completed" BY <1>0, <1>1, <1>6, <2>1, CompletionGap
  <2>2. CASE runStatus'[r] # "completed"
    <3>1. UNCHANGED hist /\ pc'[p] = "exited" /\ finishedAt'[r] \in {clock, finishedAt[r]}
      BY <1>0, <1>1, <1>6 DEF FinishRun, Goto, TypeOK
    <3>2. ~Running(p)' BY <3>1 DEF Running
    <3> QED BY <1>0, <1>1, <1>2, <1>3, <2>2, <3>1, <3>2, GapStep
  <2> QED BY <2>1, <2>2
<1> QED BY <1>0, <1>1, <1>4, <1>5, <1>6, MovingStepGap DEF Step

LEMMA OutsideGap ==
  ASSUME IInv, IInv', GapInv, Aside \/ \E p \in Procs, o \in Options : RecordRun(p, o)
  PROVE  GapInv'
<1>0. /\ TypeOK /\ TypeOK' /\ PastOnly /\ HasWatermark /\ Unbroken
      /\ hist \in [RunIds -> History] /\ nextRun \in Nat
  BY DEF IInv, TypeOK, GapInv
<1>1. CASE Aside
  <2>1. Onward /\ UNCHANGED <<runStatus, finishedAt, hist>> BY <1>0, <1>1, Types DEF Aside, Onward
  <2>2. Unbroken' /\ HasWatermark' /\ LastSuccess' = LastSuccess BY <1>0, <2>1, UnbrokenStays
  <2>3. PastOnly'
    <3>1. ASSUME NEW r \in RunIds PROVE hist'[r].began <= clock' /\ finishedAt'[r] <= clock'
      <4>1. hist[r].began <= clock /\ finishedAt[r] <= clock BY <1>0 DEF PastOnly
      <4>2. clock <= clock' /\ clock \in Nat /\ clock' \in Nat /\ hist[r].began \in Nat
            /\ finishedAt[r] \in Nat
        BY <1>0, <1>1, Types DEF Aside, TypeOK
      <4> QED BY <2>1, <4>1, <4>2
    <3> QED BY <3>1 DEF PastOnly
  <2>4. ASSUME NEW q \in Procs, Running(q)' PROVE Attended(q)'
    <3>1. pc'[q] = pc[q] /\ job'[q] = job[q] BY <1>1, <2>4 DEF Aside
    <3>2. Running(q) BY <2>4, <3>1 DEF Running
    <3>3. PICK u \in RunIds : u = job[q].run BY <3>2 DEF IInv, Owns
    <3>4. Attended(q) BY <3>2 DEF GapInv
    <3> QED BY <1>0, <2>1, <2>2, <3>1, <3>3, <3>4, AttendedStays
  <2> QED BY <2>2, <2>3, <2>4 DEF GapInv
<1>2. ASSUME NEW p \in Procs, NEW o \in Options, RecordRun(p, o) PROVE GapInv'
  <2>. DEFINE n == nextRun
  <2>1. /\ n \in RunIds /\ pc'[p] = "window" /\ job'[p].run = n
        /\ UNCHANGED <<clock, arrived, seen, finishedAt>>
        /\ \A q \in Procs \ {p} : pc'[q] = pc[q] /\ job'[q] = job[q]
        /\ \A q \in RunIds \ {n} : runStatus'[q] = runStatus[q] /\ hist'[q] = hist[q]
        /\ runStatus'[n] \in {runStatus[n], "running"}
        /\ hist'[n] = [hist[n] EXCEPT !.opts = o]
    BY <1>0, <1>2, RecordRunEffect DEF world
  <2>2. runStatus[n] # "completed" /\ runStatus'[n] # "completed"
    BY <1>0, <2>1 DEF IInv, UnusedRuns
  <2>3. hist'[n].fetched = hist[n].fetched /\ hist'[n].began = hist[n].began BY <1>0, <2>1 DEF History
  <2>4. Onward BY <1>0, <2>1, Types DEF Onward
  <2>5. /\ \A r \in RunIds : runStatus'[r] = "completed" <=> runStatus[r] = "completed"
        /\ \A r \in RunIds : runStatus[r] = "completed" =>
             hist'[r] = hist[r] /\ finishedAt'[r] = finishedAt[r]
        /\ \A r \in RunIds : hist[r].fetched \subseteq hist'[r].fetched
    BY <2>1, <2>2, <2>3
  <2>6. Unbroken' /\ HasWatermark' /\ LastSuccess' = LastSuccess BY <1>0, <2>4, <2>5, UnbrokenStays
  <2>7. PastOnly'
    <3>1. \A r \in RunIds : hist'[r].began = hist[r].began BY <2>1, <2>3
    <3> QED BY <1>0, <2>1, <3>1 DEF PastOnly
  <2>8. ASSUME NEW q \in Procs, Running(q)' PROVE Attended(q)'
    <3>1. CASE q = p BY <2>1, <3>1 DEF Attended, HasWindow
    <3>2. CASE q # p
      <4>1. pc'[q] = pc[q] /\ job'[q] = job[q] BY <2>1, <3>2
      <4>2. Running(q) BY <2>8, <4>1 DEF Running
      <4>3. PICK u \in RunIds : u = job[q].run /\ u < n BY <4>2 DEF IInv, Owns
      <4>4. u # n BY <1>0, <4>3 DEF RunIds
      <4>5. Attended(q) /\ hist'[u] = hist[u] BY <2>1, <4>2, <4>4 DEF GapInv
      <4> QED BY <1>0, <2>4, <2>6, <4>1, <4>3, <4>5, AttendedStays
    <3> QED BY <3>1, <3>2
  <2> QED BY <2>6, <2>7, <2>8 DEF GapInv
<1> QED BY <1>1, <1>2

\* Successive windows leave no gap, however runs overlap, fail, crash and are cancelled:
\* what arrived from the start of a completed run's window on was fetched, is excused or
\* lies in the next window.  The lookbacks (24h, 72h) exceed any offset from UTC.
THEOREM WindowsLeaveNoGap ==
  ASSUME HostZone <= DefaultWindow, HostZone <= MaxWindow
  PROVE  Spec => []IngestionUninterrupted
<1>1. Init => GapInv
  <2> SUFFICES ASSUME Init PROVE GapInv
    OBVIOUS
  <2>1. \A r \in RunIds : runStatus[r] = "none" /\ hist[r] = NoHistory /\ finishedAt[r] = 0 BY DEF Init
  <2>2. clock = 1 /\ \A p \in Procs : ~Running(p) BY DEF Init, Running
  <2>3. PastOnly BY <2>1, <2>2 DEF PastOnly, NoHistory
  <2> QED BY <2>1, <2>2, <2>3 DEF GapInv, HasWatermark, Unbroken
<1>2. IInv /\ IInv' /\ GapInv /\ [Next]_vars => GapInv'
  <2> SUFFICES ASSUME IInv, IInv', GapInv, [Next]_vars PROVE GapInv'
    OBVIOUS
  <2>0. TypeOK BY DEF IInv
  <2>1. CASE \/ UNCHANGED vars \/ Tick \/ \E m \in Messages : Arrive(m) \/ UserReads(m)
             \/ \E p \in Procs : Exit(p) \/ StartFails(p) \/ Crash(p) \/ Cancel(p)
    BY <2>0, <2>1, AsideSteps, OutsideGap
  <2>2. ASSUME NEW p \in Procs, Step(p), ~Exit(p) PROVE GapInv' BY <2>2, StepGap
  <2>3. ASSUME NEW p \in Procs, NEW o \in Options, RecordRun(p, o) PROVE GapInv'
    BY <2>3, OutsideGap
  <2> QED BY <2>1, <2>2, <2>3 DEF Next
<1>3. GapInv => IngestionUninterrupted
  <2> SUFFICES ASSUME GapInv PROVE IngestionUninterrupted
    OBVIOUS
  <2>1. Unbroken BY DEF GapInv
  <2> QED BY <2>1 DEF Unbroken, WithinADay, Tended, IngestionUninterrupted
<1> QED BY <1>1, <1>2, <1>3, InductiveInvariant, PTL DEF Spec
=============================================================================
