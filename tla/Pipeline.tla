------------------------------ MODULE Pipeline ------------------------------
(***************************************************************************)
(* One `emailer` invocation is a process that executes                     *)
(* orchestrator.Pipeline.Run once and exits; a timer (or a user) starts    *)
(* processes again and again over the same mailboxes and the same SQLite   *)
(* ledger.  Every call that leaves the process (store, IMAP, LLM,          *)
(* Telegram) is an action of its own, so a crash, a signal, new mail, the  *)
(* clock or another process can come between any two of them.              *)
(*                                                                         *)
(* Which failures occur is chosen by the constant Faults:                  *)
(*   "crash"   the process dies between two calls                          *)
(*   "cancel"  SIGINT/SIGTERM cancels the context every call is given      *)
(*   "store"   a ledger call fails (disk full, database locked)            *)
(*   "account" fetching one account fails                                  *)
(*   "llm"     provider.Classify fails     "render" Render fails           *)
(*   "flag"    some keyword writes fail    "send"   Channel.Send fails     *)
(*   "omit"    the answer leaves requested messages out                    *)
(*   "extra"   the answer classifies messages it was not asked about       *)
(***************************************************************************)
EXTENDS Integers, FiniteSets, ClassifyContract

CONSTANTS
  Procs,          \* processes that may run at the same time
  Accounts,       \* configured IMAP accounts
  AccountOf,      \* the account of each message key
  MaxRuns,        \* bound: runs recorded over the life of the ledger
  MaxClock,       \* bound: the clock
  DayLength,      \* ticks per calendar day (IMAP SINCE compares days)
  ServerZone,     \* ticks the mail server's calendar is ahead of UTC
  HostZone,       \* the same for the host emailer runs on
  DefaultWindow,  \* lookback without a successful run (24h)
  MaxWindow,      \* cap of the dynamic lookback (72h)
  MaxMessages,    \* digest.max_messages, 0 for no limit
  UnreadOnly,     \* fetch_unread_only
  Options,        \* the RunOptions processes are started with
  Faults

Option == [window: Nat, force: BOOLEAN, dryRun: BOOLEAN, stateless: BOOLEAN]
Fault == {"crash", "cancel", "store", "account", "llm", "render",
          "flag", "send", "omit", "extra"}

ASSUME PipelineAssumption ==
  /\ AccountOf \in [Messages -> Accounts]
  /\ MaxRuns \in Nat /\ MaxClock \in Nat /\ MaxMessages \in Nat
  /\ DayLength \in Nat \ {0} /\ ServerZone \in Int /\ HostZone \in Int
  /\ DefaultWindow \in Nat /\ MaxWindow \in Nat
  /\ UnreadOnly \in BOOLEAN /\ LenientProvider \in BOOLEAN
  /\ Options \subseteq Option /\ Options # {}
  /\ Faults \subseteq Fault
  /\ "Unknown" \notin Labels /\ "none" \notin Labels

RunIds == 1..MaxRuns

Final  == {"completed", "degraded", "ingest_failed", "partial", "partially_classified"}
Status == Final \cup {"none", "running"}

VARIABLES
  \* the world outside the process
  clock,        \* now
  arrived,      \* time each message reached its mailbox, 0 for not yet
  seen,         \* messages with the \Seen flag
  keywords,     \* <<message, keyword>> pairs set on the IMAP server
  chat,         \* messages shown by the digest Telegram accepted for a run
  delivered,    \* runs whose digest Telegram accepted
  \* the ledger (SQLite)
  runStatus, finishedAt, processed, flagRecords, digests,
  \* the processes
  pc, cancelled, job, nextRun,
  \* history, read by properties only
  hist

world  == <<clock, arrived, seen, keywords, chat, delivered>>
ledger == <<runStatus, finishedAt, processed, flagRecords, digests>>
vars   == <<world, ledger, pc, cancelled, job, nextRun, hist>>

Stages == {"idle", "window", "fetch", "classify", "render", "flag", "send",
           "sent", "unsent", "messages", "flags", "finish", "exited"}

Row == [run: RunIds \cup {0}, label: AnyLabel \cup {NoLabel}]
NoRow == [run |-> 0, label |-> NoLabel]

Job == [run: RunIds \cup {0}, opts: Option,
        since: Int,                         \* the day SINCE names
        failed: SUBSET Accounts,            \* accounts whose fetch failed
        msgs: SUBSET Messages,              \* messages of the run
        label: Labelling,                   \* valid classifications
        bad: SUBSET Messages,               \* failed classifications
        llmErr: BOOLEAN,                    \* classifyErr # nil
        shown: SUBSET Messages,             \* messages in the rendered digest
        status: Status,                     \* Result.Status
        todoA: SUBSET Accounts, todoM: SUBSET Messages]  \* loops in progress

NoOption == [window |-> 0, force |-> FALSE, dryRun |-> FALSE, stateless |-> FALSE]
NoLabels == [m \in Messages |-> NoLabel]
IdleJob == [run |-> 0, opts |-> NoOption, since |-> 0, failed |-> {}, msgs |-> {},
            label |-> NoLabels, bad |-> {}, llmErr |-> FALSE, shown |-> {},
            status |-> "none", todoA |-> {}, todoM |-> {}]

\* began: when the window was computed; whole: it starts at the watermark, if
\* there is one; fetched: what the server returned.
History == [opts: Option, began: Nat, since: Int, whole: BOOLEAN,
            due: SUBSET Messages, fetched: SUBSET Messages,
            failed: SUBSET Accounts, blind: BOOLEAN]
NoHistory == [opts |-> NoOption, began |-> 0, since |-> 0, whole |-> FALSE,
              due |-> {}, fetched |-> {}, failed |-> {}, blind |-> FALSE]

TypeOK ==
  /\ clock \in Nat /\ arrived \in [Messages -> Nat]
  /\ seen \subseteq Messages /\ keywords \subseteq Messages \X Labels
  /\ chat \in [RunIds -> SUBSET Messages] /\ delivered \subseteq RunIds
  /\ runStatus \in [RunIds -> Status] /\ finishedAt \in [RunIds -> Nat]
  /\ processed \in [Messages -> Row]
  /\ flagRecords \subseteq Messages \X Labels
  /\ digests \in [RunIds -> SUBSET {"sent", "failed"}]
  /\ pc \in [Procs -> Stages] /\ cancelled \in [Procs -> BOOLEAN]
  /\ job \in [Procs -> Job] /\ nextRun \in Nat \ {0}
  /\ hist \in [RunIds -> History]

Init ==
  /\ clock = 1 /\ arrived = [m \in Messages |-> 0]
  /\ seen = {} /\ keywords = {}
  /\ chat = [r \in RunIds |-> {}] /\ delivered = {}
  /\ runStatus = [r \in RunIds |-> "none"] /\ finishedAt = [r \in RunIds |-> 0]
  /\ processed = [m \in Messages |-> NoRow]
  /\ flagRecords = {} /\ digests = [r \in RunIds |-> {}]
  /\ pc = [p \in Procs |-> "idle"] /\ cancelled = [p \in Procs |-> FALSE]
  /\ job = [p \in Procs |-> IdleJob] /\ nextRun = 1
  /\ hist = [r \in RunIds |-> NoHistory]

-----------------------------------------------------------------------------
(* Helpers *)

Goto(p, stage) == pc' = [pc EXCEPT ![p] = stage]
Become(p, j)   == job' = [job EXCEPT ![p] = j]

\* Every ledger call gets the signal-aware context: it fails once that is
\* cancelled.  A stateless process has an in-memory NoopStore instead, which
\* ignores the context and forgets everything at exit.
StoreCanWork(p) == ~cancelled[p]
StoreCanFail(p) == ~job[p].opts.stateless /\ (cancelled[p] \/ "store" \in Faults)

Answered(j) == Labelled(j.label)

\* ClassificationToFlag: "Unknown" has no keyword.
FlaggedUnchecked(j) == Answered(j)
Flagged(j) == {m \in Messages : j.label[m] \in Labels}

\* The calendar day of an instant, in a zone.
Day(t, zone) == (t + zone) \div DayLength

\* The IMAP search of the window.  SINCE compares the day it is given with the
\* day of arrival as the server recorded it, without times or time zones.
InWindowAfter(m, day) ==
  /\ arrived[m] # 0 /\ Day(arrived[m], ServerZone) > day
  /\ UnreadOnly => m \notin seen

InWindow(m, day) ==
  /\ arrived[m] # 0 /\ Day(arrived[m], ServerZone) >= day
  /\ UnreadOnly => m \notin seen

\* GetLastSuccessfulRunTime: finished_at of the latest completed run.
LastSuccess ==
  {finishedAt[r] : r \in {q \in RunIds :
      /\ runStatus[q] = "completed"
      /\ \A s \in RunIds : runStatus[s] = "completed" => finishedAt[s] <= finishedAt[q]}}

\* The watermark is older than MaxWindow (72h).
Capped(watermark) == watermark < clock - MaxWindow

Later(a, b) == IF a >= b THEN a ELSE b

\* fetchWindow's dynamic branch: the watermark (or 24h), capped at MaxWindow.
\* The day is that of the time value's own location: UTC for a time read from
\* the ledger, the host's zone for one computed from now.
DynamicSince(stateless) ==
  IF stateless \/ LastSuccess = {}
  THEN {Day(Later(clock - DefaultWindow, clock - MaxWindow), HostZone)}
  ELSE {IF Capped(w) THEN Day(clock - MaxWindow, HostZone) ELSE Day(w, 0) : w \in LastSuccess}

\* An explicit --window overrides the dynamic one.
WindowStart(o) ==
  IF o.window # 0 THEN {Day(clock - o.window, HostZone)} ELSE DynamicSince(o.stateless)

\* What the properties remember of the window.
Noted(h, o, since) ==
  [h EXCEPT !.began = clock, !.since = since,
            !.whole = (o.window = 0 /\ \A w \in LastSuccess : ~Capped(w)),
            !.due = {m \in Messages : InWindow(m, since)}]

-----------------------------------------------------------------------------
(* The world *)

Tick ==
  /\ clock < MaxClock /\ clock' = clock + 1
  /\ UNCHANGED <<arrived, seen, keywords, chat, delivered, ledger,
                 pc, cancelled, job, nextRun, hist>>

Arrive(m) ==
  /\ arrived[m] = 0 /\ arrived' = [arrived EXCEPT ![m] = clock]
  /\ UNCHANGED <<clock, seen, keywords, chat, delivered, ledger,
                 pc, cancelled, job, nextRun, hist>>

UserReads(m) ==
  /\ UnreadOnly /\ arrived[m] # 0 /\ m \notin seen
  /\ seen' = seen \cup {m}
  /\ UNCHANGED <<clock, arrived, keywords, chat, delivered, ledger,
                 pc, cancelled, job, nextRun, hist>>

Running(p) == pc[p] \notin {"idle", "exited"}

Cancel(p) ==
  /\ "cancel" \in Faults /\ Running(p) /\ ~cancelled[p]
  /\ cancelled' = [cancelled EXCEPT ![p] = TRUE]
  /\ UNCHANGED <<world, ledger, pc, job, nextRun, hist>>

\* What the process had in memory is lost; its run stays "running".
Crash(p) ==
  /\ "crash" \in Faults /\ Running(p)
  /\ Goto(p, "idle")
  /\ Become(p, IdleJob)
  /\ cancelled' = [cancelled EXCEPT ![p] = FALSE]
  /\ UNCHANGED <<world, ledger, nextRun, hist>>

-----------------------------------------------------------------------------
(* Run: one action per external call *)

\* Dialling or logging in to any account fails, or RecordRun does: exit 1 with
\* nothing fetched for any account and no run in the ledger.
StartFails(p) ==
  /\ pc[p] = "idle"
  /\ Goto(p, "exited")
  /\ Become(p, [job[p] EXCEPT !.status = "ingest_failed"])
  /\ UNCHANGED <<world, ledger, cancelled, nextRun, hist>>

RecordRun(p, o) ==
  /\ pc[p] = "idle" /\ nextRun \in RunIds
  /\ Goto(p, "window")
  /\ Become(p, [job[p] EXCEPT !.run = nextRun, !.opts = o])
  /\ nextRun' = nextRun + 1
  /\ hist' = [hist EXCEPT ![nextRun].opts = o]
  /\ runStatus' = IF o.stateless THEN runStatus
                                 ELSE [runStatus EXCEPT ![nextRun] = "running"]
  /\ UNCHANGED <<world, finishedAt, processed, flagRecords, digests, cancelled>>

FetchWindow(p) ==
  LET o == job[p].opts IN
  /\ pc[p] = "window"
  /\ o.window # 0 \/ o.stateless \/ StoreCanWork(p)
  /\ \E since \in WindowStart(o) :
       /\ Become(p, [job[p] EXCEPT !.since = since, !.todoA = Accounts])
       /\ hist' = [hist EXCEPT ![job[p].run] = Noted(@, o, since)]
  /\ Goto(p, "fetch")
  /\ UNCHANGED <<world, ledger, cancelled, nextRun>>

FetchWindowFails(p) ==
  /\ pc[p] = "window" /\ job[p].opts.window = 0 /\ StoreCanFail(p)
  /\ Become(p, [job[p] EXCEPT !.status = "ingest_failed"])
  /\ Goto(p, "finish")
  /\ UNCHANGED <<world, ledger, cancelled, nextRun, hist>>

\* FetchAll runs the accounts concurrently: each one sees its mailbox at its
\* own moment, and may still succeed when the context is done, which Fetch looks
\* at only between folders.
FetchAccount(p, a) ==
  /\ pc[p] = "fetch" /\ a \in job[p].todoA
  /\ LET got == {m \in Messages : AccountOf[m] = a /\ InWindow(m, job[p].since)} IN
       /\ Become(p, [job[p] EXCEPT !.todoA = @ \ {a}, !.msgs = @ \cup got])
       /\ hist' = [hist EXCEPT ![job[p].run].fetched = @ \cup got]
  /\ UNCHANGED <<world, ledger, pc, cancelled, nextRun>>

\* A failed account contributes no message, whatever it fetched before failing.
FetchAccountFails(p, a) ==
  /\ pc[p] = "fetch" /\ a \in job[p].todoA
  /\ cancelled[p] \/ "account" \in Faults
  /\ Become(p, [job[p] EXCEPT !.todoA = @ \ {a}, !.failed = @ \cup {a}])
  /\ hist' = [hist EXCEPT ![job[p].run].failed = @ \cup {a}]
  /\ UNCHANGED <<world, ledger, pc, cancelled, nextRun>>

Fetched(p) == pc[p] = "fetch" /\ job[p].todoA = {}

\* Some account failed and the others had nothing: "all accounts failed".
IngestFails(p) ==
  /\ Fetched(p) /\ job[p].failed # {} /\ job[p].msgs = {}
  /\ Become(p, [job[p] EXCEPT !.status = "ingest_failed"])
  /\ Goto(p, "finish")
  /\ UNCHANGED <<world, ledger, cancelled, nextRun, hist>>

\* The messages AlreadyProcessed leaves.
FreshReadingNothing(p) == job[p].msgs
Fresh(p) == {m \in job[p].msgs : processed[m].run = 0}

\* The rest of the run works on `fresh`; with nothing left it is completed,
\* whatever accounts failed.
Proceed(p, fresh) ==
  IF fresh = {}
  THEN /\ Become(p, [job[p] EXCEPT !.msgs = {}, !.status = "completed"])
       /\ Goto(p, "finish")
  ELSE /\ Become(p, [job[p] EXCEPT !.msgs = fresh,
                       !.status = IF job[p].failed # {} THEN "partial" ELSE "none"])
       /\ Goto(p, "classify")

\* No ledger to consult: nothing fetched, --force-reprocess or stateless.
SkipFilter(p) ==
  LET j == job[p] IN
  /\ Fetched(p)
  /\ \/ j.msgs = {} /\ j.failed = {}
     \/ j.msgs # {} /\ (j.opts.force \/ j.opts.stateless)
  /\ Proceed(p, j.msgs)
  /\ hist' = [hist EXCEPT ![j.run].blind = TRUE]
  /\ UNCHANGED <<world, ledger, cancelled, nextRun>>

FilterProcessed(p) ==
  LET j == job[p] IN
  /\ Fetched(p) /\ j.msgs # {} /\ ~j.opts.force /\ ~j.opts.stateless
  /\ StoreCanWork(p)
  /\ Proceed(p, Fresh(p))
  /\ UNCHANGED <<world, ledger, cancelled, nextRun, hist>>

\* Fail-soft: without an answer from the ledger nothing is filtered.
FilterFails(p) ==
  LET j == job[p] IN
  /\ Fetched(p) /\ j.msgs # {} /\ ~j.opts.force /\ StoreCanFail(p)
  /\ Proceed(p, j.msgs)
  /\ hist' = [hist EXCEPT ![j.run].blind = TRUE]
  /\ UNCHANGED <<world, ledger, cancelled, nextRun>>

\* What classifyWithPartialFallback can return for the requested messages.
Answers(p) == Results(job[p].msgs, "omit" \in Faults, "extra" \in Faults)

Classify(p) ==
  /\ pc[p] = "classify" /\ ~cancelled[p]
  /\ \E a \in Answers(p) :
       Become(p, [job[p] EXCEPT !.label = a.label, !.bad = a.bad])
  /\ Goto(p, "render")
  /\ UNCHANGED <<world, ledger, cancelled, nextRun, hist>>

ClassifyFails(p) ==
  /\ pc[p] = "classify" /\ (cancelled[p] \/ "llm" \in Faults)
  /\ Become(p, [job[p] EXCEPT !.llmErr = TRUE, !.status = "degraded"])
  /\ Goto(p, "render")
  /\ UNCHANGED <<world, ledger, cancelled, nextRun, hist>>

\* The status before delivery: no valid classification is worse than failed
\* analyses, which are worse than (and hide) a failed account.
Graded(j) ==
  CASE j.llmErr \/ Answered(j) = {} -> "degraded"
    [] j.bad # {}                   -> "partially_classified"
    [] OTHER                        -> j.status

\* The renderers show MaxMessages of the messages at most (without
\* digest.priority_only, which hides more of them).
Selections(msgs) ==
  IF MaxMessages = 0 \/ Cardinality(msgs) <= MaxMessages THEN {msgs}
  ELSE {s \in SUBSET msgs : Cardinality(s) = MaxMessages}

\* Whether processed messages and flags are recorded.
MayRecord(j) == ~j.opts.stateless /\ ~j.llmErr

\* The loops that follow delivery: todoM is the messages whose rows to write.
BeginRecording(p, j) ==
  /\ Become(p, [j EXCEPT !.todoM = Answered(j) \cap j.msgs])
  /\ Goto(p, IF MayRecord(j) THEN "messages" ELSE "finish")

\* Flags are applied before the digest is sent, if there are any.
StageAfterRender(j) == IF j.llmErr \/ Flagged(j) = {} THEN "send" ELSE "flag"

Render(p) ==
  /\ pc[p] = "render"
  /\ \E s \in Selections(job[p].msgs) :
       LET j == [job[p] EXCEPT !.shown = s, !.status = Graded(job[p])] IN
       IF j.opts.dryRun THEN BeginRecording(p, j)
       ELSE /\ Become(p, [j EXCEPT !.todoA = {AccountOf[m] : m \in Flagged(j)}])
            /\ Goto(p, StageAfterRender(j))
  /\ UNCHANGED <<world, ledger, cancelled, nextRun, hist>>

RenderFails(p) ==
  /\ pc[p] = "render" /\ "render" \in Faults
  /\ Become(p, [job[p] EXCEPT !.status = "degraded"])
  /\ Goto(p, "finish")
  /\ UNCHANGED <<world, ledger, cancelled, nextRun, hist>>

\* ApplyFlags on one account, in any order of accounts.  Whatever it could not
\* write is only logged; it does not look at the cancelled context.
FlagAccount(p, a) ==
  LET j    == job[p]
      want == {<<m, j.label[m]>> : m \in {f \in Flagged(j) : AccountOf[f] = a}} IN
  /\ pc[p] = "flag" /\ a \in j.todoA
  /\ \E done \in IF "flag" \in Faults THEN SUBSET want ELSE {want} :
       keywords' = keywords \cup done
  /\ Become(p, [j EXCEPT !.todoA = @ \ {a}])
  /\ IF j.todoA = {a} THEN Goto(p, "send") ELSE UNCHANGED pc
  /\ UNCHANGED <<clock, arrived, seen, chat, delivered, ledger, cancelled, nextRun, hist>>

Send(p) ==
  /\ pc[p] = "send" /\ ~cancelled[p]
  /\ chat' = [chat EXCEPT ![job[p].run] = job[p].shown]
  /\ delivered' = delivered \cup {job[p].run}
  /\ Goto(p, "sent")
  /\ UNCHANGED <<clock, arrived, seen, keywords, ledger, cancelled, job, nextRun, hist>>

\* The error of Send says nothing about delivery: a timeout may follow a
\* request that Telegram accepted.
SendFails(p) ==
  /\ pc[p] = "send" /\ (cancelled[p] \/ "send" \in Faults)
  /\ \/ UNCHANGED <<chat, delivered>>
     \/ /\ chat' = [chat EXCEPT ![job[p].run] = job[p].shown]
        /\ delivered' = delivered \cup {job[p].run}
  /\ Goto(p, "unsent")
  /\ UNCHANGED <<clock, arrived, seen, keywords, ledger, cancelled, job, nextRun, hist>>

\* RecordDigest, whose own failure is only logged; a stateless process keeps
\* it to itself.
RecordDigest(p, outcome) ==
  \/ /\ ~job[p].opts.stateless /\ StoreCanWork(p)
     /\ digests' = [digests EXCEPT ![job[p].run] = @ \cup {outcome}]
  \/ /\ job[p].opts.stateless \/ StoreCanFail(p)
     /\ UNCHANGED digests

RecordSentDigest(p) ==
  /\ pc[p] = "sent"
  /\ RecordDigest(p, "sent")
  /\ BeginRecording(p, job[p])
  /\ UNCHANGED <<world, runStatus, finishedAt, processed, flagRecords, cancelled, nextRun, hist>>

RecordFailedDigestNoReturn(p) ==
  /\ pc[p] = "unsent"
  /\ RecordDigest(p, "failed")
  /\ BeginRecording(p, [job[p] EXCEPT !.status = "degraded"])
  /\ UNCHANGED <<world, runStatus, finishedAt, processed, flagRecords, cancelled, nextRun, hist>>

RecordFailedDigest(p) ==
  /\ pc[p] = "unsent"
  /\ RecordDigest(p, "failed")
  /\ Become(p, [job[p] EXCEPT !.status = "degraded"])
  /\ Goto(p, "finish")
  /\ UNCHANGED <<world, runStatus, finishedAt, processed, flagRecords, cancelled, nextRun, hist>>

InsertedOrReplaced(m, row) == [processed EXCEPT ![m] = row]

\* INSERT OR IGNORE: the first row of a key wins.
Inserted(m, row) == IF processed[m].run = 0 THEN [processed EXCEPT ![m] = row] ELSE processed

\* Goes on to the flag records with the last message.
NextMessage(p, m) ==
  LET j == job[p] IN
  IF j.todoM = {m}
  THEN /\ Become(p, [j EXCEPT !.todoM = Flagged(j)])
       /\ Goto(p, IF Flagged(j) = {} THEN "finish" ELSE "flags")
  ELSE /\ Become(p, [j EXCEPT !.todoM = @ \ {m}])
       /\ UNCHANGED pc

RecordMessage(p, m) ==
  /\ pc[p] = "messages" /\ m \in job[p].todoM
  /\ \/ StoreCanWork(p)
        /\ processed' = Inserted(m, [run |-> job[p].run, label |-> job[p].label[m]])
     \/ StoreCanFail(p) /\ UNCHANGED processed
  /\ NextMessage(p, m)
  /\ UNCHANGED <<world, runStatus, finishedAt, flagRecords, digests, cancelled, nextRun, hist>>

\* No requested message has a valid classification: the loop body never runs.
NoMessageToRecord(p) ==
  LET j == job[p] IN
  /\ pc[p] = "messages" /\ j.todoM = {}
  /\ Become(p, [j EXCEPT !.todoM = Flagged(j)])
  /\ Goto(p, IF Flagged(j) = {} THEN "finish" ELSE "flags")
  /\ UNCHANGED <<world, ledger, cancelled, nextRun, hist>>

\* recordFlags writes what should have been applied, not what was.
RecordFlag(p, m) ==
  LET j == job[p] IN
  /\ pc[p] = "flags" /\ m \in j.todoM
  /\ \/ StoreCanWork(p) /\ flagRecords' = flagRecords \cup {<<m, j.label[m]>>}
     \/ StoreCanFail(p) /\ UNCHANGED flagRecords
  /\ Become(p, [j EXCEPT !.todoM = @ \ {m}])
  /\ IF j.todoM = {m} THEN Goto(p, "finish") ELSE UNCHANGED pc
  /\ UNCHANGED <<world, runStatus, finishedAt, processed, digests, cancelled, nextRun, hist>>

OutcomeIgnoringErrors(j) == "completed"

\* The status written at the end: none assigned means completed.
Outcome(j) == IF j.status = "none" THEN "completed" ELSE j.status

FinishRun(p) ==
  LET j == job[p] IN
  /\ pc[p] = "finish"
  /\ \/ /\ StoreCanWork(p) /\ ~j.opts.stateless
        /\ runStatus' = [runStatus EXCEPT ![j.run] = Outcome(j)]
        /\ finishedAt' = [finishedAt EXCEPT ![j.run] = clock]
     \/ /\ j.opts.stateless \/ StoreCanFail(p)
        /\ UNCHANGED <<runStatus, finishedAt>>
  /\ Become(p, [j EXCEPT !.status = Outcome(j)])
  /\ Goto(p, "exited")
  /\ UNCHANGED <<world, processed, flagRecords, digests, cancelled, nextRun, hist>>

\* main closes the store and the connections and exits.
Exit(p) ==
  /\ pc[p] = "exited"
  /\ Goto(p, "idle")
  /\ Become(p, IdleJob)
  /\ cancelled' = [cancelled EXCEPT ![p] = FALSE]
  /\ UNCHANGED <<world, ledger, nextRun, hist>>

-----------------------------------------------------------------------------
\* A step the process takes by itself; launching, crashes, signals and the
\* world are not under its control.
Step(p) ==
  \/ FetchWindow(p) \/ FetchWindowFails(p)
  \/ \E a \in Accounts : FetchAccount(p, a) \/ FetchAccountFails(p, a) \/ FlagAccount(p, a)
  \/ IngestFails(p) \/ SkipFilter(p) \/ FilterProcessed(p) \/ FilterFails(p)
  \/ Classify(p) \/ ClassifyFails(p) \/ Render(p) \/ RenderFails(p)
  \/ Send(p) \/ SendFails(p) \/ RecordSentDigest(p) \/ RecordFailedDigest(p)
  \/ \E m \in Messages : RecordMessage(p, m) \/ RecordFlag(p, m)
  \/ NoMessageToRecord(p) \/ FinishRun(p) \/ Exit(p)

Next ==
  \/ Tick
  \/ \E m \in Messages : Arrive(m) \/ UserReads(m)
  \/ \E p \in Procs :
       \/ Step(p) \/ StartFails(p) \/ Crash(p) \/ Cancel(p)
       \/ \E o \in Options : RecordRun(p, o)

Spec == Init /\ [][Next]_vars

-----------------------------------------------------------------------------
(* Properties *)

\* A message enters the dedup ledger only for a run whose digest Telegram had
\* accepted (or a dry run, which has no digest to deliver): recording comes
\* after delivery, so no crash, error or signal makes the dedup filter hide
\* mail that no digest was sent about.
RecordedAfterDelivery ==
  \A m \in Messages :
    LET r == processed[m].run IN
    r # 0 => r \in delivered \/ hist[r].opts.dryRun

\* Without a cap on the digest, the delivered digest also showed the message.
RecordedWasShown ==
  MaxMessages = 0 =>
    \A m \in Messages :
      LET r == processed[m].run IN
      r # 0 => m \in chat[r] \/ hist[r].opts.dryRun

\* A run that ended degraded or ingest_failed (LLM down, digest not delivered,
\* nothing valid) leaves no message marked processed: the next run sees its
\* mail again.
FailedRunsRecordNothing ==
  \A m \in Messages :
    LET r == processed[m].run IN
    r # 0 => runStatus[r] \notin {"none", "degraded", "ingest_failed"}

\* The digest ledger tells the truth about delivery: "sent" only for an
\* accepted digest, "failed" only for a run that does not count as successful,
\* never both for one run.
DigestRecordsTruthful ==
  \A r \in RunIds :
    /\ "sent" \in digests[r] => r \in delivered /\ "failed" \notin digests[r]
    /\ "failed" \in digests[r] => runStatus[r] \in {"running", "degraded"}

\* A digest never shows a message that an earlier run recorded, unless the run
\* was told to reprocess, is stateless, or could not read the ledger.  This is
\* the dedup promise; it needs runs that do not overlap.
NoRedelivery ==
  \A m \in Messages, q \in RunIds :
    processed[m].run # 0 /\ processed[m].run < q /\ m \in chat[q] => hist[q].blind

\* The user was shown the message, or a dry run recorded it as processed.
Reported(m) ==
  \/ \E q \in RunIds : m \in chat[q]
  \/ processed[m].run # 0 /\ hist[processed[m].run].opts.dryRun

\* A completed run is the watermark of later fetches, so what it was due to
\* report must have reached the user: each message in its window when it
\* started was shown by some digest, unless its account failed, the user read
\* it in the meantime (unread-only mode), the run was dry itself, or a dry run
\* had recorded the message.
CompletedCoversDue ==
  MaxMessages = 0 =>
    \A r \in RunIds : runStatus[r] = "completed" /\ ~hist[r].opts.dryRun =>
      \A m \in hist[r].due :
        \/ Reported(m)
        \/ AccountOf[m] \in hist[r].failed
        \/ UnreadOnly /\ m \in seen

\* Successive windows leave no gap: once a run has completed, every message from
\* the start of its window on was fetched by some run or lies in the window the
\* next run derives from the watermark -- unless its account failed, the user
\* read it (unread-only mode), a window was given by hand or capped, or a run
\* ended on a later day than the one it began on as the server counts days: the
\* watermark is taken at the end of a run and SINCE forgets its time, so mail
\* that arrived behind such a run's fetch is in no window.
IngestionUninterrupted ==
  LET Completed == {r \in RunIds : runStatus[r] = "completed"} IN
  (\A r \in Completed :
     hist[r].whole /\ Day(finishedAt[r], 0) <= Day(hist[r].began, ServerZone))
  => \A r \in Completed, m \in Messages :
       arrived[m] # 0 /\ Day(arrived[m], ServerZone) >= hist[r].since =>
         \/ \E q \in RunIds : m \in hist[q].fetched
         \/ \E q \in Completed : AccountOf[m] \in hist[q].failed
         \/ UnreadOnly /\ m \in seen
         \/ \A w \in LastSuccess : Day(arrived[m], ServerZone) >= Day(w, 0)

\* What the ledger says is never revised: a finished run keeps its status and
\* finish time, a processed message the run and label first recorded, and no
\* flag or digest record goes away.
LedgerAppendOnly ==
  [][/\ \A r \in RunIds : runStatus[r] \in Final =>
          runStatus'[r] = runStatus[r] /\ finishedAt'[r] = finishedAt[r]
     /\ \A m \in Messages : processed[m].run # 0 => processed'[m] = processed[m]
     /\ flagRecords \subseteq flagRecords'
     /\ \A r \in RunIds : digests[r] \subseteq digests'[r]]_ledger

RecordedDryRuns == {r \in RunIds : runStatus[r] # "none" /\ hist[r].opts.dryRun}
Claims == [m \in Messages |-> processed[m].run]

Promise == INSTANCE RunLedger WITH
  Runs <- RunIds, NoRun <- 0, Finals <- Final, Failures <- {"degraded", "ingest_failed"},
  status <- runStatus, told <- delivered, dry <- RecordedDryRuns, claim <- Claims

\* The processes together keep the protocol of the ledger: runs open and close
\* once, messages are claimed once, after delivery, by an open run, and a failed
\* run has claimed none.
ImplementsRunLedger == Promise!Spec

\* A keyword is recorded only by an open run, with the label that run gave the
\* message, and only after its digest was accepted (or it was dry): a run whose
\* delivery failed leaves no flag record behind, although it set its keywords
\* before it tried to deliver.
FlagRecordsFollowDelivery ==
  [][\A m \in Messages, k \in Labels : <<m, k>> \in flagRecords' \ flagRecords =>
       \E p \in Procs :
         LET r == job[p].run IN
         /\ r # 0 /\ runStatus[r] = "running" /\ job[p].label[m] = k
         /\ r \in delivered \/ hist[r].opts.dryRun]_flagRecords

\* The ledger claims a keyword only if it was applied.  The code breaks this
\* when a keyword write fails, and in every dry run: recordFlags does not know
\* what ApplyFlags achieved, nor whether it was called.
FlagRecordsTruthful == flagRecords \subseteq keywords

\* The same without excusing failed accounts: a run that could not fetch an
\* account is partial at best, so it never moves the watermark past the mail it
\* did not see.  The code breaks this when the other accounts had nothing new.
CompletedCoversFailedAccounts ==
  MaxMessages = 0 =>
    \A r \in RunIds : runStatus[r] = "completed" /\ ~hist[r].opts.dryRun =>
      \A m \in hist[r].due : Reported(m) \/ (UnreadOnly /\ m \in seen)

\* A run interrupted by a signal has its final status in the ledger when the
\* process exits.  The code hands FinishRun the context the signal cancelled.
CancelledRunIsClosed ==
  \A p \in Procs :
    /\ pc[p] = "exited" /\ cancelled[p] /\ job[p].run # 0
    /\ ~job[p].opts.stateless
    => runStatus[job[p].run] # "running"
=============================================================================
