# Formal verification of emailer

`emailer` is started by a timer (or by hand), runs one pipeline over the
configured IMAP accounts and exits:

    timer -> main -> Run:  record the run -> window from the last successful run
                           -> fetch all accounts -> drop processed messages
                           -> classify (LLM) -> render -> set IMAP keywords
                           -> send to Telegram -> record digest, messages, flags
                           -> finish the run -> exit

What persists between runs is outside the process: the SQLite ledger, the
mailboxes with their keywords, the Telegram chat. Nothing makes a step on one of
them atomic with a step on another. Most of what could go wrong is about that,
and it is what this project models.

## Inventory

| Component | State | Operations | Hard behaviour | What makes it correct |
|---|---|---|---|---|
| `internal/orchestrator` | the run's `Result`, local variables of `Run` | `Run` and its helpers | crash, signal or failure between any two calls; two processes; status overwritten from step to step | rows after delivery; failed runs leave none; a completed run has reported what was due |
| `internal/store` (SQLite) | runs, processed messages, flags, digests, digest summaries | one transaction per call | every call can fail; cancelled context; timestamps compared as text | append-only; the records are true |
| `internal/store` (Noop) | maps of one process | the same calls | forgets at exit | a stateless run leaves no trace |
| `internal/mail` client and pool | one connection per account, worker slots | `FetchAll`, `Fetch`, `ApplyFlags`, `withReconnect` | broken connections, retries, keywords the server refuses, partial stores | success means every message exactly once, every permitted keyword stored |
| `internal/llm` parser, orchestrator's partial fallback | valid, failed, errors of one call | `ParseResponse`, `repairOnce`, merge | mixed, duplicate, missing and unrequested items; failing repair; errors attached by position | each message labelled or failed, valid labels kept, each failure has its own error |
| `internal/llm` providers | none | `Classify` | transport errors, rejected answers | |
| `internal/notify/telegram` | loop variable, context | `Send` | answers lost after acceptance, cancellation racing a timer | nil means delivered; bounded copies; no attempt left unused in an outage |
| schema migrations of the ledger | version, dirty mark, tables | `runMigrations` | two first starts at once, a kill between two transactions | an open store has every table |
| `internal/digest`, data shaping in `internal/orchestrator` | none | `buildDigestDataPartial`, statistics, highlights, two renderers | shared keys, the cap hides messages | hides nothing more urgent than it shows; numbers and highlights agree with the list |
| `internal/config` | none | layers, normalisation, `Validate` | accounts of three layers in one list; completed only through a shared slice | every account is served |
| `internal/shutdown`, `cmd/emailer` | signal-aware context, connections, store | start, exit | failure after each resource; the context of every call dies at once | everything released; a run has the ledger it needs |
| `internal/log`, prompts, sanitising | none | pure functions | | |

Components interact through calls of `Run` only: `Run` calls the store with the
signal-aware context, `FetchAll` with the clients main has connected, the provider,
the renderers and the channel, one after the other. Only `FetchAll` starts
goroutines; processes are concurrent with each other. The hazards, each at its
line and with the properties that watch it, are listed in `PROJECT.json`.

## Modules

| Module | Models | Builds on |
|---|---|---|
| `Pipeline` | `Run`, the ledger, the mailboxes, the chat, start, signals, crash, exit | `ClassifyContract` |
| `RunLedger` | what the rest may rely on about runs and recorded messages; `Pipeline` implements it | |
| `ClassifyContract` | the results of one classification request | |
| `ClassifyCall` | that request as one abstract step | `ClassifyContract` |
| `Classify` | `classifyWithPartialFallback`, `ParseResponse`, `repairOnce`; implements `ClassifyCall` | `ClassifyContract` |
| `IngestCall` | each account's fetch and flagging as one abstract step | |
| `Ingest` | `FetchAll`, `Fetch`, `withReconnect`, `ApplyFlags`; implements `IngestCall` | |
| `ChannelSend` | one call of a notification channel as one abstract step | |
| `Telegram` | `telegram.Channel.Send`; implements `ChannelSend` | |
| `Store` | the store's queries that depend on time, SQLite and in-memory | |
| `Digest` | entries, statistics, highlights, both renderers | `ClassifyContract` |
| `Schema` | opening and migrating the ledger file, by several processes | |
| `Startup` | `run()` of main: configuration, resources, exit code | `Schema` |
| `PipelineProofs` | when the pipeline writes: types, the inductive invariant, the refinement | `Pipeline` |
| `PipelineHistory` | what the written records mean | `PipelineProofs` |
| `ClassifyProofs`, `IngestProofs`, `TelegramProofs`, `StoreProofs`, `DigestProofs` | theorems about the module of that name | that module |
| `StartupProofs` | theorems about `Schema` and `Startup` | `Startup` |
| `MCPipeline`, `MCClassify`, `MCIngest`, `MCDigest`, `MCStartup` | constants of the configurations | |

### Pipeline

A process is launched by `RecordRun` (or stops at `StartFails`, which stands for
everything that ends main before the run exists) and goes through `pc`:
`window, fetch, classify, render, flag, send, sent | unsent, messages, flags, finish,
exited`. Each action is one call of `Run` that leaves the process, together with
all the computation up to the next one. `job` holds the local variables of `Run`;
`Crash` loses them. `ledger` is the database, `world` the rest. `hist` is read by
properties only: what a run was due to report, which accounts failed, whether it
could consult the ledger.

- Early returns (`ingest_failed`, "no new messages", failed rendering, failed
  delivery) jump to `finish` with the status of the code; `Graded` and `Outcome` are
  the assignments to `Result.Status` in their order.
- A store call fails when the context is cancelled or with the fault `"store"`; the
  pipeline's reaction (return, log and go on, do not filter) is the action's.
- A stateless process uses the in-memory store: its calls do not fail and leave
  `ledger` unchanged.
- `SINCE` compares calendar days, and three calendars take part: the watermark is read
  from the ledger in UTC, `now` in the host's zone, and the server counts arrival days
  in its own. `Day(t, zone)` is that day; `HostZone` and `ServerZone` are the offsets.
  `job.since` is the day the command names.
- The process reads the clock at two places, for the window and for the finish time,
  and the world moves between them.
- Fetching one account and flagging one account are single steps here; `Ingest` shows
  they are (its `ImplementsCall`), also once the context is done. Sending is one step;
  `Telegram` shows it is one (`ImplementsChannel`). Classification is one step;
  `Classify` shows it is one (`ImplementsCall`). `Pipeline` uses the very operator
  `Results` that `Classify` is checked against. `ClassifyContract.Results` lets an
  answer leave requested messages out or classify others, as the code does: it
  validates items, not completeness.

### Classify

One behaviour is one call: `Ask`, `Parse`, `Repair`, `Reparse`, with the failures of
each. An item of an answer is a key, a label (possibly unlisted) and whether its other
fields are sound. A blank and an unusable document are answers of their own.
`LenientProvider` is TRUE for a provider that hands over invalid answers; the four
providers of the repository do not (they return an error). The orchestrator is written
for lenient ones, so `classify` checks that case; its state space contains the strict
one, since `AskRejected` is always possible.

A request is a sequence of keys, because two messages can share one. The code builds
the errors in a loop over the request before the repair (`Parse`), the failed
classifications in another loop after it (`GiveUp`), or both anew (`Reparse`), and
`buildDigestDataPartial` later matches them by position. Each of the lists is in the
order of the request, so `errors` and `failed` are kept as the places of the request
they were made for, as two variables that different actions assign;
`ErrorsExplainFailures` is about the k-th element of each.

### Ingest

One action per command or decision of a client: `Launch` (worker slot), the folder
loop, connect, try, reconnect, retry; then `ApplyFlags` account by account with one
step per keyword. Fetching a folder is two steps, the headers of what SEARCH found and
the bodies, and the connection can break before, between and behind them; `part` is
the `folderMessages` that the closure given to `withReconnect` assigns, and that the
second attempt finds as the first one left it. `conn` distinguishes no client,
connected but not logged in (a failed login after a reconnect leaves that), live, and
broken but not noticed. `isConnectionError` works on texts; whether it recognises an
error is a choice. Return of `Fetch` resets its variables.

`IngestCall` is what `Pipeline` takes from it: the messages of an account appear all at
once or not at all, no account is flagged before every one has answered, and flagging
stores only what was asked for, something if it reports success. In the refinement
mapping the messages of an account are hidden until its `Fetch` has reported success
(`FlattenMessages` drops the rest), its keywords until `ApplyFlags` has returned.

### Telegram

One action per request and pause. A request that fails may have been accepted.

### RunLedger

The life of a run and of the rows it writes, in four actions: `Open`, `Deliver`,
`Claim`, `Close`. `Pipeline` refines it by a state function for each variable: the
status column, the runs Telegram accepted a digest of, the dry runs, and the run
column of `processed_messages`. Every other step of the pipeline is a stutter.

### Store

An instant is a number of the smallest units; its text (`formatTime`) is the second
followed by the digits of the fraction up to the last that is not zero, as
`RFC3339Nano` writes it. `TextBefore` is the order SQLite puts the texts in: where one
text ends, the other goes on, and a "Z" sorts after every digit. `SqliteBefore`,
`SqliteLastSuccess` use that order, `NoopPrevious`, `NoopLastSuccess` the instants.
`GetPreviousRunDigestSummary` is a reader with a stage for each of its two queries by
time (the finish time of the asker, the selection), interleaved with `RecordRun`,
`FinishRun` and `SaveRunDigestSummary`, each one statement or one transaction. What a
summary contains is left out, and with it the three tables of counts. The unit is 1/4
second here, two binary digits.

### Digest

One behaviour is one batch: `Build` computes the entries, the statistics and the
highlights, then `RenderMarkdown` or `RenderFallback` selects, sorts, caps and groups.
The initial states hold every result `ClassifyContract` allows, or an error, so the
module composes with `Classify` through the same operator as `Pipeline`. Messages
are places in the batch, since two of them may share a key. An entry says whether it
has an analysis error; that it is the right one is a property of `Classify`.

Filters and stable sorts are both written with `Arranged`: element number i of the
result is the one that i - 1 others come before. `SelectSeq` and `SortSeq` would say the
same, but tlapm does not look into them.

### Schema and Startup

`Schema` has the three transactions of each migration (`MarkDirty`, `Apply`,
`MarkClean`), with the version read once (`Up`), and `LetGo` for everything that ends
a process's use of the file: its close, an error such as a lock (no busy timeout is
set) or a kill. golang-migrate is not part of the repository: its part is modelled
from how `runMigrations` uses it and marked external.

`Startup` runs `Schema`'s actions inside `run()` of main, between validation and the
dialling of the accounts. A layer of the configuration sets switches or leaves them
and may contribute accounts: a file replaces the list, the environment and the
command line append one complete account each. `Validate` is called with a copy of
the `Config`, and completes the accounts of a file only through the slice the copy
shares (`Validated`). Settings that are checked one by one are a nondeterministic
refusal (`ValidateRefuses`). Each resource has a step for success and for failure,
with what that failure releases; the deferred clean-up is registered only after the
last login. `Run` is the whole of `Pipeline`.

## Runs

| Run | Question | Bounds | Result |
|---|---|---|---|
| `pipeline_ledger` | is what the ledger says of messages and digests true through crashes, signals, failures? | 1 process at a time, 2 runs, 2 messages, 1 account | holds, 5.2 million states |
| `pipeline_watermark` | does a completed run cover what was due, and do windows leave a gap? | 2 runs, clock to 4, days of 2 ticks, server a tick west of UTC, window capped at 2, 2 accounts, 2 messages, unread only | holds, 5.1 million states |
| `pipeline_overlap` | and with two processes at once? is nothing revised, is a keyword recorded only after delivery, do they keep `RunLedger`? | 2 processes, 2 runs, 1 message, every kind of run | holds, 4.6 million states |
| `classify` | does the call implement its contract? | 3 messages in requests of up to 3 places, 3 items per answer, repair on and off | holds, 730,000 states |
| `ingest` | are success reports true, does the work end, and is it one step per call to the pipeline? | 2 accounts (one with an empty folder), 1 slot, 2 keywords, every fault | holds, 1 million states |
| `telegram` | does `Send` implement a channel? | the code's 3 attempts | holds, 106 states |
| `store` | can answers that depend on time as text be trusted? | 3 runs, 2 seconds of 4 units | holds, 670,000 states |
| `digest` | does the digest agree with the batch? | 3 messages, 2 accounts, cap 0 to 2, filter on and off | holds, 765,000 states |
| `startup` | does a run get its ledger and its accounts, and is all released? | 2 processes, 4 starts, 2 migrations, 3 files, 2 environments, 3 command lines | holds, 470,000 states |
| `pipeline_cancel` | is a signalled run closed? | | violated |
| `pipeline_partial_ingest` | does a run with a failed account leave its mail to the next? | | violated |
| `pipeline_flag_records` | was every recorded keyword applied? | 1 run, 2 messages, keyword writes that fail | violated |

Why these bounds suffice: a defect of the ledger needs a run that leaves something
wrong and a second that reads it; `NoRedelivery` and `LedgerAppendOnly` need an
earlier and a later run, never a third. Two messages tell "all" from "some"; two
accounts tell "failed" from "all failed". In `classify` three items suffice to have a
valid item, an invalid one and a repetition in one answer, and three places to have a
key twice around another one. In `ingest` one slot for two accounts makes the second
one wait, and two folders make success of one and failure of the other possible. In
`pipeline_watermark` four ticks in days of two let a run begin in one day and end in
the next, and the message of either account arrive before, between and behind the two
fetches. In `store` two digits give texts of three lengths, two seconds tell "within a
second" from "any time", and three runs are an asker, a predecessor and one that
finishes in between. In `digest` a cap of 1 and 2 below a batch of 3 makes each of
them hide something; `TopLimit` and `BurstSize` are 1 and 2 instead of 5 and 3, so
that both limits are met. In `startup` two of the five migrations tell "the first
applied" from "all"; the third process that would meet what two left behind is one of
the two, started again. The theorems below do without bounds; they alone cover, in
`Pipeline`, a capped digest and answers that classify messages of other requests (the
fault `"extra"`).

The bounds themselves are `MaxRuns` and `MaxClock` in `Pipeline` and `Store` (guards
of `RecordRun` and `Tick`), `MaxItems` in `Classify`, `MaxStarts` in `Startup`. In
`Pipeline` a process that finds no run left can still take `StartFails` and exit, so
there is no artificial deadlock. `classify`, `ingest`, `telegram` and `digest` model
one call and stop when it has returned, `store` and `startup` stop at their bounds;
their configurations switch the deadlock check off. Symmetry is used in
`pipeline_ledger`, `pipeline_overlap`, `classify` and `startup`, none of which checks
a liveness property.

Fairness: `Ingest` and `Telegram` have weak fairness of the client's own steps, never
of the network's or of a signal. Every command and request they wait for is bounded by
`imap.timeout`, the HTTP client's timeout or a timer. Two exceptions exist in the code:
`Dial` has no deadline and `imap.timeout: 0` switches the other IMAP timeouts off.
`Pipeline` needs none: its properties are of safety, and its process, between calls
that return, is a straight line.

### What the properties need

- `NoRedelivery` is for runs that do not overlap: two processes that both read the
  ledger before either writes it deliver the same message twice, so
  `pipeline_overlap` does not state it.
- `FlagRecordsFollowDelivery` is what the code does guarantee of keyword records: they
  follow the delivery. That the keyword was applied, it does not (`FlagRecordsTruthful`
  fails).
- `RecordedWasShown` and `CompletedCoversDue` are stated for an uncapped digest:
  with `max_messages` the messages a digest leaves out are recorded too. The same
  holds for `priority_only`, which the model leaves off.
- `IngestionUninterrupted` speaks of runs whose window starts at the watermark. A
  `--window` run, or one after a pause longer than `MaxWindow`, does leave a gap
  (`History.whole` excuses it), and so does a run that ends on a later day, as UTC
  counts them, than the one on which the server saw it begin: the watermark is the
  time a run ended, not the time it looked.
- `WatermarkWithinSecond`, `PreviousIsPrior` and `BackendsAgree` are about seconds
  because within one they fail: the text of a whole second sorts behind the texts of
  its fractions.
- `AllAttemptsUsed` is about transient errors, the only ones that are to be retried.
  That the code retries others too is described below.
- `ShowsMostUrgent` is about the markdown renderer. The fallback renderer caps without
  sorting; its entries have no priorities, so only recency is lost.
- `DirtyHasCause` says that starting at the same time does no harm by itself, not
  that a dirty version is impossible.
- `CompletedCoversDue` excuses failed accounts; `CompletedCoversFailedAccounts` does
  not, and fails.

## What is proved

Each theorem holds for every value of the constants that the module's assumption
allows; the assumptions say of which type the constants are and are evaluated by TLC
in the runs. What goes beyond types: no configured label is called `Unknown` or
`none`, the reserved names of `ClassifyContract`; an account has a folder (`normalize`
gives it INBOX); there is a migration; `Digest` has finitely many messages and labels,
and the label of its highlight, "Ads", is one of them (it is a default label,
`classification.go:9`).

### Pipeline

| Theorem | Property |
|---|---|
| `PipelineProofs.InductiveInvariant` | `IInv` |
| `PipelineProofs.TypeCorrect` | `TypeOK` |
| `PipelineProofs.RecordedOnlyAfterDelivery` | `RecordedAfterDelivery` |
| `PipelineProofs.FailedRunsLeaveNoRow` | `FailedRunsRecordNothing` |
| `PipelineProofs.LedgerOnlyGrows` | `LedgerAppendOnly` |
| `PipelineProofs.FlagsRecordedAfterDelivery` | `FlagRecordsFollowDelivery` |
| `PipelineProofs.PipelineKeepsProtocol` | `ImplementsRunLedger` |
| `PipelineHistory.DigestRecordsAreTrue` | `DigestRecordsTruthful` |
| `PipelineHistory.RecordedMessagesWereShown` | `RecordedWasShown` |
| `PipelineHistory.CompletedRunsAccountForTheirWindow` | `CompletedCoversDue` |
| `PipelineHistory.WindowsLeaveNoGap` | `IngestionUninterrupted`, if `HostZone` is at most `DefaultWindow` and `MaxWindow` |
| `PipelineHistory.SerialRunsNeverRedeliver` | `NoRedelivery`, as long as `NoOverlap` |

The properties are not inductive by themselves: that a row is written after delivery
depends on where the writer is. `IInv` adds, for each running process, that it owns an
open run nobody else works on (`Owns`, `OwnRuns`), that run numbers not yet handed out
left no trace (`UnusedRuns`), and how far each stage may have gone (`Disciplined`: no
row before `messages`; a row only if delivered or dry; no row for a run whose status is
already a failure). Each action has a lemma that it keeps `IInv`; three lemmas
(`WorkStep`, `QuietStep`, `LeavingStep`) reduce an action of one process to that
process, since the others work on other runs. `IInv` was checked with TLC on the
bounds of `pipeline_overlap` first.

The refinement follows from the same invariant: `OpenMaps`, `DeliveryMaps`,
`ClaimMaps` and `CloseMaps` show that the four kinds of action that change what
`RunLedger` sees are steps of it, with their guards taken from `IInv` (a claim is for
a delivered or dry run because of `Disciplined`; a failed run closes without claims
because nothing was recorded before `messages`), and `OptionsNeverChange` that
whether a run is dry is settled when it is opened.

`PipelineHistory` adds one predicate per theorem about the process that moves, by the
stage it has reached; lemma `StepEffect` says once that its step touches no other
run's records, so that the predicates of the others stay.

- `Reporting` (digest records, shown messages): what the process has shown and noted
  so far. `Accounted` and `Undisturbed` build on it.
- `Accounted`: at every stage each message that was due is still in the batch, shown,
  recorded by a dry run, or excused by a failed account or an unread-only fetch after
  the user read it. `Outcome` makes a run completed only past that.
- `Attended`: the same for everything since the start of the window, and that the
  window starts no later than the watermark the run will leave. For that `HostZone`
  must not exceed the lookbacks: `now` less the lookback, in the host's zone, must not
  be on a later day than `now` in UTC. The code's 24h and 72h are longer than any
  offset from UTC.
- `Undisturbed`: what the filter let through is unrecorded until its own run records
  it. Only this needs `NoOverlap`: two runs that overlap do redeliver.

### Classification, ingestion, channel

`ClassifyProofs`: `TypeCorrect`, `ErrorsAreAboutFailures` (`ErrorsExplainFailures`),
`ValidStaysValid` (`RepairKeepsValid`) and `CallImplementsContract` (`ImplementsCall`),
for any set of messages and labels and any length of answers. The invariant says at
each stage which answers may be at hand, that nothing is settled before the first was
parsed, and that a repair is only asked for when a lenient provider left something
missing. For the errors it says that, until the repair has been answered, they are
about exactly the places without a valid classification, which is where the second loop
will put the failures: neither loop runs over anything but the request, so equal sets
of places are equal lists of keys.

`IngestProofs`: `TypeCorrect` (which contains the bound on the workers),
`FetchIsCompleteOrFails` (`CompleteOrFailed`) and `FlagsAreTruthful`
(`FlagsTruthful`), for any number of accounts, folders, messages, keywords and slots.
An account that reports success got each message once although its folders were tried
again: the invariant counts the messages of the folders before the one at hand
(`Counted`), unless one was missed; what an attempt returns replaces `part`
(`Assign`), so that the second one adds nothing to what the first had collected. For
the flags it says that what was tried without an error in this attempt is stored
(`Flagging`). `LocalStep` reduces a step to the account it belongs to; `FailStep` and
`ConnectionStep` cover all the ways of `withReconnect`. `IngestImplementsCall`
(`ImplementsCall`) needs besides that an account has answered before flags are applied
and that what is stored was asked for (`Settled`); `StepSeen` sorts the steps into
those the caller sees, a result of a fetch or of flagging, and all others.

`TelegramProofs` proves for every number of attempts `SendImplementsChannel` (the
refinement), `CancelStopsRequests` and `GivesUpOnlyAfterAllAttempts`, from an
invariant that bounds the copies by the attempts begun.

So the three refinements the pipeline relies on are theorems: a classification, a
delivery and, per account, a fetch and a flagging are one step each.

### Store

`StoreProofs`: `TypeCorrect`, `WatermarkIsRight` (`WatermarkWithinSecond`),
`PreviousRunIsPrior` (`PreviousIsPrior`) and `BackendsFindTheSame` (`BackendsAgree`),
for texts with any number of digits of any base, the code's nine decimal ones among
them.

- `ReadingUndoesWriting`: `parseTime(formatTime(t)) = t`. `parseTime` is recursive, so
  this is an induction over the digits. The library's induction theorems have an
  operator for a parameter, which the provers cannot instantiate; `Induction` and
  `Recursion` are stated with sets and functions instead and follow from the least
  element of a set of naturals (`Least`, from `WFMin`). `Power` is a recursive function
  for the same reason: the provers know nothing of `^`.
- The order of the texts is a strict order (`Irreflexive`, `Transitive`) that agrees
  with time between different seconds (`EarlierSecond`, `BeforeSecond`), and any finite
  set of runs has a last one in it (`LastByTextExists`).
- The invariant `Inv` adds what the reader's answer depends on: the asker's finish time
  does not change while it waits (`Asking`), and what it found was in time before it
  (`Answering`).

### Schema and start

`StartupProofs` first proves of `Schema`, for any number of processes and migrations,
`OpenStoresAreComplete` (`OpenHasTables`) and `DirtyVersionsAreExplained`
(`DirtyHasCause`). Neither is inductive: that a process which cleans the last version
has all tables depends on the version it read at its start, which another process
wrote. `SchemaInv` adds that a clean version has its tables (`CleanIsApplied`), that
the migrations before the one a process is at are applied, by whichever process
(`ProgressIsApplied`), and that a dirty version has somebody halfway or an
interruption (`DirtyIsExplained`).

Of `Startup` it proves `StartupKeepsSchema`, that every behaviour of the processes is
one of `Schema`, so that its invariant holds in the composition, and from it
`RunsHaveTheirLedger` (`RunHasLedger`) with `StageInv`: past validation a stateless
process fetches unread mail only, past the store a process is stateless or has the
file open. `AccountsAreServed` (`EveryAccountServed`) and `ProcessesLeaveNothingOpen`
(`LeavesNothingOpen`) come from an invariant that relates a process's stage to its
connections: how many it has, for which places of the list, and which of them have a
client and a label.

### Digest

`DigestProofs`: `InvariantHolds` (`Inv`), `MostUrgentIsShown` (`ShowsMostUrgent`),
`SectionsAreComplete` (`SectionsHoldShown`), `NumbersAddUp` (`CountsAddUp`) and
`HighlightsAreTrue` (`HighlightsTruthful`), for batches of any length with any shared
keys, any accounts, labels and senders, and any cap.

- The invariant is short, since what is computed depends on the inputs alone
  (`InputsKept`): the entries are those of the batch, each once, in some order
  (`Reordered`; sorting for the cap changes the data the renderer was given), and a
  markdown digest is the rendering of some such order. TLC checked it on the bounds of
  `digest`. The work is in the operators.
- `Arrangement`: a strict total order on finitely many places gives each place a rank
  of its own and leaves no rank out (`Ranks`), so `Arranged` lists each place once and
  in order. From it come what filters keep (`WhereHolds`) and that the stable sort is
  a sort (`SortHolds`); the order is total because equal entries go by their place
  (`AheadOrders`, `Before`).
- Entries carry their place, so no two are equal although keys may be. That is why a
  list of entries, filtered, sorted or cut, still has each once, and an entry is in
  one section at one position (`SectionsHold`).
- `SumIs`: a sum over a finite set is whatever satisfies its two equations.
  `SumFunction` is a recursive definition, and the induction over subsets it needs
  (`SubsetInduction`) is stated with sets, as those of `StoreProofs` are with functions.
  `CountsByClass` follows: the classes of a finite set add up to it, for accounts and
  for labels.
- `AttentionHolds`: an urgent message is missing under "Needs Attention" only if the
  cap hides it, and even then some urgent message is listed.

### Only model-checked

Liveness (`Terminates`, `Returns`), which TLAPS does not prove here.
Every safety property of a passing run is a theorem, under the hypotheses the tables
name.

## Where the code and its documentation differ

The three violated runs, with the quotes, are the findings of `PROJECT.json`:

- a run that a signal interrupts stays "running" (`pipeline_cancel`,
  `orchestrator.go:393`, `architecture.md:223`);
- a failed account is forgotten when the others have nothing new
  (`pipeline_partial_ingest`, `orchestrator.go:244`);
- `store.go:96`: a flag record says the keyword "was applied"; `recordFlags` records
  what the classification asked for, also where `ApplyFlags` failed and in dry runs
  (`pipeline_flag_records`, `orchestrator.go:372`).

In the models, and not runs of their own:

- `architecture.md:174` accepts the valid analyses of a mixed answer; each provider
  returns an error for an answer with one invalid item (`gemini.go:216` and its
  likes), so the whole batch fails (`AskRejected`).
- `README.md:66` isolates failures of single messages; one message whose body cannot
  be read fails its folder and its account, in every run (`client.go:307`;
  `BodyUnreadable` in `Ingest`).
- `telegram.go:6`, `telegram.go:133` and `architecture.md:211` retry only 429, 5xx and
  network errors; any other error is retried too, without a pause (`telegram.go:163`;
  `RequestFails`).
- `architecture.md:252` promises uninterrupted ingestion by dynamic watermarks. A run
  with a short `--window`, which `docs/troubleshooting.md:72` recommends, moves the
  watermark past mail nobody fetched (`orchestrator.go:413`).
- `orchestrator.go:763` says a message without classification "shouldn't happen";
  it does when an answer leaves a message out.
- The number of classified messages in a digest counts those the provider classified
  without being asked.
- With `priority_only` the fallback digest is empty, since none of its entries has a
  priority.
- `store.go:229` defines the previous summary by the order of run IDs; both stores
  use finish times, and for an asker that is still running SQLite uses now while the
  in-memory store answers nil.

Met while reading, and not in the models:

- A malformed `--window` is silently ignored.
- `config.go:100` says TLS is on by default; an account with an explicit port and no
  `use_tls` connects in plain text.
- The usage text lists configuration errors under the exit codes 1 and 2; they give 2.
- No busy timeout is set for SQLite, so two processes that write at once get an error
  rather than a wait; `AlreadyProcessed` has one `OR` term per message and fails beyond
  SQLite's limit on the depth of an expression.
- `orchestrator.go:47` says a dry run persists nothing; `Run` records its messages and
  flags unless it is stateless, as `docs/troubleshooting.md:177` says.
- `architecture.md:242` wants status `partial` when a flag write fails; `Run` only
  logs. `architecture.md:243` wants a non-zero exit when delivery fails; `degraded`
  exits 0. `architecture.md:237`, `:238` and `:240` speak of alerts; there are none.
- `architecture.md:172` and `:239` describe retries of the LLM call; there are none.
- `architecture.md:237` continues without a failed account; main aborts when one
  account cannot be dialled.
- A repair answer with one invalid item is dropped as a whole, and more than one
  repair attempt is never made, whatever `analysis_repair_max_attempts` says.
- Highlights compare with the previous digest summary; nothing saves one.
- Flags are applied in INBOX whatever folder a message came from, and message keys
  have no folder.

## Not modelled

- Logging, prompts, decoding and sanitising of mail: pure functions or text, without
  control state; their failures are in the models as the failure of the call.
- The digest's wording, truncation and domains (counted exactly as senders are).
- `GetRun`, `ListRuns`, `WaitForDrain`, `BoundedSemaphore`, `WaitGroupWithTimeout` and
  `GroupByAccount`, which nothing calls.
- The contents of digest summaries and their tables of counts: nothing saves a summary.
- The maps of messages, flags and digests in the in-memory store, which a run never
  reads back.
- The providers' HTTP details, the scan of `os.Args`, checks of single settings.
- Folders in message keys: flags always go to INBOX and a key has no folder, so with
  several folders keys collide. `Ingest` identifies a message by its place instead.
- A host that never answers a dial.

## Plan

What is open: message keys without folders in `Pipeline` and `Ingest`, which would show
what flagging by UID in INBOX does to messages of other folders.
