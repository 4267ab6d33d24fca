------------------------------- MODULE Store --------------------------------
(***************************************************************************)
(* The queries of the ledger that depend on time, in both implementations  *)
(* of store.Store.                                                         *)
(*                                                                         *)
(* SQLite keeps instants as text (formatTime: RFC 3339, UTC, the trailing  *)
(* zeros of the fraction dropped) and orders and compares the text; the    *)
(* in-memory NoopStore compares the instants.  Both are modelled over one  *)
(* table of runs: Sqlite... and Noop... operators answer the same query,   *)
(* and the properties say how far the answers can be trusted.              *)
(*                                                                         *)
(* GetPreviousRunDigestSummary reads the finish time of the asking run and *)
(* selects a summary in two queries without a transaction, and other       *)
(* processes write between them.  The other calls are one statement or one *)
(* transaction, hence one action.  What a summary says, and so the tables  *)
(* of its counts, is left out: here it matters which run it is of.         *)
(***************************************************************************)
EXTENDS Integers, Sequences, FiniteSets

CONSTANTS
  MaxRuns,   \* bound: runs recorded
  MaxClock,  \* bound: the clock, in the smallest unit of time
  Base,      \* digits of the fraction are 0..Base-1 (10 in the code)
  Fraction   \* digits of the fraction (9 in the code)

ASSUME StoreAssumption ==
  /\ MaxRuns \in Nat /\ MaxClock \in Nat
  /\ Base \in Nat \ {0, 1} /\ Fraction \in Nat

Power[i \in 0..Fraction] == IF i = 0 THEN 1 ELSE Base * Power[i - 1]
PerSecond == Power[Fraction]

RunIds == 1..MaxRuns
NoRun  == 0
Null   == -1   \* a time column that is NULL

-----------------------------------------------------------------------------
(* Time as text *)

Second(t) == t \div PerSecond
Digit(t, i) == (t \div Power[Fraction - i]) % Base

\* RFC3339Nano: the second, then the digits up to the last that is not zero.
Significant(t) == {i \in 1..Fraction : \E k \in i..Fraction : Digit(t, k) # 0}
\* Rounded instead of cut.
formatTimeOffset(t) ==
  <<Second(t + PerSecond \div 2)>> \o [i \in 1..Cardinality(Significant(t)) |-> Digit(t, i)]
formatTime(t) ==
  <<Second(t)>> \o [i \in 1..Cardinality(Significant(t)) |-> Digit(t, i)]

parseTime(s) ==
  LET value[i \in 0..Fraction] ==
        IF i = 0 THEN s[1]
        ELSE value[i - 1] * Base + (IF i < Len(s) THEN s[i + 1] ELSE 0)
  IN  value[Fraction]

\* What is read back of an instant that was written.
Instants == 0..MaxClock
Reread == [t \in Instants |-> parseTime(formatTime(t))]

\* Where a text ends it has a "Z", which sorts after the digits (and after the
\* "." in front of them).
Char(s, i) == IF i > Len(s) THEN Base ELSE s[i]
TextBefore(s, u) ==
  \E i \in 1..Fraction + 1 :
    Char(s, i) < Char(u, i) /\ \A k \in 1..i - 1 : Char(s, k) = Char(u, k)

\* The instants whose texts SQLite puts in this order.
TextOrder ==
  {p \in Instants \X Instants : TextBefore(formatTime(p[1]), formatTime(p[2]))}
Before(t1, t2) == <<t1, t2>> \in TextOrder

-----------------------------------------------------------------------------
VARIABLES
  clock,
  recorded,    \* number of runs in the table; run r was inserted r-th
  finishedAt,  \* of each run, Null while it runs
  status,      \* of each run
  header,      \* runs with a row in run_digest_summaries
  query        \* the GetPreviousRunDigestSummary call in progress

vars == <<clock, recorded, finishedAt, status, header, query>>

Status == {"none", "running", "completed", "degraded"}

\* stage: the next query; found: the run selected.
Query == [stage: {"idle", "select", "answered"}, asker: RunIds \cup {NoRun},
          cutoff: Instants, found: RunIds \cup {NoRun}]
Idle == [stage |-> "idle", asker |-> NoRun, cutoff |-> 0, found |-> NoRun]

TypeOK ==
  /\ clock \in Instants /\ recorded \in 0..MaxRuns
  /\ finishedAt \in [RunIds -> Instants \cup {Null}]
  /\ status \in [RunIds -> Status]
  /\ \A r \in RunIds : finishedAt[r] = Null <=> status[r] \in {"none", "running"}
  /\ header \subseteq RunIds
  /\ query \in Query

Init ==
  /\ clock = 0 /\ recorded = 0
  /\ finishedAt = [r \in RunIds |-> Null]
  /\ status = [r \in RunIds |-> "none"]
  /\ header = {} /\ query = Idle

Runs == 1..recorded
Finished(r) == finishedAt[r] # Null

Completed == {r \in RunIds : status[r] = "completed" /\ Finished(r)}

-----------------------------------------------------------------------------
(* Queries that are one statement *)

\* ORDER BY finished_at DESC LIMIT 1: nothing sorts after it.  Of equal texts
\* SQLite may return any; they are the same instant.
LastByText(rs) == {r \in rs : \A q \in rs : ~Before(finishedAt[r], finishedAt[q])}
LastByTime(rs) == {r \in rs : \A q \in rs : finishedAt[q] <= finishedAt[r]}

\* GetLastSuccessfulRunTime: the run whose time is returned.
SqliteLastSuccess == LastByText(Completed)
NoopLastSuccess   == LastByTime(Completed)

\* The selection of GetPreviousRunDigestSummary, among the saved summaries of
\* completed runs.
SqliteUpTo(cutoff) ==
  LastByText({r \in Completed \cap header : ~Before(cutoff, finishedAt[r])})
\* The summary of the last run, if it has one.
SqliteLastOnly(cutoff) ==
  LastByText({r \in Completed : Before(finishedAt[r], cutoff)}) \cap header
SqliteBefore(cutoff) ==
  LastByText({r \in Completed \cap header : Before(finishedAt[r], cutoff)})

\* The in-memory store answers for a finished run only.
NoopPrevious(r) ==
  LastByTime({q \in Completed \cap header : Finished(r) /\ finishedAt[q] < finishedAt[r]})

-----------------------------------------------------------------------------
(* Calls that write *)

Tick ==
  /\ clock < MaxClock /\ clock' = clock + 1
  /\ UNCHANGED <<recorded, finishedAt, status, header, query>>

RecordRun ==
  /\ recorded < MaxRuns /\ recorded' = recorded + 1
  /\ status' = [status EXCEPT ![recorded + 1] = "running"]
  /\ UNCHANGED <<clock, finishedAt, header, query>>

\* The status without the time.
FinishRunUntimed(r, s) ==
  /\ ~Finished(r) /\ query.asker # r
  /\ status' = [status EXCEPT ![r] = s]
  /\ UNCHANGED <<clock, recorded, finishedAt, header, query>>

\* The pipeline finishes a run once, and not while it waits for the answer to a
\* question about it.  "degraded" stands for every other status.
FinishRun(r, s) ==
  /\ ~Finished(r) /\ query.asker # r
  /\ finishedAt' = [finishedAt EXCEPT ![r] = clock]
  /\ status' = [status EXCEPT ![r] = s]
  /\ UNCHANGED <<clock, recorded, header, query>>

\* The upsert of the summary's header: one row for each run, a later save
\* replaces it.
SaveRunDigestSummary(r) ==
  /\ header' = header \cup {r}
  /\ UNCHANGED <<clock, recorded, finishedAt, status, query>>

-----------------------------------------------------------------------------
(* GetPreviousRunDigestSummary *)

\* The finish time of the asking run, or now while it is running.
Cutoff(r) == IF Finished(r) THEN Reread[finishedAt[r]] ELSE clock

AskPrevious(r) ==
  /\ query.stage = "idle"
  /\ query' = [Idle EXCEPT !.stage = "select", !.asker = r, !.cutoff = Cutoff(r)]
  /\ UNCHANGED <<clock, recorded, finishedAt, status, header>>

SelectSummary ==
  /\ query.stage = "select"
  /\ \/ /\ SqliteBefore(query.cutoff) = {}
        /\ query' = [query EXCEPT !.stage = "answered"]
     \/ \E r \in SqliteBefore(query.cutoff) :
          query' = [query EXCEPT !.stage = "answered", !.found = r]
  /\ UNCHANGED <<clock, recorded, finishedAt, status, header>>

\* The counts of the summary are loaded, and the call returns.
Return ==
  /\ query.stage = "answered" /\ query' = Idle
  /\ UNCHANGED <<clock, recorded, finishedAt, status, header>>

Next ==
  \/ Tick \/ RecordRun
  \/ \E r \in Runs :
       \/ FinishRun(r, "completed") \/ FinishRun(r, "degraded")
       \/ SaveRunDigestSummary(r) \/ AskPrevious(r)
  \/ SelectSummary \/ Return

Spec == Init /\ [][Next]_vars

-----------------------------------------------------------------------------
(* Properties *)

\* Although SQLite orders texts whose lengths differ, the run it takes the
\* watermark from finished in the same second as the last successful run: the
\* error stays below a second, and so within what SINCE can tell apart.
WatermarkWithinSecond ==
  /\ SqliteLastSuccess = {} <=> NoopLastSuccess = {}
  /\ \A r \in SqliteLastSuccess, q \in NoopLastSuccess :
       Second(Reread[finishedAt[r]]) = Second(finishedAt[q])

\* The summary a run compares itself with is never its own and never one of a
\* later second, even while it is running and others finish meanwhile.
PreviousIsPrior ==
  query.found # NoRun =>
    /\ query.found # query.asker /\ status[query.found] = "completed"
    /\ Second(finishedAt[query.found]) <= Second(query.cutoff)

\* Both implementations find the same predecessor of a finished run, up to the
\* second: SQLite skips no run of an earlier second.
BackendsAgree ==
  \A r \in RunIds : Finished(r) =>
    \A q \in NoopPrevious(r) : Second(finishedAt[q]) < Second(finishedAt[r]) =>
      /\ SqliteBefore(finishedAt[r]) # {}
      /\ \A s \in SqliteBefore(finishedAt[r]) :
           Second(finishedAt[s]) \in {Second(finishedAt[q]), Second(finishedAt[r])}
=============================================================================
