------------------------------- MODULE Digest --------------------------------
(***************************************************************************)
(* From the classified batch of a run to the digest that is sent:          *)
(* buildDigestDataPartial with its statistics and highlights, and the      *)
(* markdown and fallback renderers.                                        *)
(*                                                                         *)
(* What classifyWithPartialFallback returns is any result its contract     *)
(* allows, or an error.  Texts are left out: a digest is the entries it    *)
(* lists, section by section, and the numbers of its summary.              *)
(***************************************************************************)
EXTENDS ClassifyContract, Integers, SequencesExt

CONSTANTS
  Batches,    \* sequences of fetched message keys; folders may share a key
  AccountOf,  \* the account of each key
  Sender,     \* the sender of the message at each place (numbered by name), or NoSender
  Read,       \* whether the message at each place is read
  Dates,      \* dates of messages
  Priority,   \* priorities the provider may give, "" for none
  Caps,       \* values of digest.max_messages
  Snapshots,  \* summaries of the previous run, NoSnapshot among them
  NoSnapshot, NoDigest,
  NoSender,   \* the header has no address
  Promotions, \* the label whose increase is a highlight ("Ads")
  TopLimit,   \* bound: senders that are listed (5 in the code)
  BurstSize   \* bound: messages of one sender that make a burst (3 in the code)

ASSUME DigestAssumption ==
  /\ \A b \in Batches : b \in Seq(Messages) /\ b # <<>>
  /\ IsFiniteSet(Messages) /\ IsFiniteSet(Labels) /\ Promotions \in Labels
  /\ Priority \subseteq {"high", "medium", "low", ""} /\ Dates \subseteq Nat
  /\ Caps \subseteq Nat /\ TopLimit \in Nat /\ BurstSize \in Nat

VARIABLES
  batch,    \* messages
  date,     \* of the message at each place
  call,     \* validClassifications, failedClassifications, classifyErr
  priority, \* of the classification of each key
  config,   \* digest.priority_only and digest.max_messages
  fetchErr, \* accounts that failed to fetch
  previous, \* the previous run's summary
  entries,  \* DigestData.Messages
  stats,    \* DigestData.GlobalStats and AccountStats
  notes,    \* DigestData.Highlights
  digest    \* what is rendered

inputs == <<batch, date, call, priority, config, fetchErr, previous>>
vars == <<inputs, entries, stats, notes, digest>>

Places == DOMAIN batch
CountIn(S, P(_)) == Cardinality({x \in S : P(x)})

\* The elements of s at some of its places, in the order of a relation on them.
Arranged(s, places, before) ==
  [i \in 1..Cardinality(places) |->
     s[CHOOSE p \in places : Cardinality({q \in places : <<q, p>> \in before}) = i - 1]]

\* The elements of s that are in S.
Where(s, S) ==
  Arranged(s, {i \in DOMAIN s : s[i] \in S}, {p \in (DOMAIN s) \X (DOMAIN s) : p[1] < p[2]})

-----------------------------------------------------------------------------
(* buildDigestDataPartial: the entries *)

Failure == [err |-> TRUE, label |-> [m \in Messages |-> NoLabel], bad |-> {}]
Calls(asked) ==
  {Failure} \cup {[err |-> FALSE, label |-> r.label, bad |-> r.bad] :
                    r \in Results(asked, TRUE, TRUE)}

\* error: the entry has an analysis error, as failed classifications do; which one
\* is module Classify's matter.  A message without any classification is listed as
\* a failed one, without error.
EntryAt(i) ==
  LET k == batch[i]
      classified == call.label[k] # NoLabel
  IN  [at |-> i, key |-> k, date |-> date[i],
       label |-> IF classified THEN call.label[k] ELSE "Unknown",
       priority |-> IF classified THEN priority[k] ELSE "",
       error |-> k \in call.bad]
Entries == [i \in Places |-> EntryAt(i)]

-----------------------------------------------------------------------------
(* buildDigestStats *)

Accounts == {AccountOf[m] : m \in Messages}
ClassifiedKeys == Labelled(call.label)

\* Counts over the places of one account, or of all.
HighOf(places) ==
  CountIn(places, LAMBDA i : batch[i] \in ClassifiedKeys /\ EntryAt(i).priority = "high")
CountsOfClassified(places) ==
  [fetched    |-> Cardinality(places),
   read       |-> CountIn(places, LAMBDA i : Read[i]),
   unread     |-> CountIn(places, LAMBDA i : ~Read[i]),
   byLabel    |-> [l \in AnyLabel |-> CountIn(places, LAMBDA i : call.label[batch[i]] = l)],
   classified |-> CountIn(places, LAMBDA i : batch[i] \in ClassifiedKeys),
   failed     |-> CountIn(places, LAMBDA i : batch[i] \notin ClassifiedKeys),
   unanalysed |-> CountIn(places, LAMBDA i : EntryAt(i).error)]
Counts(places) ==
  [fetched    |-> Cardinality(places),
   read       |-> CountIn(places, LAMBDA i : Read[i]),
   unread     |-> CountIn(places, LAMBDA i : ~Read[i]),
   byLabel    |-> [l \in AnyLabel |-> CountIn(places, LAMBDA i : EntryAt(i).label = l)],
   classified |-> CountIn(places, LAMBDA i : batch[i] \in ClassifiedKeys),
   failed     |-> CountIn(places, LAMBDA i : batch[i] \notin ClassifiedKeys),
   unanalysed |-> CountIn(places, LAMBDA i : EntryAt(i).error)]

Of(account) == {i \in Places : AccountOf[batch[i]] = account}

\* Senders of the batch; a header without an address counts for none.
Senders == {Sender[i] : i \in Places} \ {NoSender}
SentBy(s) == CountIn(Places, LAMBDA i : Sender[i] = s)

\* topN: by count, then by name.
MoreFrequent(s, t) == SentBy(s) > SentBy(t) \/ (SentBy(s) = SentBy(t) /\ s < t)
Top == {s \in Senders : CountIn(Senders, LAMBDA t : MoreFrequent(t, s)) < TopLimit}

\* The number of classifications is the number the provider gave, asked or not.
Stats ==
  [all |-> [Counts(Places) EXCEPT !.classified = Cardinality(ClassifiedKeys)],
   high |-> HighOf(Places),
   account |-> [a \in Accounts |-> Counts(Of(a))],
   broken |-> fetchErr, top |-> Top]

-----------------------------------------------------------------------------
(* buildHighlights *)

News(kind, about) == [kind |-> kind, about |-> about]

HighlightsEveryTime ==
  {News("high", n) : n \in {Stats.high} \ {0}} \cup {News("failed", a) : a \in fetchErr}
  \cup {News("burst", s) : s \in {t \in Senders : SentBy(t) >= BurstSize}}
Highlights ==
  (IF Stats.high > 0 THEN {News("high", Stats.high)} ELSE {})
  \cup {News("failed", a) : a \in fetchErr}
  \cup (IF previous = NoSnapshot THEN {}
        ELSE LET ads == Stats.all.byLabel[Promotions] IN
             (IF ads > previous.ads /\ previous.ads > 0
              THEN {News("promotions", ads - previous.ads)} ELSE {})
             \cup {News("burst", s) : s \in {t \in Senders :
                     SentBy(t) >= BurstSize /\ SentBy(t) > previous.sent[t]}}
             \cup (IF Cardinality(fetchErr) > previous.broken
                   THEN {News("failures", Cardinality(fetchErr))} ELSE {}))

-----------------------------------------------------------------------------
(* Renderers *)

Rank(e) == CASE e.priority = "high" -> 0 [] e.priority = "medium" -> 1
             [] e.priority = "low" -> 2  [] OTHER -> 3

\* Higher priority first, then the most recent.
Ahead(e, f) == Rank(e) < Rank(f) \/ (Rank(e) = Rank(f) /\ e.date > f.date)

Before(s) ==
  {p \in (DOMAIN s) \X (DOMAIN s) :
     Ahead(s[p[1]], s[p[2]]) \/ (~Ahead(s[p[2]], s[p[1]]) /\ p[1] < p[2])}
StableSort(s) == Arranged(s, DOMAIN s, Before(s))

IsHigh(e) == e.priority = "high"
Urgent(s) == Where(s, {e \in ToSet(s) : IsHigh(e)})
PriorityFilter(s) == IF config.priorityOnly THEN Urgent(s) ELSE s
OverCap(s) == config.cap > 0 /\ Len(s) > config.cap

\* The fallback renderer keeps the first of them, the markdown renderer the best.
Capped(s) == IF OverCap(s) THEN SubSeq(s, 1, config.cap) ELSE s
BestUnsorted(s) == Capped(s)
Best(s) == Capped(IF OverCap(s) THEN StableSort(s) ELSE s)

GroupsOfAnalysed(shown) ==
  [l \in {e.label : e \in ToSet(shown)} |->
     StableSort(Where(shown, {e \in ToSet(shown) : e.label = l /\ ~e.error}))]
\* groupByLabel: one section per label.
Groups(shown) ==
  [l \in {e.label : e \in ToSet(shown)} |->
     StableSort(Where(shown, {e \in ToSet(shown) : e.label = l}))]

Markdown(s) ==
  LET shown == Best(PriorityFilter(s))
  IN  [by |-> "markdown", shown |-> shown,
       attention |-> Urgent(shown), groups |-> Groups(shown)]
Fallback(s) ==
  [by |-> "fallback", shown |-> Capped(PriorityFilter(s)),
   attention |-> <<>>, groups |-> <<>>]

-----------------------------------------------------------------------------

Init ==
  /\ batch \in Batches /\ date \in [DOMAIN batch -> Dates]
  /\ call \in Calls(ToSet(batch))
  /\ priority \in [Messages -> Priority]
  /\ \A m \in Messages : call.label[m] = NoLabel => priority[m] = ""
  /\ config \in [priorityOnly: BOOLEAN, cap: Caps]
  /\ fetchErr \in SUBSET (Accounts \ {AccountOf[k] : k \in ToSet(batch)})
  /\ previous \in Snapshots
  /\ entries = <<>> /\ stats = NoDigest /\ notes = {} /\ digest = NoDigest

Build ==
  /\ entries = <<>>
  /\ entries' = Entries /\ stats' = Stats /\ notes' = Highlights
  /\ UNCHANGED <<inputs, digest>>

\* Sorting for the cap is in place: without a filter it reorders the data.
RenderMarkdown ==
  /\ entries # <<>> /\ digest = NoDigest
  /\ ~call.err /\ ClassifiedKeys # {}
  /\ digest' = Markdown(entries)
  /\ entries' = IF ~config.priorityOnly /\ OverCap(entries) THEN StableSort(entries)
                                                            ELSE entries
  /\ UNCHANGED <<inputs, stats, notes>>

RenderFallback ==
  /\ entries # <<>> /\ digest = NoDigest
  /\ call.err \/ ClassifiedKeys = {}
  /\ digest' = Fallback(entries)
  /\ UNCHANGED <<inputs, entries, stats, notes>>

Next == Build \/ RenderMarkdown \/ RenderFallback

Spec == Init /\ [][Next]_vars

-----------------------------------------------------------------------------
(* Properties *)

Rendered == digest # NoDigest
Shown == ToSet(digest.shown)
Hidden == ToSet(entries) \ Shown

\* The cap costs the reader the least: a message that the markdown digest leaves
\* out for it is no more urgent, and among its equals no more recent, than any
\* message that is listed, and the list is as long as the cap allows; without a
\* cap nothing is left out.
ShowsMostUrgent ==
  Rendered /\ digest.by = "markdown" =>
    LET eligible == {e \in ToSet(entries) : config.priorityOnly => IsHigh(e)}
        left == Hidden \cap eligible
    IN  /\ Shown \subseteq eligible
        /\ \A e \in Shown, f \in left : ~Ahead(f, e)
        /\ left # {} => config.cap > 0 /\ Len(digest.shown) = config.cap

\* The sections of a digest hold each listed message exactly once, whether its
\* analysis failed or not, in order of urgency, and every urgent one of them is
\* repeated under "Needs Attention".
SectionsHoldShown ==
  Rendered /\ digest.by = "markdown" =>
    LET inGroup(e) == {p \in (DOMAIN digest.groups) \X (1..Len(digest.shown)) :
                         p[2] <= Len(digest.groups[p[1]]) /\ digest.groups[p[1]][p[2]] = e}
    IN  /\ \A e \in ToSet(entries) :
             Cardinality(inGroup(e)) = IF e \in Shown THEN 1 ELSE 0
        /\ \A l \in DOMAIN digest.groups : \A i, j \in DOMAIN digest.groups[l] :
             i < j => ~Ahead(digest.groups[l][j], digest.groups[l][i])
        /\ ToSet(digest.attention) = {e \in Shown : IsHigh(e)}

SumOf(field) == SumFunction([a \in Accounts |-> stats.account[a][field]])
Extras == ClassifiedKeys \ ToSet(batch)
Repeats == Len(batch) - Cardinality(ToSet(batch))

\* The numbers of the summary agree with each other, with the accounts' and with
\* what is listed: each message is classified or failed and has one label, the
\* accounts add up to the whole, and the provider's classifications differ from
\* the classified messages by exactly the ones nobody asked for and the messages
\* that share a key.
CountsAddUp ==
  stats # NoDigest =>
    /\ \A field \in {"fetched", "read", "unread", "failed", "unanalysed"} :
         stats.all[field] = SumOf(field)
    /\ \A a \in Accounts : LET n == stats.account[a] IN
         /\ n.classified + n.failed = n.fetched /\ n.read + n.unread = n.fetched
         /\ SumFunction(n.byLabel) = n.fetched
         /\ n.unanalysed <= n.failed
    /\ Extras = {} /\ Repeats = 0 => stats.all.classified = SumOf("classified")
    /\ stats.all.classified <= SumOf("classified") + Cardinality(Extras)

\* The highlights say what is so: the urgent messages they announce are the ones
\* under "Needs Attention", unless the cap hides some, and a run that is like the
\* one before brings no news about a change.
HighlightsTruthful ==
  /\ Rendered /\ digest.by = "markdown" =>
       /\ notes \cap [kind: {"high"}, about: Nat] # {} <=> digest.attention # <<>>
       /\ Len(digest.attention) <= stats.high
       /\ Len(digest.attention) < stats.high => Len(digest.shown) = config.cap
  /\ LET same == previous # NoSnapshot /\ stats # NoDigest
                 /\ previous.ads = stats.all.byLabel[Promotions]
                 /\ previous.broken = Cardinality(fetchErr)
                 /\ \A s \in Senders : previous.sent[s] = SentBy(s)
     IN  same => \A n \in notes : n.kind \in {"high", "failed"}
=============================================================================
