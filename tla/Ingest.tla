------------------------------- MODULE Ingest -------------------------------
(***************************************************************************)
(* One run's IMAP work: mail.FetchAll over a bounded pool of workers, one  *)
(* persistent IMAPClient per account, then ApplyFlags account by account   *)
(* on the same connections.  A connection can be lost at any moment; every *)
(* operation on it goes through withReconnect: reconnect once, retry once. *)
(*                                                                         *)
(* Which failures occur is chosen by the constant Faults:                  *)
(*   "drop"    the connection breaks or a command times out                *)
(*   "dial" "login"  reconnecting fails   "command" the server says NO     *)
(*   "cancel"  the run's context is cancelled                              *)
(***************************************************************************)
EXTENDS Naturals, FiniteSets, Sequences

CONSTANTS
  NumAccounts,   \* configured accounts, in the order of the configuration
  FoldersOf,     \* the folders of each account, in order
  Mail,          \* the messages of each folder that match the search
  Unparsable,    \* messages whose body cannot be read
  Keywords,      \* the flag keywords of classified messages
  MaxConcurrent, \* concurrency.max_accounts
  Faults

Accounts == 1..NumAccounts

ASSUME IngestAssumption ==
  /\ NumAccounts \in Nat \ {0} /\ MaxConcurrent \in Nat \ {0}
  /\ FoldersOf \in [Accounts -> Seq(DOMAIN Mail) \ {<<>>}]
  /\ Unparsable \subseteq UNION {Mail[f] : f \in DOMAIN Mail}
  /\ Faults \subseteq {"drop", "dial", "login", "command", "cancel"}

VARIABLES
  phase,     \* what the run does: "fetch", "flag", "done"
  cancelled, \* the context
  next,      \* accounts whose worker was launched
  conn,      \* each client's connection: cli = nil is "none", "fresh" is
             \* connected but not logged in, "dead" is broken unnoticed
  step,      \* where each account's call is
  folder,    \* Fetch: index of the folder at hand
  got,       \* Fetch: messages collected, with the times each was
  missed,    \* Fetch: some folder failed
  part,      \* Fetch: folderMessages, what the last attempt at the folder
             \* returned, with the times each message is in it
  result,    \* FetchAllResult: "none" so far, "ok", "error"
  permitted, \* PERMANENTFLAGS of the last SELECT: keywords clients may store
  want,      \* ApplyFlags: keywords to store
  todo,      \* ApplyFlags: keywords not yet tried in this attempt
  storeErr,  \* ApplyFlags: a store of this attempt failed
  set,       \* keywords the server has stored
  flagResult \* what ApplyFlags returned: "none" so far, "ok", "error"

pool   == <<phase, cancelled, next>>
fetch  == <<folder, got, missed, result>>
flags  == <<want, todo, storeErr, set, flagResult>>
vars   == <<pool, conn, step, part, fetch, permitted, flags>>

\* An operation runs as "try" and "bodies" or "store", and once more as "retry"
\* and "rebodies" or "restore".
FirstAttempt == {"try", "bodies", "store"}
Fetches == {"try", "bodies", "retry", "rebodies"}
Steps == FirstAttempt \cup Fetches \cup
         {"waiting", "folder", "connect", "reconnect", "restore", "returned"}
Messages == UNION {Mail[f] : f \in DOMAIN Mail}
Once(mail) == [m \in Messages |-> IF m \in mail THEN 1 ELSE 0]

Working == {a \in Accounts : step[a] \notin {"waiting", "returned"}}

TypeOK ==
  /\ phase \in {"fetch", "flag", "done"} /\ cancelled \in BOOLEAN
  /\ next \in 0..NumAccounts
  /\ conn \in [Accounts -> {"none", "fresh", "live", "dead"}]
  /\ step \in [Accounts -> Steps]
  /\ folder \in [Accounts -> Nat \ {0}]
  /\ \A a \in Accounts : folder[a] <= Len(FoldersOf[a]) + 1
  /\ got \in [Accounts -> [Messages -> Nat]] /\ missed \in [Accounts -> BOOLEAN]
  /\ part \in [Accounts -> [Messages -> Nat]]
  /\ result \in [Accounts -> {"none", "ok", "error"}]
  /\ permitted \in [Accounts -> SUBSET Keywords] /\ want \in [Accounts -> SUBSET Keywords]
  /\ todo \in [Accounts -> SUBSET Keywords] /\ storeErr \in [Accounts -> BOOLEAN]
  /\ set \in [Accounts -> SUBSET Keywords]
  /\ flagResult \in [Accounts -> {"none", "ok", "error"}]
  /\ Cardinality(Working) <= IF phase = "fetch" THEN MaxConcurrent ELSE 1

\* main has dialled and logged in every account before the run.
Init ==
  /\ phase = "fetch" /\ cancelled = FALSE /\ next = 0
  /\ conn = [a \in Accounts |-> "live"]
  /\ step = [a \in Accounts |-> "waiting"]
  /\ folder = [a \in Accounts |-> 1]
  /\ got = [a \in Accounts |-> Once({})] /\ part = [a \in Accounts |-> Once({})]
  /\ missed = [a \in Accounts |-> FALSE]
  /\ result = [a \in Accounts |-> "none"]
  /\ permitted = [a \in Accounts |-> {}]
  /\ want = [a \in Accounts |-> {}] /\ todo = [a \in Accounts |-> {}]
  /\ storeErr = [a \in Accounts |-> FALSE] /\ set = [a \in Accounts |-> {}]
  /\ flagResult = [a \in Accounts |-> "none"]

-----------------------------------------------------------------------------
(* Surroundings *)

Drop(a) ==
  /\ "drop" \in Faults /\ conn[a] \in {"live", "fresh"}
  /\ conn' = [conn EXCEPT ![a] = "dead"]
  /\ UNCHANGED <<pool, step, part, fetch, permitted, flags>>

Cancel ==
  /\ "cancel" \in Faults /\ ~cancelled /\ phase = "fetch"
  /\ cancelled' = TRUE
  /\ UNCHANGED <<phase, next, conn, step, part, fetch, permitted, flags>>

-----------------------------------------------------------------------------
(* FetchAll and Fetch *)

SlotFreeOffByOne == Cardinality(Working) <= MaxConcurrent

\* errgroup.SetLimit: Go blocks while MaxConcurrent workers are running.
SlotFree == Cardinality(Working) < MaxConcurrent

\* Fetch returns, and its variables with it.
Return(a, r) ==
  /\ step' = [step EXCEPT ![a] = "returned"]
  /\ result' = [result EXCEPT ![a] = r]
  /\ folder' = [folder EXCEPT ![a] = 1]
  /\ missed' = [missed EXCEPT ![a] = FALSE]
  /\ part' = [part EXCEPT ![a] = Once({})]

\* A worker that starts after a cancellation returns at once, and so does
\* Fetch without a client.
Launch(a) ==
  /\ phase = "fetch" /\ a = next + 1 /\ SlotFree
  /\ next' = a
  /\ IF cancelled \/ conn[a] = "none"
     THEN Return(a, "error")
     ELSE step' = [step EXCEPT ![a] = "folder"] /\ UNCHANGED <<result, folder, missed, part>>
  /\ UNCHANGED <<phase, cancelled, conn, got, permitted, flags>>

\* The folder loop: Fetch returns an error if any folder failed, and then
\* FlattenMessages drops what the other folders gave.
NextFolder(a) ==
  /\ step[a] = "folder"
  /\ CASE folder[a] > Len(FoldersOf[a]) -> Return(a, IF missed[a] THEN "error" ELSE "ok")
       [] folder[a] <= Len(FoldersOf[a]) /\ cancelled -> Return(a, "error")
       [] OTHER -> /\ step' = [step EXCEPT ![a] = IF conn[a] = "none" THEN "connect" ELSE "try"]
                   /\ part' = [part EXCEPT ![a] = Once({})]
                   /\ UNCHANGED <<result, folder, missed>>
  /\ UNCHANGED <<pool, conn, got, permitted, flags>>

\* withReconnect returns an error: the folder is given up, or ApplyFlags is.
OperationFails(a) ==
  IF phase = "fetch"
  THEN /\ folder' = [folder EXCEPT ![a] = @ + 1]
       /\ missed' = [missed EXCEPT ![a] = TRUE]
       /\ step' = [step EXCEPT ![a] = "folder"]
       /\ UNCHANGED <<got, result, flags>>
  ELSE /\ step' = [step EXCEPT ![a] = "returned"]
       /\ flagResult' = [flagResult EXCEPT ![a] = "error"]
       /\ storeErr' = [storeErr EXCEPT ![a] = FALSE]
       /\ UNCHANGED <<fetch, want, todo, set>>

AfterReconnectTryAgain(s) == "try"

\* A connection made to begin with leaves both attempts; one made after a
\* failure leaves the retry.
AfterReconnect(s) == IF s = "connect" THEN "try" ELSE "retry"

Reconnect(a) ==
  /\ step[a] \in {"connect", "reconnect"}
  /\ conn' = [conn EXCEPT ![a] = "live"]
  /\ step' = [step EXCEPT ![a] = AfterReconnect(@)]
  /\ UNCHANGED <<pool, part, fetch, permitted, flags>>

\* A failed login leaves a client that is connected but not logged in.
ReconnectFails(a) ==
  /\ step[a] \in {"connect", "reconnect"}
  /\ \/ "dial" \in Faults /\ conn' = [conn EXCEPT ![a] = "none"]
     \/ "login" \in Faults /\ conn' = [conn EXCEPT ![a] = "fresh"]
  /\ OperationFails(a)
  /\ UNCHANGED <<pool, part, permitted>>

Here(a) == FoldersOf[a][folder[a]]

\* fetchFolder makes one message of every header, with a body or without one;
\* without the headers it returns none.
FolderMessages(a) == Once(IF step[a] \in {"bodies", "rebodies"} THEN Mail[Here(a)] ELSE {})

AssignAppending(a) ==
  part' = [part EXCEPT ![a] = [m \in Messages |-> @[m] + FolderMessages(a)[m]]]

\* The result of an attempt, failed or not, replaces that of an earlier one.
Assign(a) == part' = [part EXCEPT ![a] = FolderMessages(a)]

\* The attempt returns an error.  isConnectionError judges it by its text, in
\* which the server or a message can have had a say; a first attempt it takes
\* for a lost connection is followed by a second one, no other is.
AttemptFails(a) ==
  /\ Assign(a)
  /\ \/ /\ step[a] \in FirstAttempt
        /\ step' = [step EXCEPT ![a] = "reconnect"]
        /\ UNCHANGED <<fetch, flags>>
     \/ OperationFails(a)

\* SELECT, SEARCH and the headers of what it found.
FetchHeaders(a) ==
  /\ phase = "fetch" /\ step[a] \in {"try", "retry"} /\ conn[a] = "live"
  /\ Mail[Here(a)] # {}
  /\ step' = [step EXCEPT ![a] = IF @ = "try" THEN "bodies" ELSE "rebodies"]
  /\ UNCHANGED <<pool, conn, part, fetch, permitted, flags>>

\* fetchFolder returns without an error, and Fetch appends what it returned.
FolderDone(a) ==
  /\ Assign(a)
  /\ got' = [got EXCEPT ![a] = [m \in Messages |-> @[m] + part'[a][m]]]
  /\ folder' = [folder EXCEPT ![a] = @ + 1]
  /\ step' = [step EXCEPT ![a] = "folder"]
  /\ UNCHANGED <<pool, conn, missed, result, permitted, flags>>

SearchFindsNothing(a) ==
  /\ phase = "fetch" /\ step[a] \in {"try", "retry"} /\ conn[a] = "live"
  /\ Mail[Here(a)] = {}
  /\ FolderDone(a)

FetchBodies(a) ==
  /\ step[a] \in {"bodies", "rebodies"} /\ conn[a] = "live"
  /\ Mail[Here(a)] \cap Unparsable = {}
  /\ FolderDone(a)

\* fetchBody reports every message it could not read as an error of the whole
\* folder, although it has the others.
BodyUnreadable(a) ==
  /\ step[a] \in {"bodies", "rebodies"} /\ conn[a] = "live"
  /\ Mail[Here(a)] \cap Unparsable # {}
  /\ AttemptFails(a)
  /\ UNCHANGED <<pool, conn, permitted>>

NotLoggedIn(a) ==
  /\ step[a] \in Fetches /\ conn[a] = "fresh"
  /\ Assign(a) /\ OperationFails(a)
  /\ UNCHANGED <<pool, conn, permitted>>

CommandFails(a) ==
  /\ step[a] \in Fetches /\ conn[a] = "live" /\ "command" \in Faults
  /\ AttemptFails(a)
  /\ UNCHANGED <<pool, conn, permitted>>

\* The broken connection is noticed.
ConnectionLost(a) ==
  /\ step[a] \in Fetches /\ conn[a] = "dead"
  /\ AttemptFails(a)
  /\ UNCHANGED <<pool, conn, permitted>>

-----------------------------------------------------------------------------
(* applyClassificationFlags and ApplyFlags *)

FetchAllReturnsEarly ==
  /\ phase = "fetch" /\ next = NumAccounts
  /\ phase' = "flag"
  /\ step' = [a \in Accounts |-> "waiting"]
  /\ UNCHANGED <<cancelled, next, conn, part, fetch, permitted, flags>>

\* g.Wait: every worker has returned.
FetchAllReturns ==
  /\ phase = "fetch" /\ \A a \in Accounts : step[a] = "returned"
  /\ phase' = "flag"
  /\ step' = [a \in Accounts |-> "waiting"]
  /\ UNCHANGED <<cancelled, next, conn, part, fetch, permitted, flags>>

\* The classified accounts one after the other, in the order of a Go map, each
\* with the keywords its messages call for; nothing looks at the context.
ApplyFlags(a) ==
  /\ phase = "flag" /\ step[a] = "waiting" /\ Working = {}
  /\ \E ks \in (SUBSET Keywords) \ {{}} : want' = [want EXCEPT ![a] = ks]
  /\ step' = [step EXCEPT ![a] = IF conn[a] = "none" THEN "connect" ELSE "try"]
  /\ UNCHANGED <<pool, conn, part, fetch, permitted, todo, storeErr, set, flagResult>>

\* applyFlagsOnce selects INBOX, whatever folder the messages came from.
SelectInbox(a) ==
  /\ phase = "flag" /\ step[a] \in {"try", "retry"} /\ conn[a] = "live"
  /\ step' = [step EXCEPT ![a] = IF @ = "try" THEN "store" ELSE "restore"]
  /\ \E ks \in SUBSET Keywords : permitted' = [permitted EXCEPT ![a] = ks]
  /\ todo' = [todo EXCEPT ![a] = want[a]]
  /\ storeErr' = [storeErr EXCEPT ![a] = FALSE]
  /\ UNCHANGED <<pool, conn, part, fetch, want, set, flagResult>>

\* A keyword the server does not permit is skipped; a store that fails on a
\* broken connection may yet have reached the server.
StoreKeyword(a, k) ==
  /\ step[a] \in {"store", "restore"} /\ k \in todo[a]
  /\ todo' = [todo EXCEPT ![a] = @ \ {k}]
  /\ \/ /\ k \notin permitted[a]
        /\ UNCHANGED <<set, storeErr>>
     \/ /\ k \in permitted[a] /\ conn[a] = "live"
        /\ set' = [set EXCEPT ![a] = @ \cup {k}]
        /\ UNCHANGED storeErr
     \/ /\ k \in permitted[a] /\ (conn[a] = "dead" \/ "command" \in Faults)
        /\ storeErr' = [storeErr EXCEPT ![a] = TRUE]
        /\ set' = set \/ (conn[a] = "dead" /\ set' = [set EXCEPT ![a] = @ \cup {k}])
  /\ UNCHANGED <<pool, conn, step, part, fetch, permitted, want, flagResult>>

Skipped(a) == want[a] \ permitted[a]

StoredAllIgnoringErrors(a) == Skipped(a) # want[a]

\* applyFlagsOnce returns nil.
StoredAll(a) == Skipped(a) # want[a] /\ ~storeErr[a]

FlagsApplied(a) ==
  /\ step[a] \in {"store", "restore"} /\ todo[a] = {} /\ StoredAll(a)
  /\ step' = [step EXCEPT ![a] = "returned"]
  /\ flagResult' = [flagResult EXCEPT ![a] = "ok"]
  /\ UNCHANGED <<pool, conn, part, fetch, permitted, want, todo, storeErr, set>>

\* Nothing was permitted, or some store failed; the joined text of the errors
\* may read like a connection error, and then everything is tried once more.
FlagsNotApplied(a) ==
  /\ step[a] \in {"store", "restore"} /\ todo[a] = {} /\ ~StoredAll(a)
  /\ \/ storeErr[a] /\ Skipped(a) # want[a] /\ AttemptFails(a)
     \/ OperationFails(a) /\ UNCHANGED part
  /\ UNCHANGED <<pool, conn, permitted>>

Finish ==
  /\ phase = "flag" /\ Working = {}
  /\ phase' = "done"
  /\ UNCHANGED <<cancelled, next, conn, step, part, fetch, permitted, flags>>

-----------------------------------------------------------------------------

Step ==
  \/ FetchAllReturns \/ Finish
  \/ \E a \in Accounts :
       \/ Launch(a) \/ NextFolder(a) \/ Reconnect(a) \/ ReconnectFails(a)
       \/ FetchHeaders(a) \/ SearchFindsNothing(a) \/ FetchBodies(a) \/ BodyUnreadable(a)
       \/ NotLoggedIn(a) \/ CommandFails(a) \/ ConnectionLost(a)
       \/ ApplyFlags(a) \/ SelectInbox(a) \/ FlagsApplied(a) \/ FlagsNotApplied(a)
       \/ \E k \in Keywords : StoreKeyword(a, k)

Next == Step \/ Cancel \/ \E a \in Accounts : Drop(a)

\* Commands are bounded by imap.timeout, so the client keeps stepping.
Spec == Init /\ [][Next]_vars /\ WF_vars(Step)

-----------------------------------------------------------------------------
(* Properties *)

\* How often each message is in the folders of an account.
Mailbox ==
  [a \in Accounts |-> [m \in Messages |->
     Cardinality({i \in DOMAIN FoldersOf[a] : m \in Mail[FoldersOf[a][i]]})]]

\* An account that reports success has every message of every folder, each
\* once, although its connection may break between the headers and the bodies
\* of a folder, which is then fetched again on top of what the first attempt
\* left: the watermark may move past them.
CompleteOrFailed ==
  \A a \in Accounts : result[a] = "ok" => \A m \in Messages : got[a][m] = Mailbox[a][m]

\* ApplyFlags reports success only if every keyword the server permits is
\* stored, and at least one is.
FlagsTruthful ==
  \A a \in Accounts : flagResult[a] = "ok" =>
    /\ want[a] \cap permitted[a] \subseteq set[a]
    /\ want[a] \cap permitted[a] # {}

\* Workers, reconnects and retries are invisible to the pipeline: an account's fetch
\* is one step to all of its messages or an error, flagging begins after the last
\* one, and flagging an account is one step that stores only keywords it was asked
\* for.  Pipeline's FetchAccount, FetchAccountFails and FlagAccount are these steps.
FlagsReturned(a) == flagResult[a] # "none"
Call == INSTANCE IngestCall WITH
          fetched  <- result,
          messages <- [a \in Accounts |-> IF result[a] = "ok" THEN got[a]
                                         ELSE Once({})],
          flagged  <- flagResult,
          asked    <- [a \in Accounts |-> IF FlagsReturned(a) THEN want[a] ELSE {}],
          stored   <- [a \in Accounts |-> IF FlagsReturned(a) THEN set[a] ELSE {}]
ImplementsCall == Call!Spec

\* However often connections break, the run's IMAP work ends: retries are
\* bounded and no worker waits for a slot forever.
Terminates == <>(phase = "done")
=============================================================================
