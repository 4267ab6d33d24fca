---------------------------- MODULE IngestProofs ----------------------------
(***************************************************************************)
(* Module Ingest for any number of accounts, folders, messages, keywords   *)
(* and workers: an account that reports success has every message once,    *)
(* ApplyFlags tells the truth, and the pool of workers is bounded.         *)
(***************************************************************************)
EXTENDS Ingest, FiniteSetTheorems, TLAPS

-----------------------------------------------------------------------------
(* The inductive invariant *)

\* Where withReconnect can be, for a folder or for flags.
Trying == {"connect", "reconnect", "store", "restore"} \cup Fetches

\* The conjuncts of TypeOK that say only of which type a variable is; that of
\* part, which nothing else depends on, is proved apart.
Types ==
  /\ phase \in {"fetch", "flag", "done"} /\ cancelled \in BOOLEAN /\ next \in 0..NumAccounts
  /\ conn \in [Accounts -> {"none", "fresh", "live", "dead"}] /\ step \in [Accounts -> Steps]
  /\ folder \in [Accounts -> Nat \ {0}]
  /\ \A a \in Accounts : folder[a] <= Len(FoldersOf[a]) + 1
  /\ got \in [Accounts -> [Messages -> Nat]] /\ missed \in [Accounts -> BOOLEAN]
  /\ result \in [Accounts -> {"none", "ok", "error"}]
  /\ permitted \in [Accounts -> SUBSET Keywords] /\ want \in [Accounts -> SUBSET Keywords]
  /\ todo \in [Accounts -> SUBSET Keywords] /\ storeErr \in [Accounts -> BOOLEAN]
  /\ set \in [Accounts -> SUBSET Keywords]
  /\ flagResult \in [Accounts -> {"none", "ok", "error"}]

Bounded == Cardinality(Working) <= IF phase = "fetch" THEN MaxConcurrent ELSE 1

\* Of the first n folders of account a every message was collected, each once.
Holding(a, n, m) == {i \in 1..n : m \in Mail[FoldersOf[a][i]]}
Counted(a, n) == \A m \in Messages : got[a][m] = Cardinality(Holding(a, n, m))

\* An account while the workers fetch: what it has collected, by how far it is.
Fetching(a) ==
  phase = "fetch" =>
    /\ a > next <=> step[a] = "waiting"
    /\ step[a] \notin {"store", "restore"} /\ flagResult[a] = "none"
    /\ step[a] # "returned" =>
         result[a] = "none" /\ (~missed[a] => Counted(a, folder[a] - 1))
    /\ step[a] = "waiting" => folder[a] = 1 /\ ~missed[a]
    /\ step[a] \in {"connect", "reconnect"} \cup Fetches => folder[a] <= Len(FoldersOf[a])

\* An account while flags are applied: what was tried without an error is stored.
Flagging(a) ==
  phase # "fetch" =>
    /\ step[a] \notin {"folder", "bodies", "rebodies"}
    /\ step[a] # "returned" => flagResult[a] = "none"
    /\ step[a] \in {"store", "restore"} /\ ~storeErr[a] =>
         (want[a] \cap permitted[a]) \ todo[a] \subseteq set[a]

Complete(a) == result[a] = "ok" => Counted(a, Len(FoldersOf[a]))
Truthful(a) ==
  flagResult[a] = "ok" =>
    want[a] \cap permitted[a] \subseteq set[a] /\ want[a] \cap permitted[a] # {}

Own(a) == Fetching(a) /\ Flagging(a) /\ Complete(a) /\ Truthful(a)
Inv == Types /\ Bounded /\ \A a \in Accounts : Own(a)

-----------------------------------------------------------------------------
(* What an attempt at a folder returns *)

PartType == part \in [Accounts -> [Messages -> Nat]]

LEMMA PartTypeHolds == Spec => []PartType
<1>1. Init => PartType BY DEF Init, PartType, Once
<1>2. PartType /\ [Next]_vars => PartType'
  <2> SUFFICES ASSUME PartType, [Next]_vars PROVE PartType' OBVIOUS
  <2>1. CASE part' = part BY <2>1 DEF PartType
  <2>2. ASSUME NEW a \in Accounts, NEW mail, part' = [part EXCEPT ![a] = Once(mail)] PROVE PartType'
    <3>1. Once(mail) \in [Messages -> Nat] BY DEF Once
    <3> QED BY <2>2, <3>1 DEF PartType
  <2>3. ASSUME NEW a \in Accounts, Assign(a) PROVE PartType'
    BY <2>2, <2>3 DEF Assign, FolderMessages
  <2>4. CASE UNCHANGED vars \/ FetchAllReturns \/ Finish \/ Cancel
    BY <2>1, <2>4 DEF vars, FetchAllReturns, Finish, Cancel
  <2>5. ASSUME NEW a \in Accounts,
               \/ Drop(a) \/ Reconnect(a) \/ ReconnectFails(a) \/ FetchHeaders(a)
               \/ ApplyFlags(a) \/ SelectInbox(a) \/ FlagsApplied(a)
               \/ \E k \in Keywords : StoreKeyword(a, k)
        PROVE  PartType'
    BY <2>1, <2>5
    DEF Drop, Reconnect, ReconnectFails, FetchHeaders, ApplyFlags, SelectInbox, FlagsApplied,
        StoreKeyword
  <2>6. ASSUME NEW a \in Accounts,
               \/ SearchFindsNothing(a) \/ FetchBodies(a) \/ BodyUnreadable(a)
               \/ NotLoggedIn(a) \/ CommandFails(a) \/ ConnectionLost(a)
        PROVE  PartType'
    BY <2>3, <2>6
    DEF SearchFindsNothing, FetchBodies, FolderDone, BodyUnreadable, NotLoggedIn, CommandFails,
        ConnectionLost, AttemptFails
  <2>7. ASSUME NEW a \in Accounts, FlagsNotApplied(a) PROVE PartType'
    BY <2>1, <2>3, <2>7 DEF FlagsNotApplied, AttemptFails
  <2>8. ASSUME NEW a \in Accounts, Launch(a) \/ NextFolder(a) PROVE PartType'
    <3>1. part' = part \/ part' = [part EXCEPT ![a] = Once({})]
      BY <2>8 DEF Launch, NextFolder, Return
    <3> QED BY <2>1, <2>2, <3>1
  <2> QED BY <2>4, <2>5, <2>6, <2>7, <2>8 DEF Next, Step
<1> QED BY <1>1, <1>2, PTL DEF Spec

-----------------------------------------------------------------------------
(* Counting *)

LEMMA CountNext ==
  ASSUME NEW a, NEW m, NEW n \in Nat \ {0}
  PROVE  Cardinality(Holding(a, n, m)) =
           Cardinality(Holding(a, n - 1, m)) + IF m \in Mail[FoldersOf[a][n]] THEN 1 ELSE 0
<1>. DEFINE H == Holding(a, n - 1, m)
<1>1. IsFiniteSet(H)
  <2>1. IsFiniteSet(1..(n - 1)) BY FS_Interval
  <2>2. H \subseteq 1..(n - 1) BY DEF Holding
  <2> QED BY <2>1, <2>2, FS_Subset
<1>2. Cardinality(H) \in Nat BY <1>1, FS_CardinalityType
<1>3. n \notin H /\ 1..n = (1..(n - 1)) \cup {n} BY DEF Holding
<1>4. CASE m \in Mail[FoldersOf[a][n]]
  <2>1. Holding(a, n, m) = H \cup {n} BY <1>3, <1>4 DEF Holding
  <2> QED BY <1>1, <1>2, <1>3, <1>4, <2>1, FS_AddElement
<1>5. CASE m \notin Mail[FoldersOf[a][n]]
  <2>1. Holding(a, n, m) = H BY <1>3, <1>5 DEF Holding
  <2> QED BY <1>2, <1>5, <2>1
<1> QED BY <1>4, <1>5

LEMMA CountNone == ASSUME NEW a, NEW m PROVE Cardinality(Holding(a, 0, m)) = 0
<1>1. Holding(a, 0, m) = {} BY DEF Holding
<1> QED BY <1>1, FS_EmptySet

LEMMA WorkingFinite == IsFiniteSet(Working) /\ Cardinality(Working) \in Nat
<1>1. IsFiniteSet(Accounts) BY FS_Interval, IngestAssumption DEF Accounts
<1>2. Working \subseteq Accounts BY DEF Working
<1>3. IsFiniteSet(Working) BY <1>1, <1>2, FS_Subset
<1> QED BY <1>3, FS_CardinalityType

\* No more workers than before.
LEMMA BoundKept ==
  ASSUME Bounded, phase' = phase, Working' \subseteq Working
  PROVE  Bounded'
<1>1. Cardinality(Working') <= Cardinality(Working) /\ Cardinality(Working') \in Nat
  BY WorkingFinite, FS_Subset, FS_CardinalityType
<1> QED BY <1>1, WorkingFinite, IngestAssumption DEF Bounded

-----------------------------------------------------------------------------
(* A step at account a *)

Same(b) ==
  /\ conn'[b] = conn[b] /\ step'[b] = step[b] /\ folder'[b] = folder[b] /\ got'[b] = got[b]
  /\ missed'[b] = missed[b] /\ result'[b] = result[b] /\ permitted'[b] = permitted[b]
  /\ want'[b] = want[b] /\ todo'[b] = todo[b] /\ storeErr'[b] = storeErr[b]
  /\ set'[b] = set[b] /\ flagResult'[b] = flagResult[b]

\* The obligation of a step at account a, for a alone.
LEMMA LocalStep ==
  ASSUME Inv, Types', NEW a \in Accounts, phase' = phase, next' = next,
         \A b \in Accounts \ {a} : Same(b), Own(a)',
         step[a] \notin {"waiting", "returned"} \/ step'[a] \in {"waiting", "returned"}
  PROVE  Inv'
<1>1. ASSUME NEW b \in Accounts, b # a PROVE Own(b)'
  <2>1. Own(b) /\ Same(b) BY <1>1 DEF Inv
  <2> QED BY <2>1 DEF Own, Same, Fetching, Fetches, Flagging, Complete, Truthful, Counted
<1>2. Working' \subseteq Working BY DEF Working, Same
<1>3. Bounded' BY <1>2, BoundKept DEF Inv
<1> QED BY <1>1, <1>3 DEF Inv

LEMMA FailStep ==
  ASSUME Inv, NEW a \in Accounts, OperationFails(a), UNCHANGED <<pool, permitted>>,
         step[a] \in Trying,
         conn' \in [Accounts -> {"none", "fresh", "live", "dead"}],
         \A b \in Accounts \ {a} : conn'[b] = conn[b]
  PROVE  Inv'
<1>0. Types /\ Own(a) BY DEF Inv
<1>1. CASE phase = "fetch"
  <2>1. /\ folder' = [folder EXCEPT ![a] = @ + 1] /\ missed' = [missed EXCEPT ![a] = TRUE]
        /\ step' = [step EXCEPT ![a] = "folder"] /\ UNCHANGED <<got, result, flags>>
    BY <1>1 DEF OperationFails
  <2>2. folder[a] <= Len(FoldersOf[a]) /\ Fetching(a)
    BY <1>0, <1>1 DEF Own, Fetching, Fetches, Trying
  <2>3. Len(FoldersOf[a]) \in Nat BY IngestAssumption
  <2>4. Types' BY <1>0, <2>1, <2>2, <2>3 DEF Types, Steps, FirstAttempt, Fetches, pool, flags
  <2>5. \A b \in Accounts \ {a} : Same(b) BY <1>0, <2>1 DEF Types, Same, flags
  <2>6. Fetching(a)'
    <3>1. step'[a] = "folder" /\ missed'[a] BY <1>0, <2>1 DEF Types
    <3>2. result[a] = "none" /\ flagResult[a] = "none" /\ ~(a > next)
      BY <1>1, <2>2 DEF Fetching, Trying, Fetches
    <3> QED BY <1>1, <2>1, <3>1, <3>2 DEF Fetching, Fetches, pool, flags
  <2>7. Own(a)'
    BY <1>0, <1>1, <2>1, <2>6 DEF Own, Flagging, Complete, Truthful, Counted, pool, flags
  <2> QED BY <2>4, <2>5, <2>7, LocalStep DEF pool, Trying, Fetches
<1>2. CASE phase # "fetch"
  <2>1. /\ step' = [step EXCEPT ![a] = "returned"]
        /\ flagResult' = [flagResult EXCEPT ![a] = "error"]
        /\ storeErr' = [storeErr EXCEPT ![a] = FALSE] /\ UNCHANGED <<fetch, want, todo, set>>
    BY <1>2 DEF OperationFails
  <2>2. Types' BY <1>0, <2>1 DEF Types, Steps, FirstAttempt, Fetches, pool, fetch
  <2>3. \A b \in Accounts \ {a} : Same(b) BY <1>0, <2>1 DEF Types, Same, fetch
  <2>4. Own(a)'
    BY <1>0, <1>2, <2>1 DEF Types, Own, Fetching, Fetches, Flagging, Complete, Truthful, Counted, pool, fetch
  <2> QED BY <2>1, <2>2, <2>3, <2>4, LocalStep DEF pool, Types
<1> QED BY <1>1, <1>2

\* The connection changes and with it, at most, where the call is.
LEMMA ConnectionStep ==
  ASSUME Inv, NEW a \in Accounts, UNCHANGED <<pool, fetch, permitted, flags>>,
         conn' \in [Accounts -> {"none", "fresh", "live", "dead"}],
         \A b \in Accounts \ {a} : conn'[b] = conn[b],
         \/ step' = step
         \/ /\ step[a] \in Trying
            /\ \E s \in {"reconnect"} \cup Fetches :
                 /\ step' = [step EXCEPT ![a] = s]
                 /\ s \in {"bodies", "rebodies"} => phase = "fetch"
            /\ step[a] = "store" => phase # "fetch"
  PROVE  Inv'
<1>0. Types /\ Own(a) BY DEF Inv
<1>1. Types' BY <1>0 DEF Types, Steps, FirstAttempt, Fetches, pool, fetch, flags
<1>2. \A b \in Accounts \ {a} : Same(b) BY <1>0 DEF Types, Same, fetch, flags
<1>3. Own(a)'
  <2>1. Counted(a, folder[a] - 1)' = Counted(a, folder[a] - 1)
        /\ Counted(a, Len(FoldersOf[a]))' = Counted(a, Len(FoldersOf[a]))
    BY DEF Counted, fetch
  <2>2. step'[a] = step[a] \/
          /\ step[a] \in Trying /\ step'[a] \in {"reconnect"} \cup Fetches
          /\ step'[a] \in {"bodies", "rebodies"} => phase = "fetch"
    BY <1>0 DEF Types
  <2> QED BY <1>0, <2>1, <2>2
    DEF Trying, Own, Fetching, Fetches, Flagging, Complete, Truthful, pool, fetch, flags
<1>4. step[a] \notin {"waiting", "returned"} \/ step'[a] \in {"waiting", "returned"}
  BY <1>0 DEF Types, Trying, Fetches
<1> QED BY <1>1, <1>2, <1>3, <1>4, LocalStep DEF pool

\* An attempt returns an error, in the eyes of withReconnect a lost connection or not.
LEMMA AttemptFailsStep ==
  ASSUME Inv, NEW a \in Accounts, AttemptFails(a), UNCHANGED <<pool, conn, permitted>>,
         step[a] \in Trying, step[a] = "store" => phase # "fetch"
  PROVE  Inv'
<1>0. Types BY DEF Inv
<1>1. CASE OperationFails(a) BY <1>0, <1>1, FailStep DEF Types
<1>2. CASE ~OperationFails(a)
  <2>1. step' = [step EXCEPT ![a] = "reconnect"] /\ UNCHANGED <<fetch, flags>>
    BY <1>2 DEF AttemptFails
  <2>2. /\ conn' = conn /\ UNCHANGED <<pool, fetch, permitted, flags>>
        /\ \E s \in {"reconnect"} \cup Fetches :
             step' = [step EXCEPT ![a] = s] /\ (s \in {"bodies", "rebodies"} => phase = "fetch")
    <3>1. "reconnect" \notin {"bodies", "rebodies"} OBVIOUS
    <3>2. conn' = conn /\ UNCHANGED <<pool, fetch, permitted, flags>> BY <2>1
    <3>3. "reconnect" \in {"reconnect"} \cup Fetches OBVIOUS
    <3> QED BY <2>1, <3>1, <3>2, <3>3
  <2> QED BY <1>0, <2>2, ConnectionStep DEF Types
<1> QED BY <1>1, <1>2

\* The steps of withReconnect, for a folder or for flags.
LEMMA RetrySteps ==
  ASSUME Inv, NEW a \in Accounts,
         \/ Drop(a) \/ Reconnect(a) \/ ReconnectFails(a) \/ FetchHeaders(a) \/ BodyUnreadable(a)
         \/ NotLoggedIn(a) \/ CommandFails(a) \/ ConnectionLost(a) \/ FlagsNotApplied(a)
  PROVE  Inv'
<1>0. Types BY DEF Inv
<1>1. CASE Drop(a) BY <1>0, <1>1, ConnectionStep DEF Drop, Types
<1>2. CASE Reconnect(a)
  <2>1. /\ conn' = [conn EXCEPT ![a] = "live"] /\ step[a] \in {"connect", "reconnect"}
        /\ \E s \in {"try", "retry"} : step' = [step EXCEPT ![a] = s]
    BY <1>2 DEF Reconnect, AfterReconnect
  <2>2. conn' \in [Accounts -> {"none", "fresh", "live", "dead"}]
        /\ \A b \in Accounts \ {a} : conn'[b] = conn[b]
    BY <1>0, <2>1 DEF Types
  <2>3. {"try", "retry"} \subseteq Fetches BY DEF Fetches
  <2> QED BY <1>0, <1>2, <2>1, <2>2, <2>3, ConnectionStep DEF Reconnect, Trying
<1>3. CASE ReconnectFails(a)
  <2>1. \E c \in {"none", "fresh"} : conn' = [conn EXCEPT ![a] = c] BY <1>3 DEF ReconnectFails
  <2> QED BY <1>0, <1>3, <2>1, FailStep DEF ReconnectFails, Types, Trying
<1>4. CASE FetchHeaders(a)
  <2>1. /\ phase = "fetch" /\ step[a] \in Trying
        /\ \E s \in Fetches : step' = [step EXCEPT ![a] = s]
        /\ step[a] # "store" /\ UNCHANGED <<pool, conn, fetch, permitted, flags>>
    BY <1>4 DEF FetchHeaders, Fetches, Trying
  <2> QED BY <1>0, <2>1, ConnectionStep DEF Types
<1>5. CASE NotLoggedIn(a) BY <1>0, <1>5, FailStep DEF NotLoggedIn, Types, Trying
<1>6. CASE BodyUnreadable(a) \/ CommandFails(a) \/ ConnectionLost(a)
  <2>1. step[a] \in Fetches /\ AttemptFails(a) /\ UNCHANGED <<pool, conn, permitted>>
    BY <1>6 DEF BodyUnreadable, CommandFails, ConnectionLost, Fetches
  <2>2. step[a] \in Trying /\ step[a] # "store" BY <2>1 DEF Trying, Fetches
  <2> QED BY <2>1, <2>2, AttemptFailsStep
<1>7. CASE FlagsNotApplied(a)
  <2>1. step[a] \in {"store", "restore"} /\ UNCHANGED <<pool, conn, permitted>>
        /\ (AttemptFails(a) \/ OperationFails(a))
    BY <1>7 DEF FlagsNotApplied
  <2>2. phase # "fetch" /\ step[a] \in Trying BY <2>1 DEF Inv, Own, Fetching, Fetches, Trying
  <2>3. CASE OperationFails(a) BY <1>0, <2>1, <2>2, <2>3, FailStep DEF Types
  <2> QED BY <2>1, <2>2, <2>3, AttemptFailsStep
<1> QED BY <1>1, <1>2, <1>3, <1>4, <1>5, <1>6, <1>7

-----------------------------------------------------------------------------
(* The folder loop *)

\* Fetch returns: with "ok" only after the last folder, none of them missed.
LEMMA NextFolderStep == ASSUME Inv, NEW a \in Accounts, NextFolder(a) PROVE Inv'
<1>0. Types /\ Own(a) /\ step[a] = "folder" BY DEF Inv, NextFolder
<1>1. phase = "fetch" /\ Fetching(a) /\ UNCHANGED <<pool, conn, got, permitted, flags>>
  BY <1>0 DEF Own, Flagging, NextFolder
<1>2. Len(FoldersOf[a]) \in Nat /\ folder[a] \in Nat \ {0} /\ folder[a] <= Len(FoldersOf[a]) + 1
  BY <1>0, IngestAssumption DEF Types
<1>3. ASSUME NEW r \in {"ok", "error"}, Return(a, r), r = "ok" => Counted(a, Len(FoldersOf[a]))
      PROVE  Inv'
  <2>1. Types'
    BY <1>0, <1>1, <1>2, <1>3 DEF Types, Return, Steps, FirstAttempt, Fetches, pool, flags
  <2>2. \A b \in Accounts \ {a} : Same(b) BY <1>0, <1>1, <1>3 DEF Types, Same, Return, flags
  <2>3. step'[a] = "returned" /\ result'[a] = r /\ ~missed'[a] /\ folder'[a] = 1
    BY <1>0, <1>3 DEF Types, Return
  <2>4. Counted(a, Len(FoldersOf[a]))' = Counted(a, Len(FoldersOf[a])) BY <1>1 DEF Counted
  <2>5. Own(a)'
    BY <1>0, <1>1, <1>3, <2>3, <2>4
    DEF Own, Fetching, Fetches, Flagging, Complete, Truthful, pool, flags
  <2>6. phase' = phase /\ next' = next BY <1>1 DEF pool
  <2> QED BY <1>0, <2>1, <2>2, <2>3, <2>5, <2>6, LocalStep
<1>4. CASE folder[a] > Len(FoldersOf[a])
  <2>0. ~(folder[a] <= Len(FoldersOf[a])) BY <1>2, <1>4
  <2>1. Return(a, IF missed[a] THEN "error" ELSE "ok") BY <1>4, <2>0 DEF NextFolder
  <2>2. folder[a] - 1 = Len(FoldersOf[a]) BY <1>2, <1>4
  <2>3. ~missed[a] => Counted(a, Len(FoldersOf[a])) BY <1>0, <1>1, <2>2 DEF Fetching, Fetches
  <2> QED BY <1>3, <2>1, <2>3
<1>5. CASE folder[a] <= Len(FoldersOf[a]) /\ cancelled
  <2>1. ~(folder[a] > Len(FoldersOf[a])) BY <1>2, <1>5
  <2>2. Return(a, "error") BY <1>5, <2>1 DEF NextFolder
  <2> QED BY <1>3, <2>2
<1>6. CASE folder[a] <= Len(FoldersOf[a]) /\ ~cancelled
  <2>1. ~(folder[a] > Len(FoldersOf[a])) BY <1>2, <1>6
  <2>2. /\ step' = [step EXCEPT ![a] = IF conn[a] = "none" THEN "connect" ELSE "try"]
        /\ UNCHANGED <<result, folder, missed>>
    BY <1>6, <2>1 DEF NextFolder
  <2>3. Types' BY <1>0, <1>1, <2>2 DEF Types, Steps, FirstAttempt, Fetches, pool, flags
  <2>4. \A b \in Accounts \ {a} : Same(b) BY <1>0, <1>1, <2>2 DEF Types, Same, flags
  <2>5. step'[a] \in {"connect", "try"} BY <1>0, <2>2 DEF Types
  <2>6. Own(a)'
    BY <1>0, <1>1, <1>6, <2>2, <2>5
    DEF Own, Fetching, Fetches, Flagging, Complete, Truthful, Counted, pool, flags
  <2> QED BY <1>0, <1>1, <2>3, <2>4, <2>6, LocalStep DEF pool
<1> QED BY <1>2, <1>4, <1>5, <1>6

\* A folder that was fetched is counted once, however often it was tried.
LEMMA FolderDoneStep ==
  ASSUME PartType, Inv, NEW a \in Accounts, SearchFindsNothing(a) \/ FetchBodies(a)
  PROVE  Inv'
<1>0. Types /\ Own(a) BY DEF Inv
<1>n. PICK n : n = folder[a] OBVIOUS
<1>1. /\ phase = "fetch" /\ Fetching(a) /\ step[a] \in Fetches
      /\ got' = [got EXCEPT ![a] = [m \in Messages |-> @[m] + part'[a][m]]] /\ Assign(a)
      /\ folder' = [folder EXCEPT ![a] = @ + 1] /\ step' = [step EXCEPT ![a] = "folder"]
      /\ UNCHANGED <<pool, conn, missed, result, permitted, flags>>
  BY <1>0 DEF Own, Flagging, SearchFindsNothing, FetchBodies, FolderDone, Fetches
<1>2. n \in Nat \ {0} /\ n <= Len(FoldersOf[a]) /\ Len(FoldersOf[a]) \in Nat
  BY <1>0, <1>n, <1>1, IngestAssumption DEF Types, Fetching, Fetches
<1>3. folder'[a] = n + 1 /\ step'[a] = "folder" BY <1>0, <1>n, <1>1 DEF Types
<1>4. got[a] \in [Messages -> Nat] BY <1>0 DEF Types
<1>5. got'[a] = [m \in Messages |-> got[a][m] + IF m \in Mail[Here(a)] THEN 1 ELSE 0]
  <2>1. got'[a] = [m \in Messages |-> got[a][m] + FolderMessages(a)[m]]
    BY <1>0, <1>1 DEF Types, PartType, Assign
  <2>2. step[a] \in {"bodies", "rebodies"} \/ Mail[Here(a)] = {}
    BY DEF SearchFindsNothing, FetchBodies
  <2> QED BY <2>1, <2>2 DEF FolderMessages, Once
<1>6. got'[a] \in [Messages -> Nat] BY <1>4, <1>5
<1>7. got' \in [Accounts -> [Messages -> Nat]]
  <2>1. \A b \in Accounts \ {a} : got'[b] = got[b] BY <1>0, <1>1 DEF Types
  <2>2. DOMAIN got' = Accounts /\ got' = [b \in Accounts |-> got'[b]] BY <1>0, <1>1 DEF Types
  <2>3. \A b \in Accounts : got'[b] \in [Messages -> Nat] BY <1>0, <1>6, <2>1 DEF Types
  <2> QED BY <2>2, <2>3
<1>8. Types' BY <1>0, <1>n, <1>1, <1>2, <1>7 DEF Types, Steps, FirstAttempt, Fetches, pool, flags
<1>9. \A b \in Accounts \ {a} : Same(b) BY <1>0, <1>1 DEF Types, Same, flags
<1>10. ~missed[a] => Counted(a, n)'
  <2>1. SUFFICES ASSUME ~missed[a], NEW m \in Messages
                 PROVE  got'[a][m] = Cardinality(Holding(a, n, m))
    BY DEF Counted
  <2>2. got[a][m] = Cardinality(Holding(a, n - 1, m)) BY <1>n, <1>1, <2>1 DEF Fetching, Fetches, Counted
  <2>3. got'[a][m] = got[a][m] + IF m \in Mail[FoldersOf[a][n]] THEN 1 ELSE 0
    BY <1>n, <1>4, <1>5 DEF Here
  <2> QED BY <1>2, <2>2, <2>3, CountNext
<1>11. Fetching(a)'
  <2>1. folder'[a] - 1 = n BY <1>2, <1>3
  <2> QED BY <1>0, <1>1, <1>3, <1>10, <2>1 DEF Fetching, Fetches, Counted, pool, flags
<1>12. Own(a)' BY <1>0, <1>1, <1>3, <1>11 DEF Own, Fetching, Fetches, Flagging, Complete, Truthful, pool, flags
<1> QED BY <1>1, <1>8, <1>9, <1>12, LocalStep DEF pool, Fetches

-----------------------------------------------------------------------------
(* Storing the flags *)

LEMMA SelectInboxStep == ASSUME Inv, NEW a \in Accounts, SelectInbox(a) PROVE Inv'
<1>0. Types /\ Own(a) BY DEF Inv
<1>1. PICK ks \in SUBSET Keywords : permitted' = [permitted EXCEPT ![a] = ks] BY DEF SelectInbox
<1>2. /\ phase = "flag" /\ step[a] \in {"try", "retry"}
      /\ step' = [step EXCEPT ![a] = IF @ = "try" THEN "store" ELSE "restore"]
      /\ todo' = [todo EXCEPT ![a] = want[a]] /\ storeErr' = [storeErr EXCEPT ![a] = FALSE]
      /\ UNCHANGED <<pool, conn, fetch, want, set, flagResult>>
  BY DEF SelectInbox
<1>3. Types'
  <2>1. want[a] \in SUBSET Keywords BY <1>0 DEF Types
  <2> QED BY <1>0, <1>1, <1>2, <2>1 DEF Types, Steps, FirstAttempt, Fetches, pool, fetch
<1>4. \A b \in Accounts \ {a} : Same(b) BY <1>0, <1>1, <1>2 DEF Types, Same, fetch
<1>5. step'[a] \in {"store", "restore"} /\ todo'[a] = want[a] BY <1>0, <1>2 DEF Types
<1>6. Own(a)'
  BY <1>0, <1>2, <1>5 DEF Own, Fetching, Fetches, Flagging, Complete, Truthful, Counted, pool, fetch
<1> QED BY <1>2, <1>3, <1>4, <1>6, LocalStep DEF pool

LEMMA StoreKeywordStep ==
  ASSUME Inv, NEW a \in Accounts, NEW k \in Keywords, StoreKeyword(a, k) PROVE Inv'
<1>0. Types /\ Own(a) BY DEF Inv
<1>1. /\ step[a] \in {"store", "restore"} /\ todo' = [todo EXCEPT ![a] = @ \ {k}]
      /\ UNCHANGED <<pool, conn, step, fetch, permitted, want, flagResult>>
  BY DEF StoreKeyword
<1>2. set' = set \/ set' = [set EXCEPT ![a] = @ \cup {k}] BY DEF StoreKeyword
<1>3. storeErr' = storeErr \/ storeErr' = [storeErr EXCEPT ![a] = TRUE] BY DEF StoreKeyword
<1>4. Types'
  <2>1. todo' \in [Accounts -> SUBSET Keywords] BY <1>0, <1>1 DEF Types
  <2>2. set' \in [Accounts -> SUBSET Keywords]
    <3>1. set \in [Accounts -> SUBSET Keywords] BY <1>0 DEF Types
    <3>2. set[a] \cup {k} \in SUBSET Keywords BY <3>1
    <3> QED BY <1>2, <3>1, <3>2
  <2>3. storeErr' \in [Accounts -> BOOLEAN] BY <1>0, <1>3 DEF Types
  <2> QED BY <1>0, <1>1, <2>1, <2>2, <2>3 DEF Types, pool, fetch
<1>5. \A b \in Accounts \ {a} : Same(b)
  BY <1>0, <1>1, <1>2, <1>3 DEF Types, Same, fetch
<1>6. phase # "fetch" /\ flagResult[a] = "none" BY <1>0, <1>1 DEF Own, Fetching, Fetches, Flagging
<1>7. ~storeErr'[a] => (want'[a] \cap permitted'[a]) \ todo'[a] \subseteq set'[a]
  <2>1. SUFFICES ASSUME ~storeErr'[a]
                 PROVE  (want[a] \cap permitted[a]) \ todo'[a] \subseteq set'[a]
    BY <1>1
  <2>2. ~storeErr[a] BY <1>0, <1>3, <2>1 DEF Types
  <2>3. (want[a] \cap permitted[a]) \ todo[a] \subseteq set[a]
    BY <1>0, <1>1, <1>6, <2>2 DEF Own, Flagging
  <2>4. todo'[a] = todo[a] \ {k} BY <1>0, <1>1 DEF Types
  <2>5. set[a] \subseteq set'[a] BY <1>0, <1>2 DEF Types
  <2>6. k \in permitted[a] => k \in set'[a]
    BY <1>0, <2>1 DEF StoreKeyword, Types
  <2> QED BY <2>3, <2>4, <2>5, <2>6
<1>8. Own(a)'
  BY <1>0, <1>1, <1>6, <1>7 DEF Own, Fetching, Fetches, Flagging, Complete, Truthful, Counted, pool, fetch
<1> QED BY <1>1, <1>4, <1>5, <1>8, LocalStep DEF pool

LEMMA FlagsAppliedStep == ASSUME Inv, NEW a \in Accounts, FlagsApplied(a) PROVE Inv'
<1>0. Types /\ Own(a) BY DEF Inv
<1>1. /\ step[a] \in {"store", "restore"} /\ todo[a] = {} /\ StoredAll(a)
      /\ step' = [step EXCEPT ![a] = "returned"] /\ flagResult' = [flagResult EXCEPT ![a] = "ok"]
      /\ UNCHANGED <<pool, conn, fetch, permitted, want, todo, storeErr, set>>
  BY DEF FlagsApplied
<1>2. Types' BY <1>0, <1>1 DEF Types, Steps, FirstAttempt, Fetches, pool, fetch
<1>3. \A b \in Accounts \ {a} : Same(b) BY <1>0, <1>1 DEF Types, Same, fetch
<1>4. step'[a] = "returned" BY <1>0, <1>1 DEF Types
<1>5. phase # "fetch" BY <1>0, <1>1 DEF Own, Fetching, Fetches
<1>6. want[a] \cap permitted[a] \subseteq set[a]
  BY <1>0, <1>1, <1>5 DEF Own, Flagging, StoredAll
<1>7. want[a] \cap permitted[a] # {}
  <2>1. want[a] \ permitted[a] # want[a] BY <1>1 DEF StoredAll, Skipped
  <2> QED BY <2>1
<1>8. Own(a)'
  BY <1>0, <1>1, <1>4, <1>5, <1>6, <1>7
  DEF Own, Fetching, Fetches, Flagging, Complete, Truthful, Counted, pool, fetch
<1> QED BY <1>0, <1>1, <1>2, <1>3, <1>8, LocalStep DEF pool

-----------------------------------------------------------------------------
(* The pool of workers *)

\* Another worker: there is one slot less.
LEMMA OneMoreWorker ==
  ASSUME NEW a \in Accounts, Working' \subseteq Working \cup {a}
  PROVE  Cardinality(Working') \in Nat /\ Cardinality(Working') <= Cardinality(Working) + 1
<1>1. IsFiniteSet(Working \cup {a}) /\ Cardinality(Working \cup {a}) <= Cardinality(Working) + 1
  <2>1. IsFiniteSet(Working) /\ Cardinality(Working) \in Nat BY WorkingFinite
  <2>2. a \in Working => Working \cup {a} = Working OBVIOUS
  <2>3. a \in Working => Cardinality(Working \cup {a}) = Cardinality(Working) BY <2>2, Zenon
  <2>4. IsFiniteSet(Working \cup {a}) BY <2>1, FS_AddElement
  <2>5. a \notin Working => Cardinality(Working \cup {a}) = Cardinality(Working) + 1
    BY <2>1, FS_AddElement
  <2> QED BY <2>1, <2>3, <2>4, <2>5
<1>2. Cardinality(Working') <= Cardinality(Working \cup {a}) /\ IsFiniteSet(Working')
  BY <1>1, FS_Subset
<1>3. Cardinality(Working') \in Nat /\ Cardinality(Working \cup {a}) \in Nat
  BY <1>1, <1>2, FS_CardinalityType
<1> QED BY <1>1, <1>2, <1>3, WorkingFinite

\* Go starts a worker only while a slot is free; the account was still to come.
LEMMA LaunchStep == ASSUME Inv, NEW a \in Accounts, Launch(a) PROVE Inv'
<1>0. Types /\ Own(a) BY DEF Inv
<1>1. /\ phase = "fetch" /\ a = next + 1 /\ SlotFree /\ next' = a
      /\ UNCHANGED <<phase, cancelled, conn, got, permitted, flags>>
  BY DEF Launch
<1>2. next \in Nat /\ a \in Nat /\ a <= NumAccounts /\ NumAccounts \in Nat
  BY <1>0, IngestAssumption DEF Types, Accounts
<1>3. step[a] = "waiting" /\ folder[a] = 1 /\ ~missed[a] /\ result[a] = "none"
      /\ flagResult[a] = "none" /\ Counted(a, 0)
  <2>1. Fetching(a) /\ a > next BY <1>0, <1>1, <1>2 DEF Own
  <2>2. step[a] = "waiting" /\ folder[a] = 1 /\ ~missed[a] BY <1>1, <2>1 DEF Fetching, Fetches
  <2>3. folder[a] - 1 = 0 BY <2>2
  <2>4. Counted(a, folder[a] - 1) /\ result[a] = "none" /\ flagResult[a] = "none"
    BY <1>1, <2>1, <2>2 DEF Fetching, Fetches
  <2> QED BY <2>2, <2>3, <2>4
<1>4. Return(a, "error") \/
        (step' = [step EXCEPT ![a] = "folder"] /\ UNCHANGED <<result, folder, missed>>)
  BY DEF Launch
<1>5. Types'
  <2>1. next' \in 0..NumAccounts BY <1>1, <1>2
  <2>2. Len(FoldersOf[a]) \in Nat BY IngestAssumption
  <2>3. CASE Return(a, "error")
    <3>1. /\ step' \in [Accounts -> Steps] /\ result' \in [Accounts -> {"none", "ok", "error"}]
          /\ missed' \in [Accounts -> BOOLEAN]
      BY <1>0, <2>3 DEF Types, Return, Steps, FirstAttempt, Fetches
    <3>2. folder' \in [Accounts -> Nat \ {0}] BY <1>0, <2>3 DEF Types, Return
    <3>3. \A b \in Accounts : folder'[b] <= Len(FoldersOf[b]) + 1
      BY <1>0, <2>2, <2>3 DEF Types, Return
    <3> QED BY <1>0, <1>1, <2>1, <3>1, <3>2, <3>3 DEF Types, flags
  <2>4. CASE step' = [step EXCEPT ![a] = "folder"] /\ UNCHANGED <<result, folder, missed>>
    BY <1>0, <1>1, <2>1, <2>4 DEF Types, Steps, FirstAttempt, Fetches, flags
  <2> QED BY <1>4, <2>3, <2>4
<1>6. \A b \in Accounts \ {a} : Same(b) BY <1>0, <1>1, <1>4 DEF Types, Same, Return, flags
<1>7. ASSUME NEW b \in Accounts, b # a PROVE Own(b)'
  <2>1. Own(b) /\ Same(b) BY <1>6, <1>7 DEF Inv
  <2>2. b \in Nat BY DEF Accounts
  <2>3. b > next' <=> b > next BY <1>1, <1>2, <1>7, <2>2
  <2> QED BY <1>1, <2>1, <2>3 DEF Own, Same, Fetching, Fetches, Flagging, Complete, Truthful, Counted
<1>8. Own(a)'
  <2>1. step'[a] \in {"returned", "folder"} /\ result'[a] \in {"none", "error"}
    BY <1>0, <1>3, <1>4 DEF Types, Return
  <2>2. ~(a > next') BY <1>1, <1>2
  <2>3. step'[a] # "returned" => result'[a] = "none" /\ folder'[a] - 1 = 0
    BY <1>0, <1>3, <1>4 DEF Types, Return
  <2>4. Counted(a, 0)' BY <1>1, <1>3 DEF Counted
  <2>5. Fetching(a)'
    BY <1>0, <1>1, <1>3, <2>1, <2>2, <2>3, <2>4 DEF Fetching, Fetches, Counted, flags
  <2> QED BY <1>1, <1>3, <2>1, <2>5 DEF Own, Flagging, Complete, Truthful, flags
<1>9. Bounded'
  <2>1. Working' \subseteq Working \cup {a} BY <1>6 DEF Working, Same
  <2>2. Cardinality(Working) < MaxConcurrent BY <1>1 DEF SlotFree
  <2> QED BY <1>1, <2>1, <2>2, OneMoreWorker, WorkingFinite, IngestAssumption DEF Bounded
<1> QED BY <1>5, <1>7, <1>8, <1>9 DEF Inv

\* The accounts are flagged one after the other.
LEMMA ApplyFlagsStep == ASSUME Inv, NEW a \in Accounts, ApplyFlags(a) PROVE Inv'
<1>0. Types /\ Own(a) BY DEF Inv
<1>1. /\ phase = "flag" /\ step[a] = "waiting" /\ Working = {}
      /\ step' = [step EXCEPT ![a] = IF conn[a] = "none" THEN "connect" ELSE "try"]
      /\ UNCHANGED <<pool, conn, fetch, permitted, todo, storeErr, set, flagResult>>
  BY DEF ApplyFlags
<1>2. PICK ks \in SUBSET Keywords : want' = [want EXCEPT ![a] = ks] BY DEF ApplyFlags
<1>3. Types' BY <1>0, <1>1, <1>2 DEF Types, Steps, FirstAttempt, Fetches, pool, fetch
<1>4. \A b \in Accounts \ {a} : Same(b) BY <1>0, <1>1, <1>2 DEF Types, Same, fetch
<1>5. ASSUME NEW b \in Accounts, b # a PROVE Own(b)'
  <2>1. Own(b) /\ Same(b) BY <1>4, <1>5 DEF Inv
  <2> QED BY <1>1, <2>1
     DEF Own, Same, Fetching, Fetches, Flagging, Complete, Truthful, Counted, pool
<1>6. step'[a] \in {"connect", "try"} BY <1>0, <1>1 DEF Types
<1>7. flagResult[a] = "none" BY <1>0, <1>1 DEF Own, Flagging
<1>8. Own(a)'
  BY <1>0, <1>1, <1>6, <1>7 DEF Own, Fetching, Fetches, Flagging, Complete, Truthful, Counted, pool, fetch
<1>9. Bounded'
  <2>1. Working' \subseteq Working \cup {a} BY <1>4 DEF Working, Same
  <2>2. Cardinality(Working) = 0 BY <1>1, FS_EmptySet
  <2> QED BY <1>1, <2>1, <2>2, OneMoreWorker DEF Bounded, pool
<1> QED BY <1>3, <1>5, <1>8, <1>9 DEF Inv

\* Every worker has returned, and flagging starts with what they returned.
LEMMA FetchAllReturnsStep == ASSUME Inv, FetchAllReturns PROVE Inv'
<1>0. Types BY DEF Inv
<1>1. /\ phase = "fetch" /\ phase' = "flag" /\ step' = [a \in Accounts |-> "waiting"]
      /\ \A a \in Accounts : step[a] = "returned"
      /\ UNCHANGED <<cancelled, next, conn, fetch, permitted, flags>>
  BY DEF FetchAllReturns
<1>2. Types' BY <1>0, <1>1 DEF Types, Steps, FirstAttempt, Fetches, fetch, flags
<1>3. ASSUME NEW a \in Accounts PROVE Own(a)'
  <2>1. Own(a) BY DEF Inv
  <2>2. flagResult[a] = "none" BY <1>1, <2>1 DEF Own, Fetching, Fetches
  <2> QED BY <1>1, <2>1, <2>2
     DEF Own, Fetching, Fetches, Flagging, Complete, Truthful, Counted, fetch, flags
<1>4. Bounded'
  <2>1. Working' = {} BY <1>1 DEF Working
  <2>2. Cardinality(Working') = 0 BY <2>1, FS_EmptySet
  <2> QED BY <1>1, <2>2 DEF Bounded
<1> QED BY <1>2, <1>3, <1>4 DEF Inv

\* Nothing of any account changes.
LEMMA QuietStep ==
  ASSUME Inv, Finish \/ Cancel \/ UNCHANGED vars
  PROVE  Inv'
<1>0. Types BY DEF Inv
<1>1. UNCHANGED <<next, conn, step, fetch, permitted, flags>>
  BY DEF Finish, Cancel, vars, pool
<1>2. (phase = "fetch" <=> phase' = "fetch") /\ phase' \in {"fetch", "flag", "done"}
      /\ cancelled' \in BOOLEAN
  BY <1>0 DEF Types, Finish, Cancel, vars, pool
<1>3. Types' BY <1>0, <1>1, <1>2 DEF Types, fetch, flags
<1>4. ASSUME NEW a \in Accounts PROVE Own(a)'
  <2>1. Own(a) BY DEF Inv
  <2> QED BY <1>1, <1>2, <2>1
     DEF Own, Fetching, Fetches, Flagging, Complete, Truthful, Counted, fetch, flags
<1>5. Bounded'
  <2>1. Working' = Working BY <1>1 DEF Working
  <2>2. Cardinality(Working') = Cardinality(Working) BY <2>1
  <2> QED BY <1>2, <2>2 DEF Inv, Bounded
<1> QED BY <1>3, <1>4, <1>5 DEF Inv

-----------------------------------------------------------------------------
(* The theorems *)

LEMMA InitInv == Init => Inv
<1> SUFFICES ASSUME Init PROVE Inv OBVIOUS
<1>1. 0 \in 0..NumAccounts BY IngestAssumption
<1>2. Types
  <2>1. \A a \in Accounts : folder[a] <= Len(FoldersOf[a]) + 1
    <3>1. \A a \in Accounts : Len(FoldersOf[a]) \in Nat BY IngestAssumption
    <3> QED BY <3>1 DEF Init
  <2>2. got \in [Accounts -> [Messages -> Nat]]
    <3>1. Once({}) \in [Messages -> Nat] BY DEF Once
    <3> QED BY <3>1 DEF Init
  <2>3. /\ conn \in [Accounts -> {"none", "fresh", "live", "dead"}]
        /\ step \in [Accounts -> Steps] /\ folder \in [Accounts -> Nat \ {0}]
        /\ missed \in [Accounts -> BOOLEAN] /\ storeErr \in [Accounts -> BOOLEAN]
        /\ result \in [Accounts -> {"none", "ok", "error"}]
        /\ flagResult \in [Accounts -> {"none", "ok", "error"}]
    BY DEF Init, Steps, FirstAttempt, Fetches
  <2>4. /\ permitted \in [Accounts -> SUBSET Keywords] /\ want \in [Accounts -> SUBSET Keywords]
        /\ todo \in [Accounts -> SUBSET Keywords] /\ set \in [Accounts -> SUBSET Keywords]
    <3>1. {} \in SUBSET Keywords OBVIOUS
    <3> QED BY <3>1 DEF Init
  <2>5. phase \in {"fetch", "flag", "done"} /\ cancelled \in BOOLEAN /\ next \in 0..NumAccounts
    BY <1>1 DEF Init
  <2> QED BY <2>1, <2>2, <2>3, <2>4, <2>5 DEF Types
<1>3. ASSUME NEW a \in Accounts PROVE Own(a)
  <2>1. a > next BY IngestAssumption DEF Init, Accounts
  <2>2. folder[a] - 1 = 0 BY DEF Init
  <2>3. Counted(a, folder[a] - 1)
    <3>1. \A m \in Messages : got[a][m] = 0 BY DEF Init, Once
    <3>2. Counted(a, 0) BY <3>1, CountNone DEF Counted
    <3> QED BY <2>2, <3>2
  <2> QED BY <2>1, <2>3 DEF Own, Init, Fetching, Fetches, Flagging, Complete, Truthful
<1>4. Bounded
  <2>1. Working = {} BY DEF Working, Init
  <2>2. Cardinality(Working) = 0 BY <2>1, FS_EmptySet
  <2> QED BY <2>2, IngestAssumption DEF Bounded, Init
<1> QED BY <1>2, <1>3, <1>4 DEF Inv

LEMMA StepInv == ASSUME PartType, Inv, [Next]_vars PROVE Inv'
<1>1. CASE FetchAllReturns BY <1>1, FetchAllReturnsStep
<1>2. CASE Finish \/ Cancel \/ UNCHANGED vars BY <1>2, QuietStep
<1>3. ASSUME NEW a \in Accounts,
             \/ Drop(a) \/ Reconnect(a) \/ ReconnectFails(a) \/ FetchHeaders(a) \/ BodyUnreadable(a)
             \/ NotLoggedIn(a) \/ CommandFails(a) \/ ConnectionLost(a) \/ FlagsNotApplied(a)
      PROVE  Inv'
  BY <1>3, RetrySteps
<1>4. ASSUME NEW a \in Accounts,
             Launch(a) \/ NextFolder(a) \/ SearchFindsNothing(a) \/ FetchBodies(a)
      PROVE  Inv'
  BY <1>4, LaunchStep, NextFolderStep, FolderDoneStep
<1>5. ASSUME NEW a \in Accounts, ApplyFlags(a) \/ SelectInbox(a) \/ FlagsApplied(a) PROVE Inv'
  BY <1>5, ApplyFlagsStep, SelectInboxStep, FlagsAppliedStep
<1>6. ASSUME NEW a \in Accounts, NEW k \in Keywords, StoreKeyword(a, k) PROVE Inv'
  BY <1>6, StoreKeywordStep
<1> QED BY <1>1, <1>2, <1>3, <1>4, <1>5, <1>6 DEF Next, Step

\* The inductive invariant holds of every run's IMAP work.
THEOREM InvariantHolds == Spec => []Inv
BY InitInv, StepInv, PartTypeHolds, PTL DEF Spec

\* The variables have their types, FetchAll never has more than
\* concurrency.max_accounts workers, and ApplyFlags works on one account at a
\* time.
THEOREM TypeCorrect == Spec => []TypeOK
<1>1. Inv /\ PartType => TypeOK
  <2> SUFFICES ASSUME Inv, PartType PROVE TypeOK OBVIOUS
  <2>1. Types /\ Bounded BY DEF Inv
  <2> QED BY <2>1 DEF Types, Bounded, PartType, TypeOK
<1> QED BY <1>1, InvariantHolds, PartTypeHolds, PTL

\* The folders of an account are counted to the last.
LEMMA MailboxIsHeld ==
  ASSUME NEW a \in Accounts, NEW m \in Messages
  PROVE  Mailbox[a][m] = Cardinality(Holding(a, Len(FoldersOf[a]), m))
<1>1. FoldersOf[a] \in Seq(DOMAIN Mail) BY IngestAssumption
<1>2. DOMAIN FoldersOf[a] = 1..Len(FoldersOf[a]) BY <1>1
<1> QED BY <1>2 DEF Holding, Mailbox

\* An account whose Fetch reports success has every message of every folder,
\* once for every folder that holds it: no reconnect loses or doubles one,
\* whatever was dropped, refused or retried on the way.
THEOREM FetchIsCompleteOrFails == Spec => []CompleteOrFailed
<1>1. Inv => CompleteOrFailed
  BY MailboxIsHeld DEF Inv, Own, Complete, Counted, CompleteOrFailed
<1> QED BY <1>1, InvariantHolds, PTL

\* When ApplyFlags returns nil, every keyword the server permits is stored and
\* there is at least one, although a first attempt may have failed half way.
THEOREM FlagsAreTruthful == Spec => []FlagsTruthful
<1>1. Inv => FlagsTruthful BY DEF Inv, Own, Truthful, FlagsTruthful
<1> QED BY <1>1, InvariantHolds, PTL

-----------------------------------------------------------------------------
(* The refinement *)

\* An account answers before any flag is applied, and what it stores it was asked for.
Settled(a) ==
  /\ result[a] = "none" => phase = "fetch" /\ step[a] # "returned"
  /\ set[a] \cup todo[a] \subseteq want[a]
  /\ phase = "fetch" \/ step[a] = "waiting" => set[a] = {} /\ todo[a] = {}
CallInv == Inv /\ \A a \in Accounts : Settled(a)

\* What the caller sees of account a.
SameView(a) ==
  /\ result'[a] = result[a] /\ flagResult'[a] = flagResult[a]
  /\ result[a] = "ok" => got'[a] = got[a]
  /\ FlagsReturned(a) => want'[a] = want[a] /\ set'[a] = set[a]

FetchReturns(a) ==
  /\ result[a] = "none" /\ UNCHANGED <<got, flags>>
  /\ \E r \in {"ok", "error"} : result' = [result EXCEPT ![a] = r]

FlagReturns(a) ==
  /\ phase # "fetch" /\ ~FlagsReturned(a) /\ UNCHANGED <<fetch, want, set>>
  /\ \/ flagResult' = [flagResult EXCEPT ![a] = "ok"] /\ set[a] # {}
     \/ flagResult' = [flagResult EXCEPT ![a] = "error"]

\* What a step may do that the caller sees.
Seen ==
  \/ \A b \in Accounts : SameView(b)
  \/ \E a \in Accounts : FetchReturns(a) \/ FlagReturns(a)

LEMMA FailSeen ==
  ASSUME CallInv, NEW a \in Accounts, OperationFails(a), UNCHANGED <<pool, permitted>>,
         step[a] \in Trying
  PROVE  Seen /\ \A b \in Accounts : Settled(b)'
<1>0. Types /\ Own(a) /\ Settled(a) BY DEF CallInv, Inv
<1>1. CASE phase = "fetch"
  <2>1. step' = [step EXCEPT ![a] = "folder"] /\ UNCHANGED <<got, result, flags>>
    BY <1>1 DEF OperationFails
  <2>2. \A b \in Accounts : SameView(b) BY <2>1 DEF SameView, flags
  <2>3. \A b \in Accounts : Settled(b)'
    <3> SUFFICES ASSUME NEW b \in Accounts PROVE Settled(b)' OBVIOUS
    <3>1. Settled(b) BY DEF CallInv
    <3> QED BY <1>0, <1>1, <2>1, <3>1 DEF Settled, Types, pool, flags
  <2> QED BY <2>2, <2>3 DEF Seen
<1>2. CASE phase # "fetch"
  <2>1. /\ step' = [step EXCEPT ![a] = "returned"]
        /\ flagResult' = [flagResult EXCEPT ![a] = "error"]
        /\ UNCHANGED <<fetch, want, todo, set>>
    BY <1>2 DEF OperationFails
  <2>2. FlagReturns(a)
    BY <1>0, <1>2, <2>1 DEF FlagReturns, FlagsReturned, Own, Flagging, Trying, Fetches
  <2>3. \A b \in Accounts : Settled(b)'
    <3> SUFFICES ASSUME NEW b \in Accounts PROVE Settled(b)' OBVIOUS
    <3>1. Settled(b) BY DEF CallInv
    <3> QED BY <1>0, <1>2, <2>1, <3>1 DEF Settled, Types, pool, fetch
  <2> QED BY <2>2, <2>3 DEF Seen
<1> QED BY <1>1, <1>2

LEMMA FetchSeen ==
  ASSUME CallInv, NEW a \in Accounts,
         Launch(a) \/ NextFolder(a) \/ SearchFindsNothing(a) \/ FetchBodies(a)
  PROVE  Seen /\ \A b \in Accounts : Settled(b)'
<1>0. Types /\ Own(a) /\ Settled(a) BY DEF CallInv, Inv
<1>1. phase = "fetch" /\ result[a] = "none" /\ step[a] # "returned"
  <2>1. CASE Launch(a)
    <3>1. phase = "fetch" /\ a > next
      BY <1>0, <2>1, IngestAssumption DEF Launch, Types, Accounts
    <3> QED BY <1>0, <3>1 DEF Own, Fetching, Fetches
  <2>2. CASE NextFolder(a) BY <1>0, <2>2 DEF NextFolder, Own, Fetching, Fetches, Flagging
  <2>3. CASE SearchFindsNothing(a) \/ FetchBodies(a)
    BY <1>0, <2>3 DEF SearchFindsNothing, FetchBodies, Own, Fetching, Fetches, Flagging
  <2> QED BY <2>1, <2>2, <2>3
<1>2. phase' = phase /\ UNCHANGED flags
  BY DEF Launch, NextFolder, SearchFindsNothing, FetchBodies, FolderDone, pool
<1>3. CASE \E r \in {"ok", "error"} : Return(a, r) /\ UNCHANGED got
  <2>1. FetchReturns(a) BY <1>1, <1>2, <1>3 DEF FetchReturns, Return
  <2>2. PICK r \in {"ok", "error"} : Return(a, r) BY <1>3
  <2>3. \A b \in Accounts : Settled(b)'
    <3> SUFFICES ASSUME NEW b \in Accounts PROVE Settled(b)' OBVIOUS
    <3>1. Settled(b) BY DEF CallInv
    <3> QED BY <1>0, <1>1, <1>2, <2>2, <3>1 DEF Settled, Types, Return, flags
  <2> QED BY <2>1, <2>3 DEF Seen
<1>4. CASE /\ \E s \in {"folder", "connect", "try"} : step' = [step EXCEPT ![a] = s]
           /\ result' = result /\ \A b \in Accounts \ {a} : got'[b] = got[b]
  <2>1. \A b \in Accounts : SameView(b) BY <1>1, <1>2, <1>4 DEF SameView, flags
  <2>2. \A b \in Accounts : Settled(b)'
    <3> SUFFICES ASSUME NEW b \in Accounts PROVE Settled(b)' OBVIOUS
    <3>1. Settled(b) BY DEF CallInv
    <3> QED BY <1>0, <1>1, <1>2, <1>4, <3>1 DEF Settled, Types, flags
  <2> QED BY <2>1, <2>2 DEF Seen
<1>5. CASE Launch(a) BY <1>3, <1>4, <1>5 DEF Launch
<1>6. CASE NextFolder(a) BY <1>3, <1>4, <1>6 DEF NextFolder
<1>7. CASE SearchFindsNothing(a) \/ FetchBodies(a)
  BY <1>0, <1>4, <1>7 DEF SearchFindsNothing, FetchBodies, FolderDone, Types
<1> QED BY <1>5, <1>6, <1>7

LEMMA FlagSeen ==
  ASSUME CallInv, NEW a \in Accounts,
         ApplyFlags(a) \/ SelectInbox(a) \/ \E k \in Keywords : StoreKeyword(a, k)
  PROVE  Seen /\ \A b \in Accounts : Settled(b)'
<1>0. Types /\ Own(a) /\ Settled(a) BY DEF CallInv, Inv
<1>1. /\ phase # "fetch" /\ ~FlagsReturned(a) /\ step[a] # "returned" /\ phase' = phase
      /\ UNCHANGED <<fetch, flagResult>>
  BY <1>0
  DEF Own, Fetching, Fetches, Flagging, FlagsReturned, ApplyFlags, SelectInbox, StoreKeyword, pool
<1>2. /\ \A b \in Accounts \ {a} : /\ want'[b] = want[b] /\ set'[b] = set[b]
                                  /\ todo'[b] = todo[b] /\ step'[b] = step[b]
      /\ set'[a] \cup todo'[a] \subseteq want'[a] /\ step'[a] # "waiting"
  <2>1. CASE ApplyFlags(a) BY <1>0, <2>1 DEF ApplyFlags, Settled, Types
  <2>2. CASE SelectInbox(a) BY <1>0, <2>2 DEF SelectInbox, Settled, Types
  <2>3. CASE \E k \in Keywords : StoreKeyword(a, k)
    <3>1. PICK k \in Keywords : StoreKeyword(a, k) BY <2>3
    <3>2. /\ step[a] \in {"store", "restore"} /\ k \in todo[a]
          /\ todo' = [todo EXCEPT ![a] = @ \ {k}] /\ step' = step /\ want' = want
      BY <3>1 DEF StoreKeyword
    <3>3. set' = set \/ set' = [set EXCEPT ![a] = @ \cup {k}] BY <3>1 DEF StoreKeyword
    <3> QED BY <1>0, <3>2, <3>3 DEF Settled, Types
  <2> QED BY <2>1, <2>2, <2>3
<1>3. \A b \in Accounts : SameView(b) BY <1>1, <1>2 DEF SameView, fetch, FlagsReturned
<1>4. \A b \in Accounts : Settled(b)'
  <2> SUFFICES ASSUME NEW b \in Accounts PROVE Settled(b)' OBVIOUS
  <2>1. Settled(b) BY DEF CallInv
  <2> QED BY <1>0, <1>1, <1>2, <2>1 DEF Settled, fetch
<1> QED BY <1>3, <1>4 DEF Seen

\* The other steps: of a connection, of the whole run, or none.
LEMMA StepSeen ==
  ASSUME CallInv, [Next]_vars
  PROVE  Seen /\ \A b \in Accounts : Settled(b)'
<1>0. Types BY DEF CallInv, Inv
<1>1. ASSUME NEW a \in Accounts,
             Launch(a) \/ NextFolder(a) \/ SearchFindsNothing(a) \/ FetchBodies(a)
      PROVE  Seen /\ \A b \in Accounts : Settled(b)'
  BY <1>1, FetchSeen
<1>2. ASSUME NEW a \in Accounts,
             ApplyFlags(a) \/ SelectInbox(a) \/ \E k \in Keywords : StoreKeyword(a, k)
      PROVE  Seen /\ \A b \in Accounts : Settled(b)'
  BY <1>2, FlagSeen
<1>3. ASSUME UNCHANGED <<result, got, flags>>,
             \A b \in Accounts : /\ phase' = phase
                                 /\ step'[b] \in {"returned", "waiting"} => step'[b] = step[b]
      PROVE  Seen /\ \A b \in Accounts : Settled(b)'
  <2>1. \A b \in Accounts : SameView(b) BY <1>3 DEF SameView, flags
  <2>2. \A b \in Accounts : Settled(b)'
    <3> SUFFICES ASSUME NEW b \in Accounts PROVE Settled(b)' OBVIOUS
    <3>1. Settled(b) BY DEF CallInv
    <3> QED BY <1>3, <3>1 DEF Settled, flags
  <2> QED BY <2>1, <2>2 DEF Seen
<1>4. ASSUME NEW a \in Accounts, Drop(a) \/ Reconnect(a) \/ FetchHeaders(a)
      PROVE  Seen /\ \A b \in Accounts : Settled(b)'
  BY <1>0, <1>3, <1>4 DEF Drop, Reconnect, FetchHeaders, AfterReconnect, pool, fetch, Types
<1>5. ASSUME NEW a \in Accounts,
             \/ ReconnectFails(a) \/ BodyUnreadable(a) \/ NotLoggedIn(a) \/ CommandFails(a)
             \/ ConnectionLost(a) \/ FlagsNotApplied(a)
      PROVE  Seen /\ \A b \in Accounts : Settled(b)'
  <2>1. /\ step[a] \in Trying /\ UNCHANGED <<pool, permitted>>
        /\ OperationFails(a) \/ AttemptFails(a)
    BY <1>5
    DEF ReconnectFails, BodyUnreadable, NotLoggedIn, CommandFails, ConnectionLost, FlagsNotApplied,
        Trying, Fetches
  <2>2. CASE OperationFails(a) BY <2>1, <2>2, FailSeen
  <2>3. CASE ~OperationFails(a)
    <3>1. step' = [step EXCEPT ![a] = "reconnect"] /\ UNCHANGED <<pool, fetch, flags>>
      BY <2>1, <2>3 DEF AttemptFails
    <3> QED BY <1>0, <1>3, <3>1 DEF Types, pool, fetch
  <2> QED BY <2>2, <2>3
<1>6. ASSUME NEW a \in Accounts, FlagsApplied(a)
      PROVE  Seen /\ \A b \in Accounts : Settled(b)'
  <2>1. Own(a) /\ Settled(a) BY DEF CallInv, Inv
  <2>2. /\ step[a] \in {"store", "restore"} /\ todo[a] = {} /\ StoredAll(a)
        /\ step' = [step EXCEPT ![a] = "returned"] /\ flagResult' = [flagResult EXCEPT ![a] = "ok"]
        /\ UNCHANGED <<pool, fetch, want, todo, set>>
    BY <1>6 DEF FlagsApplied
  <2>3. phase # "fetch" /\ ~FlagsReturned(a)
    BY <2>1, <2>2 DEF Own, Fetching, Fetches, Flagging, FlagsReturned
  <2>4. want[a] \cap permitted[a] \subseteq set[a] BY <2>1, <2>2, <2>3 DEF Own, Flagging, StoredAll
  <2>5. want[a] \ permitted[a] # want[a] BY <2>2 DEF StoredAll, Skipped
  <2>6. set[a] # {} BY <2>4, <2>5
  <2>7. FlagReturns(a) BY <2>2, <2>3, <2>6 DEF FlagReturns
  <2>8. \A b \in Accounts : Settled(b)'
    <3> SUFFICES ASSUME NEW b \in Accounts PROVE Settled(b)' OBVIOUS
    <3>1. Settled(b) BY DEF CallInv
    <3> QED BY <1>0, <2>2, <2>3, <3>1 DEF Settled, Types, pool, fetch
  <2> QED BY <2>7, <2>8 DEF Seen
<1>7. ASSUME FetchAllReturns PROVE Seen /\ \A b \in Accounts : Settled(b)'
  <2>1. \A b \in Accounts : SameView(b) BY <1>7 DEF FetchAllReturns, SameView, fetch, flags
  <2>2. \A b \in Accounts : Settled(b)'
    <3> SUFFICES ASSUME NEW b \in Accounts PROVE Settled(b)' OBVIOUS
    <3>1. Settled(b) BY DEF CallInv
    <3> QED BY <1>7, <3>1 DEF FetchAllReturns, Settled, fetch, flags
  <2> QED BY <2>1, <2>2 DEF Seen
<1>8. ASSUME Finish \/ Cancel \/ UNCHANGED vars PROVE Seen /\ \A b \in Accounts : Settled(b)'
  <2>1. /\ UNCHANGED <<step, fetch, flags>>
        /\ phase' = phase \/ (phase = "flag" /\ phase' = "done")
    BY <1>8 DEF Finish, Cancel, vars, pool
  <2>2. \A b \in Accounts : SameView(b) BY <2>1 DEF SameView, fetch, flags
  <2>3. \A b \in Accounts : Settled(b)'
    <3> SUFFICES ASSUME NEW b \in Accounts PROVE Settled(b)' OBVIOUS
    <3>1. Settled(b) BY DEF CallInv
    <3> QED BY <2>1, <3>1 DEF Settled, fetch, flags
  <2> QED BY <2>2, <2>3 DEF Seen
<1> QED BY <1>1, <1>2, <1>4, <1>5, <1>6, <1>7, <1>8 DEF Next, Step

LEMMA CallInvHolds == Spec => []CallInv
<1>1. Init => CallInv BY InitInv DEF Init, CallInv, Settled
<1>2. PartType /\ CallInv /\ [Next]_vars => CallInv' BY StepInv, StepSeen DEF CallInv
<1> QED BY <1>1, <1>2, PartTypeHolds, PTL DEF Spec

Taken == [a \in Accounts |-> IF result[a] = "ok" THEN got[a] ELSE Once({})]
Asked == [a \in Accounts |-> IF FlagsReturned(a) THEN want[a] ELSE {}]
Stored == [a \in Accounts |-> IF FlagsReturned(a) THEN set[a] ELSE {}]

\* A step the caller sees is a step of the call.
LEMMA SeenIsCall ==
  ASSUME CallInv, CallInv', Seen
  PROVE  [Call!Next]_(Call!vars)
<1>0. Types /\ Types' BY DEF CallInv, Inv
<1>1. CASE \A b \in Accounts : SameView(b)
  <2>1. result' = result /\ flagResult' = flagResult BY <1>0, <1>1 DEF SameView, Types
  <2>2. Taken' = Taken BY <1>1 DEF SameView, Taken
  <2>3. Asked' = Asked /\ Stored' = Stored BY <1>1 DEF SameView, Asked, Stored, FlagsReturned
  <2> QED BY <2>1, <2>2, <2>3 DEF Call!vars, Taken, Asked, Stored
<1>2. ASSUME NEW a \in Accounts, FetchReturns(a) PROVE Call!FetchAccount(a) \/ Call!FetchAccountFails(a)
  <2>1. Asked' = Asked /\ Stored' = Stored /\ flagResult' = flagResult
    BY <1>2 DEF FetchReturns, flags, Asked, Stored, FlagsReturned
  <2>2. PICK r \in {"ok", "error"} : result' = [result EXCEPT ![a] = r]
    BY <1>2 DEF FetchReturns
  <2>3. result[a] = "none" /\ got' = got BY <1>2 DEF FetchReturns
  <2>4. CASE r = "error"
    <3>1. Taken' = Taken BY <1>0, <2>2, <2>3, <2>4 DEF Taken, Types
    <3> QED BY <2>1, <2>2, <2>3, <2>4, <3>1
         DEF Call!FetchAccountFails, Taken, Asked, Stored
  <2>5. CASE r = "ok"
    <3>1. result'[a] = "ok" BY <1>0, <2>2, <2>5 DEF Types
    <3>2. got[a] = Mailbox[a]
      <4>1. \A m \in Messages : got'[a][m] = Mailbox[a][m]
        BY <3>1, MailboxIsHeld DEF CallInv, Inv, Own, Complete, Counted
      <4>2. got[a] \in [Messages -> Nat] /\ DOMAIN Mailbox[a] = Messages BY <1>0 DEF Types, Mailbox
      <4> QED BY <2>3, <4>1, <4>2 DEF Mailbox
    <3>3. Taken' = [Taken EXCEPT ![a] = Mailbox[a]]
      BY <1>0, <2>2, <2>3, <2>5, <3>2 DEF Taken, Types
    <3> QED BY <2>1, <2>2, <2>3, <2>5, <3>3
         DEF Call!FetchAccount, Taken, Asked, Stored
  <2> QED BY <2>4, <2>5
<1>3. ASSUME NEW a \in Accounts, FlagReturns(a) PROVE Call!FlagAccount(a)
  <2>1. phase # "fetch" /\ ~FlagsReturned(a) /\ UNCHANGED <<fetch, want, set>>
    BY <1>3 DEF FlagReturns
  <2>2. \A b \in Accounts : result[b] # "none" BY <2>1 DEF CallInv, Settled
  <2>3. PICK r \in {"ok", "error"} : flagResult' = [flagResult EXCEPT ![a] = r]
                                     /\ (r = "ok" => set[a] # {})
    BY <1>3 DEF FlagReturns
  <2>4. Taken' = Taken /\ result' = result BY <2>1 DEF Taken, fetch
  <2>5. Asked' = [Asked EXCEPT ![a] = want[a]] /\ Stored' = [Stored EXCEPT ![a] = set[a]]
    BY <1>0, <2>1, <2>3 DEF Asked, Stored, FlagsReturned, Types
  <2>6. want[a] \in SUBSET Keywords /\ set[a] \in SUBSET want[a]
    BY <1>0 DEF Types, CallInv, Settled
  <2>7. flagResult[a] = "none" BY <2>1 DEF FlagsReturned
  <2>8. \E asked \in SUBSET Keywords : \E done \in SUBSET asked :
          /\ Asked' = [Asked EXCEPT ![a] = asked] /\ Stored' = [Stored EXCEPT ![a] = done]
          /\ \/ done # {} /\ flagResult' = [flagResult EXCEPT ![a] = "ok"]
             \/ flagResult' = [flagResult EXCEPT ![a] = "error"]
    BY <2>3, <2>5, <2>6
  <2> QED BY <2>2, <2>4, <2>7, <2>8 DEF Call!FlagAccount, Taken, Asked, Stored
<1> QED BY <1>1, <1>2, <1>3 DEF Seen, Call!Next

\* However many workers, folders and attempts there are, what the pipeline sees of
\* FetchAll and ApplyFlags is one step per account and call.
THEOREM IngestImplementsCall == Spec => ImplementsCall
<1>1. Init => Call!Init
  <2> SUFFICES ASSUME Init PROVE Call!Init OBVIOUS
  <2>1. \A a \in Accounts : DOMAIN Mailbox[a] = Messages BY DEF Mailbox
  <2> QED BY <2>1 DEF Init, Call!Init, Call!Nothing, FlagsReturned, Once
<1>2. CallInv /\ CallInv' /\ [Next]_vars => [Call!Next]_(Call!vars)
  BY StepSeen, SeenIsCall
<1> QED BY <1>1, <1>2, CallInvHolds, PTL DEF Spec, ImplementsCall, Call!Spec
=============================================================================
