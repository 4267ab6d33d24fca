---------------------------- MODULE StartupProofs ----------------------------
(***************************************************************************)
(* Opening the ledger is safe for any number of processes and migrations:  *)
(* an open store has every table, and a version stays dirty only because a *)
(* process stopped halfway.  The invariant says, of the file, that a clean *)
(* version has its tables and, of each process, that the migrations before *)
(* the one it is at were applied, by whichever process.                    *)
(*                                                                         *)
(* Every step of a process is a step of opening the ledger or leaves the   *)
(* ledger alone, so what holds of the schema holds of the whole start-up;  *)
(* and with the place a process has reached it follows that a run that     *)
(* needs the ledger has all of it.                                         *)
(***************************************************************************)
EXTENDS Startup, TLAPS

-----------------------------------------------------------------------------
(* Module Schema *)

CleanIsApplied == ~dirty => 1..version \subseteq tables

\* The migrations that a process at this point of Up relies on.
Behind(p) ==
  CASE opening[p] \in {"mark", "apply"} -> 1..(next[p] - 1)
    [] opening[p] = "clean"             -> 1..next[p]
    [] opening[p] = "open"              -> All
    [] opening[p] = "closed"            -> {}
ProgressIsApplied == \A p \in Procs : Behind(p) \subseteq tables

DirtyIsExplained == dirty => interrupted \/ \E p \in Procs : opening[p] \in Halfway

SchemaInv ==
  SchemaTypeOK /\ CleanIsApplied /\ ProgressIsApplied /\ DirtyIsExplained

-----------------------------------------------------------------------------

\* The ranges of migrations are what arithmetic says.
LEMMA Ranges ==
  ASSUME NEW n \in All
  PROVE  /\ 1..n = 1..(n - 1) \cup {n} /\ n \in 0..Migrations
         /\ n # Migrations => n + 1 \in All /\ (n + 1) - 1 = n
BY SchemaAssumption DEF All

LEMMA SchemaInitInv == SchemaInit => SchemaInv
<1> SUFFICES ASSUME SchemaInit PROVE SchemaInv
  OBVIOUS
<1>1. SchemaTypeOK
  <2>1. 0 \in 0..Migrations /\ 1 \in All
    BY SchemaAssumption DEF All
  <2>2. opening \in [Procs -> Opening] /\ next \in [Procs -> All]
    BY <2>1 DEF SchemaInit, Opening
  <2> QED
    BY <2>1, <2>2 DEF SchemaInit, SchemaTypeOK
<1>2. CleanIsApplied
  BY DEF SchemaInit, CleanIsApplied
<1>3. ProgressIsApplied
  BY DEF SchemaInit, ProgressIsApplied, Behind
<1>4. DirtyIsExplained
  BY DEF SchemaInit, DirtyIsExplained
<1> QED
  BY <1>1, <1>2, <1>3, <1>4 DEF SchemaInv

\* Reading the version: a clean one vouches for the tables before the first
\* migration this process will apply.
LEMMA UpInv ==
  ASSUME SchemaInv, NEW p \in Procs, Up(p)
  PROVE  SchemaInv'
<1> USE DEF SchemaInv
<1>1. SchemaTypeOK'
  BY SchemaAssumption DEF SchemaTypeOK, Up, All, Opening, Halfway
<1>2. CleanIsApplied'
  BY DEF Up, CleanIsApplied
<1>3. ASSUME NEW q \in Procs PROVE Behind(q)' \subseteq tables'
  <2>1. CASE q # p
    <3>1. Behind(q)' = Behind(q)
      BY <2>1 DEF Up, SchemaTypeOK, Behind, All
    <3> QED
      BY <3>1 DEF ProgressIsApplied, Up
  <2>2. CASE q = p /\ version = Migrations
    <3>1. opening'[p] = "open" /\ tables' = tables /\ ~dirty
      BY <2>2 DEF Up, SchemaTypeOK
    <3> QED
      BY <2>2, <3>1 DEF Behind, CleanIsApplied, All
  <2>3. CASE q = p /\ version # Migrations
    <3>1. /\ opening'[p] = "mark" /\ next'[p] = version + 1
          /\ tables' = tables /\ ~dirty
      BY <2>3 DEF Up, SchemaTypeOK
    <3>2. (version + 1) - 1 = version
      BY SchemaAssumption DEF SchemaTypeOK
    <3> QED
      BY <2>3, <3>1, <3>2 DEF Behind, CleanIsApplied
  <2> QED
    BY <2>1, <2>2, <2>3
<1>4. DirtyIsExplained'
  BY DEF Up, DirtyIsExplained
<1> QED
  BY <1>1, <1>2, <1>3, <1>4 DEF ProgressIsApplied

LEMMA MarkDirtyInv ==
  ASSUME SchemaInv, NEW p \in Procs, MarkDirty(p)
  PROVE  SchemaInv'
<1> USE DEF SchemaInv
<1>1. SchemaTypeOK'
  BY Ranges DEF SchemaTypeOK, MarkDirty, Opening, Halfway
<1>2. CleanIsApplied'
  BY DEF MarkDirty, CleanIsApplied
<1>3. ASSUME NEW q \in Procs PROVE Behind(q)' \subseteq tables'
  <2>1. Behind(q)' = Behind(q)
    BY DEF MarkDirty, SchemaTypeOK, Behind, All
  <2> QED
    BY <2>1 DEF ProgressIsApplied, MarkDirty
<1>4. DirtyIsExplained'
  BY DEF MarkDirty, DirtyIsExplained, SchemaTypeOK, Halfway
<1> QED
  BY <1>1, <1>2, <1>3, <1>4 DEF ProgressIsApplied

LEMMA ApplyInv ==
  ASSUME SchemaInv, NEW p \in Procs, Apply(p)
  PROVE  SchemaInv'
<1> USE DEF SchemaInv
<1>1. SchemaTypeOK'
  BY DEF SchemaTypeOK, Apply, Opening, Halfway
<1>2. CleanIsApplied'
  BY DEF Apply, CleanIsApplied
<1>3. ASSUME NEW q \in Procs PROVE Behind(q)' \subseteq tables'
  <2>1. CASE q # p
    <3>1. Behind(q)' = Behind(q) /\ tables \subseteq tables'
      BY <2>1 DEF Apply, SchemaTypeOK, Behind, All
    <3> QED
      BY <3>1 DEF ProgressIsApplied
  <2>2. CASE q = p
    <3>1. /\ opening[p] = "apply" /\ opening'[p] = "clean" /\ next' = next
          /\ next[p] \in All /\ tables' = tables \cup {next[p]}
      BY DEF Apply, SchemaTypeOK
    <3>2. Behind(p) = 1..(next[p] - 1) /\ Behind(p)' = 1..next[p]
      BY <3>1 DEF Behind
    <3>3. Behind(p) \subseteq tables
      BY DEF ProgressIsApplied
    <3> QED
      BY <2>2, <3>1, <3>2, <3>3, Ranges
  <2> QED
    BY <2>1, <2>2
<1>4. DirtyIsExplained'
  BY DEF Apply, DirtyIsExplained, SchemaTypeOK, Halfway
<1> QED
  BY <1>1, <1>2, <1>3, <1>4 DEF ProgressIsApplied

\* The version that becomes clean is the one whose tables this process saw
\* applied, even when other processes have moved the version meanwhile.
LEMMA MarkCleanInv ==
  ASSUME SchemaInv, NEW p \in Procs, MarkClean(p)
  PROVE  SchemaInv'
<1> USE DEF SchemaInv
<1>0. /\ opening[p] = "clean" /\ next[p] \in All /\ version' = next[p]
      /\ tables' = tables /\ ~dirty' /\ 1..next[p] \subseteq tables
  BY DEF MarkClean, SchemaTypeOK, ProgressIsApplied, Behind
<1>1. SchemaTypeOK'
  BY <1>0, Ranges DEF SchemaTypeOK, MarkClean, Opening, Halfway
<1>2. CleanIsApplied'
  BY <1>0 DEF CleanIsApplied
<1>3. ASSUME NEW q \in Procs PROVE Behind(q)' \subseteq tables'
  <2>1. CASE q # p
    <3>1. Behind(q)' = Behind(q)
      BY <2>1 DEF MarkClean, SchemaTypeOK, Behind, All
    <3> QED
      BY <3>1, <1>0 DEF ProgressIsApplied
  <2>2. CASE q = p /\ next[p] = Migrations
    <3>1. opening'[p] = "open"
      BY <2>2 DEF MarkClean, SchemaTypeOK
    <3> QED
      BY <2>2, <3>1, <1>0 DEF Behind, All
  <2>3. CASE q = p /\ next[p] # Migrations
    <3>1. opening'[p] = "mark" /\ next'[p] = next[p] + 1
      BY <2>3 DEF MarkClean, SchemaTypeOK
    <3>2. (next[p] + 1) - 1 = next[p]
      BY <1>0, <2>3, Ranges
    <3> QED
      BY <2>3, <3>1, <3>2, <1>0 DEF Behind
  <2> QED
    BY <2>1, <2>2, <2>3
<1>4. DirtyIsExplained'
  BY <1>0 DEF DirtyIsExplained
<1> QED
  BY <1>1, <1>2, <1>3, <1>4 DEF ProgressIsApplied

\* A process that stops halfway leaves its mark.
LEMMA LetGoInv ==
  ASSUME SchemaInv, NEW p \in Procs, LetGo(p)
  PROVE  SchemaInv'
<1> USE DEF SchemaInv
<1>1. SchemaTypeOK'
  BY DEF SchemaTypeOK, LetGo, Opening, Halfway
<1>2. CleanIsApplied'
  BY DEF LetGo, CleanIsApplied
<1>3. ASSUME NEW q \in Procs PROVE Behind(q)' \subseteq tables'
  <2>1. CASE q # p
    <3>1. Behind(q)' = Behind(q)
      BY <2>1 DEF LetGo, SchemaTypeOK, Behind, All
    <3> QED
      BY <3>1 DEF ProgressIsApplied, LetGo
  <2>2. CASE q = p
    <3>1. opening'[p] = "closed"
      BY DEF LetGo, SchemaTypeOK
    <3> QED
      BY <2>2, <3>1 DEF Behind
  <2> QED
    BY <2>1, <2>2
<1>4. DirtyIsExplained'
  BY DEF LetGo, DirtyIsExplained, SchemaTypeOK, Halfway
<1> QED
  BY <1>1, <1>2, <1>3, <1>4 DEF ProgressIsApplied

LEMMA SchemaStepInv == SchemaInv /\ [SchemaNext]_schemaVars => SchemaInv'
<1> SUFFICES ASSUME SchemaInv, [SchemaNext]_schemaVars PROVE SchemaInv'
  OBVIOUS
<1>1. CASE UNCHANGED schemaVars
  BY <1>1 DEF schemaVars, SchemaInv, SchemaTypeOK, CleanIsApplied,
              ProgressIsApplied, Behind, DirtyIsExplained
<1>2. ASSUME NEW p \in Procs, Up(p) \/ MarkDirty(p) \/ Apply(p) \/ MarkClean(p) \/ LetGo(p)
      PROVE  SchemaInv'
  BY <1>2, UpInv, MarkDirtyInv, ApplyInv, MarkCleanInv, LetGoInv
<1> QED
  BY <1>1, <1>2 DEF SchemaNext

LEMMA SchemaInvImplies == SchemaInv => OpenHasTables /\ DirtyHasCause
<1> SUFFICES ASSUME SchemaInv PROVE OpenHasTables /\ DirtyHasCause
  OBVIOUS
<1>1. ASSUME NEW p \in Procs, opening[p] = "open" PROVE tables = All
  <2>1. Behind(p) = All
    BY <1>1 DEF Behind
  <2> QED
    BY <2>1 DEF SchemaInv, ProgressIsApplied, SchemaTypeOK
<1>2. DirtyHasCause
  BY DEF SchemaInv, DirtyIsExplained, DirtyHasCause
<1> QED
  BY <1>1, <1>2 DEF OpenHasTables

LEMMA SchemaCorrect == SchemaSpec => []SchemaInv
BY SchemaInitInv, SchemaStepInv, PTL DEF SchemaSpec

\* Whatever processes migrate the file together, stop or are killed, a process
\* whose store is open has every table.
THEOREM OpenStoresAreComplete == SchemaSpec => []OpenHasTables
BY SchemaCorrect, SchemaInvImplies, PTL

\* Only a process that stopped between marking a version and cleaning it leaves
\* the version dirty.
THEOREM DirtyVersionsAreExplained == SchemaSpec => []DirtyHasCause
BY SchemaCorrect, SchemaInvImplies, PTL

-----------------------------------------------------------------------------
(* Module Startup *)

Stage == {"idle", "validate", "store", "dial", "login", "run", "disconnect", "close"}

\* From the store on a process is validated; past it, it is open.
Needs(p) ==
  /\ stage[p] \in {"store", "dial", "login", "run"} => (Stateless(p) => cfg[p].unread)
  /\ stage[p] \in {"dial", "login", "run"} => Stateless(p) \/ opening[p] = "open"

StageInv ==
  /\ stage \in [Procs -> Stage] /\ cfg = [p \in Procs |-> cfg[p]]
  /\ \A p \in Procs : Needs(p)

-----------------------------------------------------------------------------

LEMMA StepIsSchemaStep == [Next]_vars => [SchemaNext]_schemaVars
<1> SUFFICES ASSUME [Next]_vars PROVE [SchemaNext]_schemaVars
  OBVIOUS
<1>1. CASE UNCHANGED vars
  BY <1>1 DEF vars
<1>2. ASSUME NEW p \in Procs, Migrate(p) PROVE SchemaNext
  BY <1>2 DEF Migrate, SchemaNext
<1>3. ASSUME NEW p \in Procs, OpenStoreFails(p) \/ CloseStore(p) \/ Kill(p) PROVE SchemaNext
  BY <1>3 DEF OpenStoreFails, CloseStore, Kill, SchemaNext
<1>4. ASSUME NEW p \in Procs,
             \/ Start(p) \/ Validate(p) \/ ValidateRefuses(p) \/ OpenStore(p)
             \/ Dial(p) \/ DialFails(p) \/ Login(p) \/ LoginFails(p)
             \/ Assemble(p) \/ AssembleFails(p) \/ Run(p) \/ Disconnect(p)
      PROVE  UNCHANGED schemaVars
  BY <1>4 DEF Start, Validate, ValidateRefuses, OpenStore, Dial, DialFails, Login,
              LoginFails, Assemble, AssembleFails, Run, Disconnect
<1> QED
  BY <1>1, <1>2, <1>3, <1>4 DEF Next

\* What every process does to the ledger is what module Schema allows.
THEOREM StartupKeepsSchema == Spec => SchemaSpec
<1>1. Init => SchemaInit
  BY DEF Init
<1> QED
  BY <1>1, StepIsSchemaStep, PTL DEF Spec, SchemaSpec

-----------------------------------------------------------------------------

LEMMA StageInitInv == Init => StageInv
BY DEF Init, StageInv, Stage, Needs

\* Every step leaves the other processes where they are.
LEMMA OthersStay ==
  ASSUME StageInv, SchemaTypeOK, NEW p \in Procs, NEW q \in Procs, q # p,
         \/ Start(p) \/ Validate(p) \/ ValidateRefuses(p)
         \/ Migrate(p) \/ OpenStore(p) \/ OpenStoreFails(p)
         \/ Dial(p) \/ DialFails(p) \/ Login(p) \/ LoginFails(p)
         \/ Assemble(p) \/ AssembleFails(p) \/ Run(p)
         \/ Disconnect(p) \/ CloseStore(p) \/ Kill(p)
  PROVE  stage'[q] = stage[q] /\ cfg'[q] = cfg[q] /\ opening'[q] = opening[q]
<1> USE DEF StageInv, SchemaTypeOK, Goto, Exit, schemaVars, local
<1>1. CASE Migrate(p)
  BY <1>1 DEF Migrate, Up, MarkDirty, Apply, MarkClean
<1>2. CASE OpenStoreFails(p) \/ CloseStore(p) \/ Kill(p)
  BY <1>2 DEF OpenStoreFails, CloseStore, Kill, LetGo
<1>3. CASE Start(p) \/ Validate(p) \/ ValidateRefuses(p)
  BY <1>3 DEF Start, Validate, ValidateRefuses
<1>4. CASE OpenStore(p) \/ Dial(p) \/ DialFails(p) \/ Login(p) \/ LoginFails(p)
  BY <1>4 DEF OpenStore, Dial, DialFails, Login, LoginFails
<1>5. CASE Assemble(p) \/ AssembleFails(p) \/ Run(p) \/ Disconnect(p)
  BY <1>5 DEF Assemble, AssembleFails, Run, Disconnect
<1> QED
  BY <1>1, <1>2, <1>3, <1>4, <1>5

\* A step of run() that stops short of the store, or gives up what it holds.
LEMMA StopsShort ==
  ASSUME StageInv, SchemaTypeOK, NEW p \in Procs,
         \/ Start(p) \/ ValidateRefuses(p) \/ OpenStoreFails(p) \/ DialFails(p)
         \/ LoginFails(p) \/ AssembleFails(p) \/ Run(p) \/ Disconnect(p)
         \/ CloseStore(p) \/ Kill(p)
  PROVE  stage' \in [Procs -> Stage] /\ cfg' = [x \in Procs |-> cfg'[x]] /\ Needs(p)'
<1> USE DEF StageInv, Stage, Goto, Exit, local
<1>1. CASE Start(p)
  <2>1. stage'[p] \in {"idle", "validate"}
    BY <1>1 DEF Start
  <2> QED
    BY <1>1, <2>1 DEF Start, Needs
<1>2. CASE ValidateRefuses(p) \/ OpenStoreFails(p) \/ DialFails(p) \/ LoginFails(p)
  BY <1>2 DEF ValidateRefuses, OpenStoreFails, DialFails, LoginFails, Needs
<1>3. CASE AssembleFails(p) \/ Run(p) \/ Disconnect(p) \/ CloseStore(p) \/ Kill(p)
  BY <1>3 DEF AssembleFails, Run, Disconnect, CloseStore, Kill, Needs
<1> QED
  BY <1>1, <1>2, <1>3

\* Validation is the only way to the store.
LEMMA ValidateIsChecked ==
  ASSUME StageInv, NEW p \in Procs, Validate(p)
  PROVE  stage' \in [Procs -> Stage] /\ cfg' = [x \in Procs |-> cfg'[x]] /\ Needs(p)'
<1>1. stage' \in [Procs -> Stage] /\ cfg' = [x \in Procs |-> cfg'[x]]
  BY DEF Validate, StageInv, Stage, Goto
<1>2. CASE Valid(cfg'[p])
  <2>1. stage'[p] = "store" /\ (cfg'[p].stateless => cfg'[p].unread)
    BY <1>2 DEF Validate, StageInv, Goto, Valid
  <2> QED
    BY <1>1, <2>1 DEF Needs, Stateless
<1>3. CASE ~Valid(cfg'[p])
  <2>1. stage'[p] = "idle"
    BY <1>3 DEF Validate, StageInv, Goto
  <2> QED
    BY <1>1, <2>1 DEF Needs
<1> QED
  BY <1>2, <1>3

\* A step of a process that holds its store, or is opening it.
LEMMA GoesOn ==
  ASSUME StageInv, SchemaTypeOK, NEW p \in Procs,
         Migrate(p) \/ OpenStore(p) \/ Dial(p) \/ Login(p) \/ Assemble(p)
  PROVE  stage' \in [Procs -> Stage] /\ cfg' = [x \in Procs |-> cfg'[x]] /\ Needs(p)'
<1> USE DEF StageInv, Stage, Goto, local
<1>1. CASE Migrate(p)
  BY <1>1 DEF Migrate, Needs, Stateless
<1>2. CASE OpenStore(p)
  BY <1>2 DEF OpenStore, schemaVars, Needs, Stateless
<1>3. CASE Dial(p) \/ Login(p) \/ Assemble(p)
  BY <1>3 DEF Dial, Login, Assemble, schemaVars, Needs, Stateless
<1> QED
  BY <1>1, <1>2, <1>3

LEMMA StageStepInv == SchemaTypeOK /\ StageInv /\ [Next]_vars => StageInv'
<1> SUFFICES ASSUME SchemaTypeOK, StageInv, [Next]_vars PROVE StageInv'
  OBVIOUS
<1>1. CASE UNCHANGED vars
  BY <1>1 DEF vars, local, schemaVars, StageInv, Needs, Stateless
<1>2. CASE Next
  <2>1. PICK p \in Procs :
           \/ Start(p) \/ Validate(p) \/ ValidateRefuses(p)
           \/ Migrate(p) \/ OpenStore(p) \/ OpenStoreFails(p)
           \/ Dial(p) \/ DialFails(p) \/ Login(p) \/ LoginFails(p)
           \/ Assemble(p) \/ AssembleFails(p) \/ Run(p)
           \/ Disconnect(p) \/ CloseStore(p) \/ Kill(p)
    BY <1>2 DEF Next
  <2>2. stage' \in [Procs -> Stage] /\ cfg' = [x \in Procs |-> cfg'[x]] /\ Needs(p)'
    BY <2>1, StopsShort, ValidateIsChecked, GoesOn
  <2>3. ASSUME NEW q \in Procs, q # p PROVE Needs(q)'
    <3>1. stage'[q] = stage[q] /\ cfg'[q] = cfg[q] /\ opening'[q] = opening[q]
      BY <2>1, <2>3, OthersStay
    <3> QED
      BY <3>1 DEF StageInv, Needs, Stateless
  <2> QED
    BY <2>2, <2>3 DEF StageInv
<1> QED
  BY <1>1, <1>2

LEMMA StageImplies == StageInv /\ OpenHasTables => RunHasLedger
BY DEF StageInv, Needs, OpenHasTables, RunHasLedger, Stateless

\* However the layers are set, however many processes start, migrate, fail and are
\* killed, a run that needs the ledger has opened it and finds every table.
THEOREM RunsHaveTheirLedger == Spec => []RunHasLedger
<1>1. SchemaInv => SchemaTypeOK
  BY DEF SchemaInv
<1> QED
  BY <1>1, StageInitInv, StageStepInv, StageImplies, SchemaInvImplies, SchemaCorrect,
     StartupKeepsSchema, PTL DEF Spec

-----------------------------------------------------------------------------
(* Every account has its connection, and nothing is left open.  The loop    *)
(* connects the accounts in their order, so imapClients is 1, 2, ... up to  *)
(* the number connected, and the open connections follow from the stage.    *)

Config == [stateless : BOOLEAN, unread : BOOLEAN, accounts : Seq(Account)]
ConnectionsTypeOK ==
  /\ cfg \in [Procs -> Config] /\ conns \in [Procs -> SUBSET Nat]
  /\ clients \in [Procs -> Seq(Nat)] /\ byLabel \in [Procs -> [Labels -> Nat]]

Connected(p) == 1..Len(clients[p])
Holds(p) ==
  CASE stage[p] \in {"dial", "run", "disconnect"} -> Connected(p)
    [] stage[p] = "login"                         -> Connected(p) \cup {Place(p)}
    [] OTHER                                      -> {}
Servable(accounts) == LabelsUnique(accounts) /\ \A i \in DOMAIN accounts : accounts[i].port # 0

\* The connections of p, by the place it has reached.
InOrder(p) ==
  /\ \A i \in Connected(p) : clients[p][i] = i
  /\ conns[p] = Holds(p)
  /\ stage[p] \in {"idle", "validate"} => opening[p] = "closed"
  /\ stage[p] \in {"validate", "store"} => clients[p] = <<>>
  /\ stage[p] \in {"store", "dial", "login", "run"} => Servable(Accounts(p))
  /\ stage[p] \in {"dial", "login", "run"} =>
       /\ Connected(p) \subseteq DOMAIN Accounts(p)
       /\ \A i \in Connected(p) : byLabel[p][Accounts(p)[i].label] = i
  /\ stage[p] = "login" => Place(p) \in DOMAIN Accounts(p)
  /\ stage[p] = "run" => DOMAIN Accounts(p) = Connected(p)

ConnectionsInv == ConnectionsTypeOK /\ \A p \in Procs : InOrder(p)

\* Normalizing keeps a list of accounts one, and leaves no port at zero.
LEMMA NormalizedAccounts ==
  ASSUME NEW accounts \in Seq(Account)
  PROVE  /\ Normalized(accounts) \in Seq(Account)
         /\ DOMAIN Normalized(accounts) = DOMAIN accounts
         /\ \A i \in DOMAIN accounts : Normalized(accounts)[i].port # 0
<1>1. \A a \in Account : normalize(a) \in Account /\ normalize(a).port # 0
  BY DEF normalize, Account, DefaultPort
<1>2. \A i \in DOMAIN accounts : accounts[i] \in Account
  OBVIOUS
<1>3. Normalized(accounts) \in [1..Len(accounts) -> Account]
  BY <1>1, <1>2 DEF Normalized
<1>4. Normalized(accounts) \in Seq(Account)
  BY <1>3
<1> QED
  BY <1>1, <1>2, <1>4 DEF Normalized

LEMMA LayerTyped ==
  ASSUME NEW c \in Config, NEW l \in Layers
  PROVE  loadFile(c, l) \in Config /\ loadEnv(c, l) \in Config /\ loadFlags(c, l) \in Config
<1>1. l.stateless \in Switch /\ l.unread \in Switch /\ l.accounts \in Seq(Account)
  BY StartupAssumption
<1>2. \A w \in Switch, b \in BOOLEAN : Chosen(w, b) \in BOOLEAN
  BY DEF Switch, Chosen
<1>3. c.stateless \in BOOLEAN /\ c.unread \in BOOLEAN /\ c.accounts \in Seq(Account)
  BY DEF Config
<1>4. Over(c, l) \in Config /\ Over(c, l).accounts = c.accounts
  <2>1. ASSUME NEW x \in BOOLEAN, NEW y \in BOOLEAN
        PROVE  LET d == [c EXCEPT !.stateless = x, !.unread = y]
               IN  d \in Config /\ d.accounts = c.accounts
    BY DEF Config
  <2>2. Chosen(l.stateless, c.stateless) \in BOOLEAN /\ Chosen(l.unread, c.unread) \in BOOLEAN
    BY <1>1, <1>2, <1>3
  <2> QED
    BY <2>1, <2>2 DEF Over
<1>5. \A s \in Seq(Account) : [Over(c, l) EXCEPT !.accounts = s] \in Config
  BY <1>4 DEF Config
<1>6. loadFile(c, l) \in Config
  BY <1>1, <1>3, <1>4, <1>5 DEF loadFile
<1>7. c.accounts \o Normalized(l.accounts) \in Seq(Account)
  BY <1>1, <1>3, NormalizedAccounts
<1> QED
  BY <1>4, <1>5, <1>6, <1>7 DEF loadEnv, loadFlags

LEMMA LoadTyped ==
  ASSUME NEW file \in File, NEW env \in Env, NEW flags \in Flags
  PROVE  Load(file, env, flags) \in Config
<1>1. Default \in Config
  BY DEF Default, Config
<1>2. loadFile(Default, file) \in Config
  BY <1>1, LayerTyped DEF Layers
<1>3. loadEnv(loadFile(Default, file), env) \in Config
  BY <1>2, LayerTyped DEF Layers
<1> QED
  BY <1>3, LayerTyped DEF Layers, Load

\* What passes Validate can be served.
LEMMA ValidatedServable ==
  ASSUME NEW c \in Config
  PROVE  /\ Validated(c) \in Config
         /\ Valid(Validated(c)) => Servable(Validated(c).accounts)
<1>1. c.accounts \in Seq(Account)
  BY DEF Config
<1>2. Validated(c) = [stateless |-> c.stateless, unread |-> c.unread,
                      accounts |-> Normalized(c.accounts)]
  BY DEF Validated, Config
<1> QED
  BY <1>1, <1>2, NormalizedAccounts DEF Config, Valid, Servable

-----------------------------------------------------------------------------

LEMMA ConnectionsInitInv == Init => ConnectionsInv
<1> SUFFICES ASSUME Init PROVE ConnectionsInv
  OBVIOUS
<1>1. ConnectionsTypeOK
  BY DEF Init, ConnectionsTypeOK, Config, Default, NoAccount
<1>2. ASSUME NEW p \in Procs PROVE InOrder(p)
  BY DEF Init, SchemaInit, InOrder, Holds, Connected
<1> QED
  BY <1>1, <1>2 DEF ConnectionsInv

LEMMA ConnectedInOrder ==
  ASSUME NEW p \in Procs, clients[p] \in Seq(Nat), InOrder(p)
  PROVE  ToSet(clients[p]) = 1..Len(clients[p])
<1>1. \A i \in 1..Len(clients[p]) : clients[p][i] = i
  BY DEF InOrder, Connected
<1>2. DOMAIN clients[p] = 1..Len(clients[p])
  OBVIOUS
<1>3. ToSet(clients[p]) = {clients[p][i] : i \in 1..Len(clients[p])}
  BY <1>2 DEF ToSet
<1> QED
  BY <1>1, <1>3

LEMMA SameEnd ==
  ASSUME NEW m \in Nat, NEW n \in Nat, m + 1 \notin 1..n, 1..m \subseteq 1..n
  PROVE  m = n
<1>1. n <= m
  OBVIOUS
<1>2. m = 0 \/ m \in 1..m
  OBVIOUS
<1> QED
  BY <1>1, <1>2

\* A step that changes only where p is, and gives up connections if it must.
LEMMA MovingOn ==
  ASSUME StageInv, SchemaTypeOK, ConnectionsInv, NEW p \in Procs,
         \/ Assemble(p) \/ AssembleFails(p) \/ Run(p) \/ Disconnect(p) \/ CloseStore(p)
         \/ Kill(p) \/ OpenStoreFails(p) \/ ValidateRefuses(p)
  PROVE  ConnectionsTypeOK' /\ InOrder(p)'
<1> USE DEF StageInv, SchemaTypeOK, ConnectionsInv, Goto, Exit
<1>0. /\ ConnectionsTypeOK /\ InOrder(p) /\ Connected(p) = ToSet(clients[p])
      /\ Len(clients[p]) \in Nat /\ Len(Accounts(p)) \in Nat
      /\ DOMAIN Accounts(p) = 1..Len(Accounts(p))
  <2>1. clients[p] \in Seq(Nat) /\ cfg[p].accounts \in Seq(Account)
    BY DEF ConnectionsTypeOK, Config
  <2>3. ToSet(clients[p]) = 1..Len(clients[p])
    BY <2>1, ConnectedInOrder
  <2> QED
    BY <2>1, <2>3 DEF Connected, Accounts
<1>1. CASE Assemble(p)
  <2>1. /\ stage[p] = "dial" /\ stage' = [stage EXCEPT ![p] = "run"]
        /\ UNCHANGED <<cfg, conns, clients, byLabel, opening>>
    BY <1>1 DEF Assemble, schemaVars
  <2>2. DOMAIN Accounts(p) = Connected(p)
    <3>1. Len(clients[p]) + 1 \notin 1..Len(Accounts(p))
      BY <1>0, <1>1 DEF Assemble, Place
    <3>2. 1..Len(clients[p]) \subseteq 1..Len(Accounts(p))
      BY <1>0, <2>1 DEF InOrder, Connected
    <3>3. Len(clients[p]) = Len(Accounts(p))
      BY <1>0, <3>1, <3>2, SameEnd
    <3> QED
      BY <1>0, <3>3 DEF Connected
  <2> QED
    BY <1>0, <2>1, <2>2 DEF ConnectionsTypeOK, InOrder, Holds, Connected, Accounts, Place
<1>2. CASE AssembleFails(p) \/ Run(p)
  BY <1>0, <1>2 DEF AssembleFails, Run, schemaVars,
                    ConnectionsTypeOK, InOrder, Holds, Connected, Accounts, Place
<1>3. CASE Disconnect(p)
  BY <1>0, <1>3 DEF Disconnect, schemaVars,
                    ConnectionsTypeOK, InOrder, Holds, Connected, Accounts, Place
<1>4. CASE CloseStore(p) \/ OpenStoreFails(p)
  <2>1. /\ stage[p] \in {"close", "store"} /\ stage'[p] = "idle" /\ opening'[p] = "closed"
        /\ UNCHANGED <<cfg, conns, clients, byLabel>>
    BY <1>4 DEF CloseStore, OpenStoreFails, LetGo
  <2> QED
    BY <1>0, <2>1 DEF ConnectionsTypeOK, InOrder, Holds, Connected
<1>5. CASE Kill(p)
  BY <1>0, <1>5 DEF Kill, LetGo, ConnectionsTypeOK, InOrder, Holds, Connected, Accounts, Place
<1>6. CASE ValidateRefuses(p)
  BY <1>0, <1>6 DEF ValidateRefuses, schemaVars,
                    ConnectionsTypeOK, InOrder, Holds, Connected, Accounts, Place
<1> QED
  BY <1>1, <1>2, <1>3, <1>4, <1>5, <1>6

\* Configuring a process and opening its store: it has no connection yet.
LEMMA NotYetConnected ==
  ASSUME StageInv, SchemaTypeOK, ConnectionsInv, NEW p \in Procs,
         Start(p) \/ Validate(p) \/ Migrate(p) \/ OpenStore(p)
  PROVE  ConnectionsTypeOK' /\ InOrder(p)'
<1> USE DEF StageInv, SchemaTypeOK, ConnectionsInv, Goto
<1>0. ConnectionsTypeOK /\ InOrder(p)
  OBVIOUS
<1>1. CASE Start(p)
  <2>1. stage[p] = "idle" /\ stage'[p] \in {"idle", "validate"} /\ clients'[p] = <<>>
    BY <1>0, <1>1 DEF Start, ConnectionsTypeOK, Stage
  <2>2. cfg' \in [Procs -> Config]
    <3>1. CASE UNCHANGED cfg
      BY <1>0, <3>1 DEF ConnectionsTypeOK
    <3>2. ASSUME NEW file \in File, NEW env \in Env, NEW flags \in Flags,
                 cfg' = [cfg EXCEPT ![p] = Load(file, env, flags)]
          PROVE  cfg' \in [Procs -> Config]
      BY <1>0, <3>2, LoadTyped DEF ConnectionsTypeOK
    <3> QED
      BY <1>1, <3>1, <3>2 DEF Start
  <2>3. ConnectionsTypeOK'
    <3>1. UNCHANGED conns /\ clients' = [clients EXCEPT ![p] = <<>>]
          /\ byLabel' = [byLabel EXCEPT ![p] = [l \in Labels |-> 0]]
      BY <1>1 DEF Start, NoAccount
    <3> QED
      BY <1>0, <2>2, <3>1 DEF ConnectionsTypeOK
  <2>4. UNCHANGED <<conns, opening>>
    BY <1>1 DEF Start, schemaVars
  <2> QED
    <3>1. Connected(p)' = {}
      BY <2>1 DEF Connected
    <3>2. conns[p] = {} /\ opening[p] = "closed"
      BY <1>0, <2>1 DEF InOrder, Holds
    <3>3. Holds(p)' = {}
      BY <2>1 DEF Holds
    <3>4. conns'[p] = {} /\ opening'[p] = "closed"
      BY <2>4, <3>2
    <3> QED
      BY <2>1, <2>3, <3>1, <3>3, <3>4 DEF InOrder
<1>2. CASE Validate(p)
  <2>1. cfg[p] \in Config /\ cfg' = [cfg EXCEPT ![p] = Validated(cfg[p])]
    BY <1>0, <1>2 DEF Validate, ConnectionsTypeOK
  <2>2. cfg' \in [Procs -> Config] /\ cfg'[p] = Validated(cfg[p])
    BY <1>0, <2>1, ValidatedServable DEF ConnectionsTypeOK
  <2>3. stage'[p] = IF Valid(cfg'[p]) THEN "store" ELSE "idle"
    BY <1>2 DEF Validate
  <2>4. stage'[p] = "store" => Servable(Accounts(p))'
    BY <2>1, <2>2, <2>3, ValidatedServable DEF Accounts
  <2>5. UNCHANGED <<conns, clients, byLabel, opening>> /\ stage[p] = "validate"
    BY <1>2 DEF Validate, schemaVars
  <2> QED
    BY <1>0, <2>2, <2>3, <2>4, <2>5 DEF ConnectionsTypeOK, InOrder, Holds, Connected
<1>3. CASE Migrate(p)
  BY <1>0, <1>3 DEF Migrate, local, ConnectionsTypeOK, InOrder, Holds, Connected, Accounts, Place
<1>4. CASE OpenStore(p)
  BY <1>0, <1>4 DEF OpenStore, schemaVars, ConnectionsTypeOK, InOrder, Holds, Connected, Accounts
<1> QED
  BY <1>1, <1>2, <1>3, <1>4

\* The loop over the accounts: one more connection, found under its label, or an
\* error that gives up the earlier ones and the one just made.
LEMMA LoopStep ==
  ASSUME StageInv, SchemaTypeOK, ConnectionsInv, NEW p \in Procs,
         Dial(p) \/ DialFails(p) \/ Login(p) \/ LoginFails(p)
  PROVE  ConnectionsTypeOK' /\ InOrder(p)'
<1> DEFINE n == Len(clients[p])
<1> USE DEF StageInv, SchemaTypeOK, ConnectionsInv, Goto, Exit
<1>0. /\ ConnectionsTypeOK /\ InOrder(p) /\ UNCHANGED <<cfg, opening>>
      /\ clients[p] \in Seq(Nat) /\ n \in Nat /\ Place(p) = n + 1 /\ Connected(p) = 1..n
      /\ cfg[p].accounts \in Seq(Account) /\ conns[p] = Holds(p)
  BY DEF ConnectionsTypeOK, InOrder, Connected, Place, Config, schemaVars,
         Dial, DialFails, Login, LoginFails
<1>1. CASE Dial(p)
  <2>1. /\ stage[p] = "dial" /\ stage'[p] = "login" /\ Place(p) \in DOMAIN Accounts(p)
        /\ conns' = [conns EXCEPT ![p] = conns[p] \cup {Place(p)}]
        /\ UNCHANGED <<clients, byLabel>>
    BY <1>1 DEF Dial
  <2>2. conns'[p] = Connected(p) \cup {Place(p)} /\ conns' \in [Procs -> SUBSET Nat]
    BY <1>0, <2>1 DEF Holds, ConnectionsTypeOK
  <2> QED
    BY <1>0, <2>1, <2>2 DEF ConnectionsTypeOK, InOrder, Holds, Connected, Accounts, Place
<1>2. CASE Login(p)
  <2>1. /\ stage[p] = "login" /\ stage'[p] = "dial" /\ UNCHANGED conns
        /\ clients' = [clients EXCEPT ![p] = Append(clients[p], n + 1)]
        /\ byLabel' = [byLabel EXCEPT ![p][Accounts(p)[n + 1].label] = n + 1]
    BY <1>0, <1>2 DEF Login
  <2>2. /\ clients' \in [Procs -> Seq(Nat)] /\ Connected(p)' = 1..(n + 1)
        /\ \A i \in 1..n : clients'[p][i] = clients[p][i]
        /\ clients'[p][n + 1] = n + 1
    BY <1>0, <2>1 DEF ConnectionsTypeOK, Connected
  <2>3. 1..(n + 1) = 1..n \cup {n + 1}
    BY <1>0
  <2>4. n + 1 \in DOMAIN Accounts(p) /\ Servable(Accounts(p)) /\ 1..n \subseteq DOMAIN Accounts(p)
    BY <1>0, <2>1 DEF InOrder
  <2>5. \A i \in DOMAIN Accounts(p) : Accounts(p)[i].label \in Labels
    <3>1. \A i \in DOMAIN cfg[p].accounts : cfg[p].accounts[i] \in Account
      BY <1>0
    <3> QED
      BY <3>1 DEF Accounts, Account
  <2>6. byLabel' \in [Procs -> [Labels -> Nat]]
    <3>1. n + 1 \in Nat /\ byLabel \in [Procs -> [Labels -> Nat]]
      BY <1>0 DEF ConnectionsTypeOK
    <3> HIDE DEF n
    <3> QED
      BY <2>1, <3>1
  <2>7. \A i \in 1..(n + 1) : byLabel'[p][Accounts(p)[i].label] = i
    <3>1. \A i \in 1..n : Accounts(p)[i].label # Accounts(p)[n + 1].label
      BY <1>0, <2>4 DEF Servable, LabelsUnique
    <3>2. \A l \in Labels :
            byLabel'[p][l] = IF l = Accounts(p)[n + 1].label THEN n + 1 ELSE byLabel[p][l]
      BY <1>0, <2>1 DEF ConnectionsTypeOK
    <3>3. \A i \in 1..n : byLabel[p][Accounts(p)[i].label] = i
      BY <1>0, <2>1 DEF InOrder
    <3> QED
      BY <2>3, <2>4, <2>5, <3>1, <3>2, <3>3
  <2>8. ConnectionsTypeOK'
    BY <1>0, <2>1, <2>2, <2>6 DEF ConnectionsTypeOK
  <2>9. conns'[p] = 1..(n + 1) /\ \A i \in 1..n : clients[p][i] = i
    BY <1>0, <2>1, <2>3 DEF Holds, InOrder
  <2> QED
    BY <1>0, <2>1, <2>2, <2>3, <2>4, <2>7, <2>8, <2>9 DEF InOrder, Holds, Accounts
<1>3. CASE DialFails(p) \/ LoginFails(p)
  <2>1. ToSet(clients[p]) = 1..n
    BY <1>0, ConnectedInOrder
  <2>2. conns'[p] = {} /\ conns' \in [Procs -> SUBSET Nat]
    <3>1. conns[p] = IF stage[p] = "dial" THEN 1..n ELSE 1..n \cup {n + 1}
      BY <1>0, <1>3 DEF DialFails, LoginFails, Holds
    <3>2. \/ stage[p] = "dial" /\ conns' = [conns EXCEPT ![p] = conns[p] \ (1..n)]
          \/ stage[p] = "login" /\ conns' = [conns EXCEPT ![p] = conns[p] \ (1..n \cup {n + 1})]
      BY <1>0, <1>3, <2>1 DEF DialFails, LoginFails
    <3> QED
      BY <1>0, <3>1, <3>2 DEF ConnectionsTypeOK
  <2>3. stage'[p] = "close" /\ UNCHANGED <<clients, byLabel>>
    BY <1>3 DEF DialFails, LoginFails
  <2> QED
    BY <1>0, <2>2, <2>3 DEF ConnectionsTypeOK, InOrder, Holds, Connected
<1> QED
  BY <1>1, <1>2, <1>3

LEMMA ConnectionsStay ==
  ASSUME ConnectionsInv, NEW p \in Procs, NEW q \in Procs, q # p,
         \/ Start(p) \/ Validate(p) \/ ValidateRefuses(p)
         \/ Migrate(p) \/ OpenStore(p) \/ OpenStoreFails(p)
         \/ Dial(p) \/ DialFails(p) \/ Login(p) \/ LoginFails(p)
         \/ Assemble(p) \/ AssembleFails(p) \/ Run(p)
         \/ Disconnect(p) \/ CloseStore(p) \/ Kill(p)
  PROVE  conns'[q] = conns[q] /\ clients'[q] = clients[q] /\ byLabel'[q] = byLabel[q]
<1> USE DEF ConnectionsInv, ConnectionsTypeOK, Exit, local
<1>1. CASE Start(p) \/ Validate(p) \/ ValidateRefuses(p) \/ Migrate(p)
           \/ OpenStore(p) \/ OpenStoreFails(p)
  BY <1>1 DEF Start, Validate, ValidateRefuses, Migrate, OpenStore, OpenStoreFails
<1>2. CASE Dial(p) \/ DialFails(p) \/ Login(p) \/ LoginFails(p)
  BY <1>2 DEF Dial, DialFails, Login, LoginFails
<1>3. CASE Assemble(p) \/ AssembleFails(p) \/ Run(p)
           \/ Disconnect(p) \/ CloseStore(p) \/ Kill(p)
  BY <1>3 DEF Assemble, AssembleFails, Run, Disconnect, CloseStore, Kill
<1> QED
  BY <1>1, <1>2, <1>3

LEMMA ConnectionsStepInv ==
  SchemaTypeOK /\ StageInv /\ ConnectionsInv /\ [Next]_vars => ConnectionsInv'
<1> SUFFICES ASSUME SchemaTypeOK, StageInv, ConnectionsInv, [Next]_vars PROVE ConnectionsInv'
  OBVIOUS
<1>1. CASE UNCHANGED vars
  BY <1>1 DEF vars, local, schemaVars, ConnectionsInv, ConnectionsTypeOK,
              InOrder, Holds, Connected, Accounts, Place
<1>2. CASE Next
  <2>1. PICK p \in Procs :
           \/ Start(p) \/ Validate(p) \/ ValidateRefuses(p)
           \/ Migrate(p) \/ OpenStore(p) \/ OpenStoreFails(p)
           \/ Dial(p) \/ DialFails(p) \/ Login(p) \/ LoginFails(p)
           \/ Assemble(p) \/ AssembleFails(p) \/ Run(p)
           \/ Disconnect(p) \/ CloseStore(p) \/ Kill(p)
    BY <1>2 DEF Next
  <2>2. ConnectionsTypeOK' /\ InOrder(p)'
    BY <2>1, MovingOn, NotYetConnected, LoopStep
  <2>3. ASSUME NEW q \in Procs, q # p PROVE InOrder(q)'
    <3>1. stage'[q] = stage[q] /\ cfg'[q] = cfg[q] /\ opening'[q] = opening[q]
      BY <2>1, <2>3, OthersStay
    <3>2. conns'[q] = conns[q] /\ clients'[q] = clients[q] /\ byLabel'[q] = byLabel[q]
      BY <2>1, <2>3, ConnectionsStay
    <3> QED
      BY <3>1, <3>2 DEF ConnectionsInv, InOrder, Holds, Connected, Accounts, Place
  <2> QED
    BY <2>2, <2>3 DEF ConnectionsInv
<1> QED
  BY <1>1, <1>2

LEMMA ConnectionsImply == ConnectionsInv => EveryAccountServed /\ LeavesNothingOpen
<1> SUFFICES ASSUME ConnectionsInv PROVE EveryAccountServed /\ LeavesNothingOpen
  OBVIOUS
<1>1. ASSUME NEW p \in Procs, stage[p] = "run", NEW i \in DOMAIN Accounts(p)
      PROVE  byLabel[p][Accounts(p)[i].label] = i /\ i \in conns[p] /\ Accounts(p)[i].port # 0
  <2>1. InOrder(p) /\ Connected(p) = DOMAIN Accounts(p) /\ conns[p] = Connected(p)
    BY <1>1 DEF ConnectionsInv, InOrder, Holds
  <2> QED
    BY <1>1, <2>1 DEF InOrder, Servable
<1>2. ASSUME NEW p \in Procs, stage[p] = "idle" PROVE conns[p] = {} /\ opening[p] = "closed"
  BY <1>2 DEF ConnectionsInv, InOrder, Holds
<1> QED
  BY <1>1, <1>2 DEF EveryAccountServed, LeavesNothingOpen

LEMMA ConnectionsCorrect == Spec => []ConnectionsInv
<1>1. SchemaInv => SchemaTypeOK
  BY DEF SchemaInv
<1> QED
  BY <1>1, StageInitInv, StageStepInv, ConnectionsInitInv, ConnectionsStepInv,
     SchemaCorrect, StartupKeepsSchema, PTL DEF Spec

\* However many accounts the layers configure, a run starts with a live client on a
\* real port for each, and finds it under the account's label.
THEOREM AccountsAreServed == Spec => []EveryAccountServed
BY ConnectionsCorrect, ConnectionsImply, PTL

\* Wherever a process fails or is stopped, it has released its connections and the
\* ledger when it has ended.
THEOREM ProcessesLeaveNothingOpen == Spec => []LeavesNothingOpen
BY ConnectionsCorrect, ConnectionsImply, PTL
=============================================================================
