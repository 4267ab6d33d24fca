------------------------------- MODULE Startup -------------------------------
(***************************************************************************)
(* The process from its start to its exit code: the layers of the          *)
(* configuration, its validation, the resources that are opened in turn,   *)
(* and their release on every way out.  Several processes share the ledger *)
(* file (module Schema); what the pipeline does in between is module       *)
(* Pipeline.                                                               *)
(*                                                                         *)
(* Of the configuration the settings are modelled that relate to each      *)
(* other or that a later layer can undo; whether the other checks of       *)
(* Validate pass is one bit of the file.                                   *)
(***************************************************************************)
EXTENDS Schema, SequencesExt

CONSTANTS
  File, Env, Flags, \* what each layer may set
  MaxStarts         \* bound: starts of processes

\* A switch of a layer is {} where the layer leaves it.
Switch == {{}, {TRUE}, {FALSE}}
Default == [stateless |-> FALSE, unread |-> FALSE, accounts |-> <<>>]
DefaultPort == 993

Layers == File \cup Env \cup Flags
Labels == UNION {{l.accounts[i].label : i \in DOMAIN l.accounts} : l \in Layers}
Account == [label : Labels, port : Nat]

ASSUME StartupAssumption ==
  /\ MaxStarts \in Nat
  /\ \A l \in Layers :
       l.stateless \in Switch /\ l.unread \in Switch /\ l.accounts \in Seq(Account)

VARIABLES
  stage,   \* of each process: where run() is
  cfg,     \* of each process: its Config
  conns,   \* of each process: the accounts (by place) it has a connection to
  clients, \* of each process: imapClients
  byLabel, \* of each process: ingesters, the account of each label
  code,    \* of each process: its last exit code
  starts   \* starts of processes so far

local == <<stage, cfg, conns, clients, byLabel, code, starts>>
vars == <<schemaVars, local>>

NoCode == -1   \* none: running, killed, or never started
NoAccount == 0

Init ==
  /\ SchemaInit
  /\ stage = [p \in Procs |-> "idle"] /\ cfg = [p \in Procs |-> Default]
  /\ conns = [p \in Procs |-> {}] /\ clients = [p \in Procs |-> <<>>]
  /\ byLabel = [p \in Procs |-> [l \in Labels |-> NoAccount]]
  /\ code = [p \in Procs |-> NoCode] /\ starts = 0

-----------------------------------------------------------------------------
(* Configuration *)

Chosen(switch, below) == IF switch = {} THEN below ELSE CHOOSE b \in switch : TRUE

normalize(a) == IF a.port = 0 THEN [a EXCEPT !.port = DefaultPort] ELSE a
Normalized(accounts) == [i \in DOMAIN accounts |-> normalize(accounts[i])]

Over(c, layer) ==
  [c EXCEPT !.stateless = Chosen(layer.stateless, @), !.unread = Chosen(layer.unread, @)]

\* A file replaces the list of accounts and leaves them as written; the
\* environment and the command line append one that is complete.
loadFile(c, l)  == [Over(c, l) EXCEPT !.accounts = IF l.accounts = <<>> THEN @ ELSE l.accounts]
loadEnv(c, l)   == [Over(c, l) EXCEPT !.accounts = @ \o Normalized(l.accounts)]
loadFlags(c, l) == [Over(c, l) EXCEPT !.accounts = @ \o Normalized(l.accounts)]
Load(file, env, flags) == loadFlags(loadEnv(loadFile(Default, file), env), flags)

\* The label is the account's part of every message key.
LabelsUnique(accounts) ==
  \A i, j \in DOMAIN accounts : accounts[i].label = accounts[j].label => i = j

ValidEachAlone(c) == c.accounts # <<>> /\ LabelsUnique(c.accounts)
ValidLabelsFree(c) == c.accounts # <<>> /\ (c.stateless => c.unread)
Valid(c) ==
  c.accounts # <<>> /\ LabelsUnique(c.accounts) /\ (c.stateless => c.unread)

ValidatedByValue(c) == c
\* validateIMAPConfig normalizes the accounts through the slice that it shares
\* with its caller: that is all that completes the accounts of a file.
Validated(c) == [c EXCEPT !.accounts = Normalized(@)]

-----------------------------------------------------------------------------
(* Steps of run() *)

Goto(p, s) == stage' = [stage EXCEPT ![p] = s]
Exit(p, c) == Goto(p, "close") /\ code' = [code EXCEPT ![p] = c]
Accounts(p) == cfg[p].accounts
Place(p) == Len(clients[p]) + 1   \* of the account being connected
Stateless(p) == cfg[p].stateless

\* A file, a variable or a flag that cannot be read ends it with 2.
Start(p) ==
  /\ stage[p] = "idle" /\ starts < MaxStarts /\ starts' = starts + 1
  /\ byLabel' = [byLabel EXCEPT ![p] = [l \in Labels |-> NoAccount]]
  /\ clients' = [clients EXCEPT ![p] = <<>>]
  /\ \/ /\ \E file \in File, env \in Env, flags \in Flags :
             cfg' = [cfg EXCEPT ![p] = Load(file, env, flags)]
        /\ Goto(p, "validate") /\ code' = [code EXCEPT ![p] = NoCode]
     \/ code' = [code EXCEPT ![p] = 2] /\ UNCHANGED <<cfg, stage>>
  /\ UNCHANGED <<schemaVars, conns>>

Validate(p) ==
  /\ stage[p] = "validate"
  /\ cfg' = [cfg EXCEPT ![p] = Validated(@)]
  /\ IF Valid(cfg'[p]) THEN Goto(p, "store") /\ UNCHANGED code
     ELSE Goto(p, "idle") /\ code' = [code EXCEPT ![p] = 2]
  /\ UNCHANGED <<schemaVars, conns, clients, byLabel, starts>>

\* Another check of Validate fails.
ValidateRefuses(p) ==
  /\ stage[p] = "validate"
  /\ Goto(p, "idle") /\ code' = [code EXCEPT ![p] = 2]
  /\ UNCHANGED <<schemaVars, cfg, conns, clients, byLabel, starts>>

\* NewSQLiteStore, one transaction at a time.
Migrate(p) ==
  /\ stage[p] = "store" /\ ~Stateless(p)
  /\ Up(p) \/ MarkDirty(p) \/ Apply(p) \/ MarkClean(p)
  /\ UNCHANGED local

\* It returns the store; NewNoopStore needs no file.
OpenStore(p) ==
  /\ stage[p] = "store" /\ Goto(p, "dial")
  /\ Stateless(p) \/ opening[p] = "open"
  /\ UNCHANGED <<schemaVars, cfg, conns, clients, byLabel, code, starts>>

\* It closes the file it opened and returns an error.
OpenStoreFails(p) ==
  /\ stage[p] = "store" /\ ~Stateless(p) /\ opening[p] # "open"
  /\ LetGo(p) /\ Goto(p, "idle") /\ code' = [code EXCEPT ![p] = 1]
  /\ UNCHANGED <<cfg, conns, clients, byLabel, starts>>

Dial(p) ==
  /\ stage[p] = "dial" /\ Place(p) \in DOMAIN Accounts(p)
  /\ conns' = [conns EXCEPT ![p] = @ \cup {Place(p)}] /\ Goto(p, "login")
  /\ UNCHANGED <<schemaVars, cfg, clients, byLabel, code, starts>>

\* The loop's own clean-up: the deferred one is not yet registered.
DialFails(p) ==
  /\ stage[p] = "dial" /\ Place(p) \in DOMAIN Accounts(p)
  /\ conns' = [conns EXCEPT ![p] = @ \ ToSet(clients[p])] /\ Exit(p, 1)
  /\ UNCHANGED <<schemaVars, cfg, clients, byLabel, starts>>

Login(p) ==
  /\ stage[p] = "login" /\ Goto(p, "dial")
  /\ clients' = [clients EXCEPT ![p] = Append(@, Place(p))]
  /\ byLabel' = [byLabel EXCEPT ![p][Accounts(p)[Place(p)].label] = Place(p)]
  /\ UNCHANGED <<schemaVars, cfg, conns, code, starts>>

LoginFailsLikeDial(p) ==
  /\ stage[p] = "login"
  /\ conns' = [conns EXCEPT ![p] = @ \ ToSet(clients[p])] /\ Exit(p, 1)
  /\ UNCHANGED <<schemaVars, cfg, clients, byLabel, starts>>
LoginFails(p) ==
  /\ stage[p] = "login"
  /\ conns' = [conns EXCEPT ![p] = @ \ (ToSet(clients[p]) \cup {Place(p)})] /\ Exit(p, 1)
  /\ UNCHANGED <<schemaVars, cfg, clients, byLabel, starts>>

\* Provider, renderers, channel and pipeline are made in memory.
Assemble(p) ==
  /\ stage[p] = "dial" /\ Place(p) \notin DOMAIN Accounts(p)
  /\ Goto(p, "run")
  /\ UNCHANGED <<schemaVars, cfg, conns, clients, byLabel, code, starts>>

\* An unknown provider, or a factory that refuses its settings.
AssembleFails(p) ==
  /\ stage[p] = "dial" /\ Place(p) \notin DOMAIN Accounts(p)
  /\ Goto(p, "disconnect") /\ code' = [code EXCEPT ![p] = 1]
  /\ UNCHANGED <<schemaVars, cfg, conns, clients, byLabel, starts>>

\* pipeline.Run returns; its status becomes the exit code.
Run(p) ==
  /\ stage[p] = "run" /\ Goto(p, "disconnect")
  /\ \E c \in {0, 1, 130} : code' = [code EXCEPT ![p] = c]
  /\ UNCHANGED <<schemaVars, cfg, conns, clients, byLabel, starts>>

\* The deferred calls, last registered first.
Disconnect(p) ==
  /\ stage[p] = "disconnect" /\ Goto(p, "close")
  /\ conns' = [conns EXCEPT ![p] = @ \ ToSet(clients[p])]
  /\ UNCHANGED <<schemaVars, cfg, clients, byLabel, code, starts>>
CloseStore(p) ==
  /\ stage[p] = "close" /\ Goto(p, "idle") /\ LetGo(p)
  /\ UNCHANGED <<cfg, conns, clients, byLabel, code, starts>>

\* The process is killed, or the host goes down.
Kill(p) ==
  /\ stage[p] # "idle" /\ Goto(p, "idle") /\ LetGo(p)
  /\ conns' = [conns EXCEPT ![p] = {}] /\ code' = [code EXCEPT ![p] = NoCode]
  /\ UNCHANGED <<cfg, clients, byLabel, starts>>

Next ==
  \E p \in Procs :
    \/ Start(p) \/ Validate(p) \/ ValidateRefuses(p)
    \/ Migrate(p) \/ OpenStore(p) \/ OpenStoreFails(p)
    \/ Dial(p) \/ DialFails(p) \/ Login(p) \/ LoginFails(p)
    \/ Assemble(p) \/ AssembleFails(p) \/ Run(p)
    \/ Disconnect(p) \/ CloseStore(p) \/ Kill(p)

Spec == Init /\ [][Next]_vars

-----------------------------------------------------------------------------
(* Properties *)

\* A process that is past opening its store has every table, unless it is
\* stateless; and a run that fetches read mail as well, which only the ledger
\* keeps from being shown again, is never stateless, whichever layer set what.
RunHasLedger ==
  \A p \in Procs :
    /\ stage[p] \in {"dial", "login", "run"} /\ ~Stateless(p) =>
         opening[p] = "open" /\ tables = All
    /\ stage[p] = "run" /\ ~cfg[p].unread => opening[p] = "open"

\* The pipeline starts with one live client for every configured account, found
\* under the account's label, and dialled on a real port: no account hides
\* another, in whichever layers they were configured.
EveryAccountServed ==
  \A p \in Procs : stage[p] = "run" =>
    \A i \in DOMAIN Accounts(p) :
      /\ byLabel[p][Accounts(p)[i].label] = i /\ i \in conns[p]
      /\ Accounts(p)[i].port # 0

\* A process that has ended, wherever it failed and with whatever exit code, has
\* released every connection it made and the ledger file.
LeavesNothingOpen ==
  \A p \in Procs : stage[p] = "idle" => conns[p] = {} /\ opening[p] = "closed"
=============================================================================
