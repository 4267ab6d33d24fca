----------------------------- MODULE RunLedger ------------------------------
(***************************************************************************)
(* What the rest of the program may rely on about the ledger: the life of  *)
(* a run and of the rows it writes.  A run is opened once, its digest may  *)
(* be delivered, it may then claim messages that no run has claimed, and   *)
(* it is closed once, as a failure only if it claimed nothing.  Pipeline   *)
(* implements this with any number of processes, crashes and failures.     *)
(***************************************************************************)
CONSTANTS
  Runs, Messages,
  NoRun,     \* the run of a message nobody has claimed
  Finals,    \* statuses of closed runs
  Failures   \* those that promise the run left its mail to the next one

VARIABLES
  status,    \* of each run: "none", "running" or one of Finals
  told,      \* runs whose digest the channel accepted
  dry,       \* dry runs, which have no digest to deliver
  claim      \* the run that recorded each message

vars == <<status, told, dry, claim>>

Init ==
  /\ status = [r \in Runs |-> "none"] /\ claim = [m \in Messages |-> NoRun]
  /\ told = {} /\ dry = {}

Open(r) ==
  /\ status[r] = "none" /\ status' = [status EXCEPT ![r] = "running"]
  /\ dry' \in {dry, dry \cup {r}}
  /\ UNCHANGED <<told, claim>>

\* A run the ledger does not know (stateless mode) delivers too.
Deliver(r) ==
  /\ status[r] \notin Finals /\ told' = told \cup {r}
  /\ UNCHANGED <<status, dry, claim>>

Claim(r, m) ==
  /\ status[r] = "running" /\ r \in told \cup dry
  /\ claim[m] = NoRun /\ claim' = [claim EXCEPT ![m] = r]
  /\ UNCHANGED <<status, told, dry>>

Close(r, s) ==
  /\ status[r] = "running" /\ status' = [status EXCEPT ![r] = s]
  /\ s \in Failures => \A m \in Messages : claim[m] # r
  /\ UNCHANGED <<told, dry, claim>>

Next ==
  \E r \in Runs :
    \/ Open(r) \/ Deliver(r)
    \/ \E m \in Messages : Claim(r, m)
    \/ \E s \in Finals : Close(r, s)

Spec == Init /\ [][Next]_vars
=============================================================================
