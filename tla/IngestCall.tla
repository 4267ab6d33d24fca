----------------------------- MODULE IngestCall -----------------------------
(* The IMAP work of a run as Pipeline sees it.  Each account's fetch is one   *)
(* step, to all of its messages or to an error; when all have answered,       *)
(* flagging an account is one step that stores some of the keywords it was    *)
(* asked for, and at least one of them if it reports success.                 *)
EXTENDS Naturals

CONSTANTS Accounts, Keywords,
          Mailbox \* of each account: how often each message is in its folders

VARIABLES
  fetched,  \* of each account: "none" so far, "ok", "error"
  messages, \* what FlattenMessages takes from it
  flagged, asked, stored \* of each account: result of ApplyFlags, keywords

vars == <<fetched, messages, flagged, asked, stored>>

Nothing(a) == [m \in DOMAIN Mailbox[a] |-> 0]

Init ==
  /\ fetched = [a \in Accounts |-> "none"]
  /\ messages = [a \in Accounts |-> Nothing(a)]
  /\ flagged = [a \in Accounts |-> "none"]
  /\ asked = [a \in Accounts |-> {}] /\ stored = [a \in Accounts |-> {}]

FetchAccount(a) ==
  /\ fetched[a] = "none"
  /\ fetched' = [fetched EXCEPT ![a] = "ok"]
  /\ messages' = [messages EXCEPT ![a] = Mailbox[a]]
  /\ UNCHANGED <<flagged, asked, stored>>

FetchAccountFails(a) ==
  /\ fetched[a] = "none"
  /\ fetched' = [fetched EXCEPT ![a] = "error"]
  /\ UNCHANGED <<messages, flagged, asked, stored>>

FlagAccount(a) ==
  /\ \A b \in Accounts : fetched[b] # "none"
  /\ flagged[a] = "none"
  /\ \E want \in SUBSET Keywords : \E done \in SUBSET want :
       /\ asked' = [asked EXCEPT ![a] = want]
       /\ stored' = [stored EXCEPT ![a] = done]
       /\ \/ done # {} /\ flagged' = [flagged EXCEPT ![a] = "ok"]
          \/ flagged' = [flagged EXCEPT ![a] = "error"]
  /\ UNCHANGED <<fetched, messages>>

Next ==
  \E a \in Accounts : FetchAccount(a) \/ FetchAccountFails(a) \/ FlagAccount(a)

Spec == Init /\ [][Next]_vars
=============================================================================
