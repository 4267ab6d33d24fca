---------------------------- MODULE ChannelSend ----------------------------
(* A notify.Channel as the pipeline sees it: one call of Send, which reports  *)
(* success only for a digest the chat received, and whose error says nothing: *)
(* the chat may have received the digest all the same, and more than once.    *)
EXTENDS Naturals

CONSTANT MaxRetries \* a retrying channel delivers at most this many copies

VARIABLES outcome, \* "pending", "nil" or "error"
          copies   \* how often the chat received the digest

Init == outcome = "pending" /\ copies = 0

Delivers == outcome' = "nil" /\ copies' \in 1..MaxRetries
Fails    == outcome' = "error" /\ copies' \in 0..MaxRetries

Next == outcome = "pending" /\ (Delivers \/ Fails)

Spec == Init /\ [][Next]_<<outcome, copies>>
=============================================================================
