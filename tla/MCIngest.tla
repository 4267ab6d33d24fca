------------------------------ MODULE MCIngest ------------------------------
(* Constants of the configurations that check module Ingest. *)
EXTENDS Ingest, TLC

CONSTANTS inbox, archive, drafts, other, m1, m2, m3

\* Account 1 reads two folders, account 2 an empty one and one with bad mail.
TwoAccounts == <<<<inbox, archive>>, <<drafts, other>>>>
AllMail == inbox :> {m1} @@ archive :> {m2} @@ drafts :> {} @@ other :> {m3}
=============================================================================
