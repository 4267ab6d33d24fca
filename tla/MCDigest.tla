------------------------------ MODULE MCDigest ------------------------------
(* Constants of the configuration that checks module Digest. *)
EXTENDS Digest

CONSTANTS k1, k2, k3

\* One message per key; one account fails; a key that two folders share.
SomeBatches == {<<k1, k2, k3>>, <<k1, k2>>, <<k1, k2, k1>>}
TwoAccounts == k1 :> "a" @@ k2 :> "a" @@ k3 :> "b"
ThreeSenders == <<1, 1, 2>>
OneRead == <<TRUE, FALSE, FALSE>>

\* No previous run, or one whose counts the batch can exceed, match or stay below.
Previously == {NoSnapshot, [ads |-> 1, broken |-> 0, sent |-> <<2, 1>>],
                           [ads |-> 2, broken |-> 1, sent |-> <<1, 0>>]}
=============================================================================
