----------------------------- MODULE MCClassify -----------------------------
(* Constants of the configurations that check module Classify. *)
EXTENDS Classify

CONSTANTS m1, m2, m3
AllRequests == BoundedSeq(Messages, 3) \ {NoItems}
Alike == Permutations({m1, m2, m3})
=============================================================================
