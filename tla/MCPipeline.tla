----------------------------- MODULE MCPipeline -----------------------------
(* Constants of the configurations that check module Pipeline. *)
EXTENDS Pipeline, TLC

CONSTANTS m1, m2, a1, a2, p1, p2

OneAccount == [m \in {m1, m2} |-> a1]
TwoAccounts == m1 :> a1 @@ m2 :> a2
OneMessage == m1 :> a1

Default == NoOption
Forced  == [NoOption EXCEPT !.force = TRUE]
Dry     == [NoOption EXCEPT !.dryRun = TRUE]
Memoryless == [NoOption EXCEPT !.stateless = TRUE]
Windowed   == [NoOption EXCEPT !.window = 1]

DefaultOnly  == {Default}
DefaultOrForced == {Default, Forced}
AllOptions == {Default, Forced, Dry, Memoryless, Windowed}

\* A mail server west of UTC.
Behind == -1

Alike == Permutations({m1, m2})
Interchangeable == Permutations({p1, p2})
=============================================================================
