----------------------------- MODULE MCStartup ------------------------------
(* Constants of the configuration that checks modules Startup and Schema. *)
EXTENDS Startup, TLC

CONSTANTS p1, p2

Alike == Permutations({p1, p2})

Mail(label, port) == [label |-> label, port |-> port]
Layer(stateless, unread, accounts) ==
  [stateless |-> stateless, unread |-> unread, accounts |-> accounts]
Nothing == Layer({}, {}, <<>>)

Files == {Nothing, Layer({}, {TRUE}, <<Mail("work", 0)>>),
          Layer({TRUE}, {TRUE}, <<Mail("work", 0), Mail("home", 143)>>)}
Environments == {Nothing, Layer({}, {}, <<Mail("work", 0)>>)}
CommandLines == {Nothing, Layer({}, {FALSE}, <<Mail("home", 0)>>), Layer({TRUE}, {}, <<>>)}
=============================================================================
