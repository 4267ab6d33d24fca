-------------------------- MODULE ClassifyContract --------------------------
(***************************************************************************)
(* What classifyWithPartialFallback promises its caller: which messages    *)
(* get a valid classification and which a failed one.  Pipeline builds on  *)
(* these results; Classify derives them from the provider's answers.       *)
(***************************************************************************)
CONSTANTS
  Messages,       \* message keys (account label, uid)
  Labels,         \* labels that are IMAP keywords (defaults and custom)
  LenientProvider \* the provider hands over answers with invalid items

AnyLabel == Labels \cup {"Unknown"}    \* what ParseResponse accepts
NoLabel  == "none"
Labelling == [Messages -> AnyLabel \cup {NoLabel}]

Labelled(label) == {m \in Messages : label[m] # NoLabel}

\* Failed messages are requested ones that got no label; if there is one, every
\* requested message is either labelled or failed.  Without a failed message
\* something was labelled, but a requested message may be left out (omit), and
\* messages nobody asked about may be labelled too (extra).
Results(asked, omit, extra) ==
  {a \in [label: Labelling, bad: SUBSET asked] :
     LET answered == Labelled(a.label) IN
     /\ answered \subseteq asked \/ extra
     /\ a.bad \cap answered = {}
     /\ IF a.bad = {} THEN answered # {} /\ (asked \subseteq answered \/ omit)
                      ELSE LenientProvider /\ asked \ answered = a.bad}
=============================================================================
