--------------------------- MODULE ClassifyProofs ---------------------------
(***************************************************************************)
(* Module Classify for every label set, any number of messages and answers *)
(* of any length: the call implements its contract (module ClassifyCall),  *)
(* repair loses nothing, and the errors are about the failed messages.     *)
(***************************************************************************)
EXTENDS Classify, SequenceTheorems, TLAPS

-----------------------------------------------------------------------------
(* What ParseResponse makes of an answer *)

LEMMA AnswerType ==
  ASSUME NEW a \in Answer
  PROVE  /\ a.items \in {NoItems} \cup Documents
         /\ a.kind \in {Blank, Garbled, "json"}
         /\ a.kind = "json" => a.items \in Documents
BY DEF Answer, Blank, Garbled

\* A document is a non-empty sequence of items.
LEMMA DocumentType ==
  ASSUME NEW d \in Documents
  PROVE  \E n \in Nat \ {0} : d \in [1..n -> Item]
<1>1. PICK n \in 0..MaxItems : d \in [1..n -> Item] /\ d # <<>>
  BY DEF Documents, BoundedSeq, SeqOf, NoItems
<1>2. n # 0
  <2>1. SUFFICES ASSUME n = 0 PROVE FALSE OBVIOUS
  <2>2. d \in Seq(Item) /\ Len(d) = 0 BY <1>1, <2>1
  <2> QED BY <1>1, <2>2, EmptySeq
<1> QED BY <1>1, <1>2, ClassifyAssumption

LEMMA ParsedType ==
  ASSUME NEW a, a.items \in {NoItems} \cup Documents
  PROVE  Parsed(a) \in Labelling
<1>1. ASSUME NEW m \in Messages, \E i \in Accepted(a.items) : a.items[i].key = m
      PROVE  a.items[CHOOSE i \in Accepted(a.items) : a.items[i].key = m].label \in AnyLabel
  BY <1>1 DEF Accepted
<1> QED BY <1>1 DEF Parsed, Labelling

\* An answer without an invalid item labels something.
LEMMA ParsedLabels ==
  ASSUME NEW a \in Answer, ~ParseError(a)
  PROVE  Labelled(Parsed(a)) # {}
<1>1. a.items \in Documents /\ Accepted(a.items) = DOMAIN a.items
  BY AnswerType DEF ParseError
<1>2. PICK n \in Nat \ {0} : a.items \in [1..n -> Item] BY <1>1, DocumentType
<1>3. 1 \in Accepted(a.items) /\ a.items[1] \in Item BY <1>1, <1>2
<1>4. PICK m \in Messages : m = a.items[1].key BY <1>3 DEF Item
<1>5. Parsed(a)[m] \in AnyLabel
  <2>1. \E i \in Accepted(a.items) : a.items[i].key = m BY <1>3, <1>4
  <2>2. a.items[CHOOSE i \in Accepted(a.items) : a.items[i].key = m].label \in AnyLabel
    BY <2>1 DEF Accepted
  <2> QED BY <2>1, <2>2 DEF Parsed
<1>6. NoLabel \notin AnyLabel BY ClassifyAssumption DEF NoLabel, AnyLabel
<1> QED BY <1>5, <1>6 DEF Labelled

-----------------------------------------------------------------------------
(* What is missing of a request *)

LEMMA RequestType == ASSUME request \in Requests PROVE asked \in (SUBSET Messages) \ {{}}
<1>1. request \in Seq(Messages) /\ request # <<>> BY ClassifyAssumption
<1>2. 1 \in DOMAIN request BY <1>1
<1>3. \A i \in DOMAIN request : request[i] \in Messages BY <1>1
<1> QED BY <1>2, <1>3 DEF asked

\* The messages at the missing places are those without a label.
LEMMA MissingMessages ==
  ASSUME request \in Requests, NEW label
  PROVE  {request[i] : i \in Missing(label)} = asked \ Labelled(label)
<1>1. \A i \in DOMAIN request : request[i] \in Messages BY ClassifyAssumption
<1> QED BY <1>1 DEF Missing, asked, Labelled

LEMMA NothingMissing ==
  ASSUME request \in Requests, NEW label, Missing(label) = {}
  PROVE  asked \ Labelled(label) = {}
BY MissingMessages

(* The inductive invariant *)

\* Both lists were made for the same places, and the errors at the last stage.
Matched ==
  /\ DOMAIN errors = failed
  /\ \A i \in failed : errors[i] = IF attempts = 0 THEN "parse" ELSE "repair"

Inv ==
  /\ TypeOK
  /\ answer \in [kind: {Blank, Garbled, "json"}, items: {NoItems} \cup Documents]
  /\ stage \in {"parse", "reparse"} =>
       answer \in Answer /\ (LenientProvider \/ ~ParseError(answer))
  /\ stage \in {"ask", "parse"} => valid = Nothing /\ failed = {} /\ DOMAIN errors = {}
  /\ stage \in {"repair", "reparse"} =>
       /\ LenientProvider /\ attempts # 0 /\ failed = {}
       /\ DOMAIN errors = Missing(valid) /\ Missing(valid) # {}
  /\ stage = "done" => Matched

LEMMA InitInv == Init => Inv
<1> SUFFICES ASSUME Init PROVE Inv
  OBVIOUS
<1>1. Nothing \in Labelling BY DEF Nothing, Labelling
<1>2. DOMAIN errors = {} BY DEF Init, NoErrors, Explained
<1>3. TypeOK BY <1>1, <1>2 DEF Init, TypeOK, NoAnswer
<1> QED BY <1>2, <1>3 DEF Init, Inv, NoAnswer

\* The provider is asked, or fails.
LEMMA AskInv ==
  ASSUME Inv, NEW a \in Answer, Ask(a) \/ AskRejected(a) \/ AskFails \/ Repair(a)
  PROVE  Inv'
<1>1. UNCHANGED <<request, attempts, valid, failed, errors>> BY DEF Ask, AskRejected, AskFails, Repair
<1>2. /\ stage \in {"ask", "repair"} /\ stage' \in {"parse", "reparse", "error"}
      /\ stage' = "parse" => stage = "ask"
      /\ stage' = "reparse" => stage = "repair"
      /\ stage' \in {"parse", "reparse"} => answer' = a /\ (LenientProvider \/ ~ParseError(a))
      /\ answer' \in {answer, a}
  BY DEF Ask, AskRejected, AskFails, Repair
<1>3. answer' \in [kind: {Blank, Garbled, "json"}, items: {NoItems} \cup Documents]
  BY <1>2, AnswerType DEF Inv, Answer
<1>4. TypeOK' BY <1>1, <1>2, <1>3 DEF Inv, TypeOK
<1>5. ParseError(a)' = ParseError(a) BY DEF ParseError, Accepted
<1> QED BY <1>1, <1>2, <1>3, <1>4 DEF Inv, Missing, Matched, ParseError

\* The call ends with some classifications and, for what is missing, errors.
LEMMA EndInv ==
  ASSUME Inv, stage' = "done", UNCHANGED <<request, attempts>>, valid' \in Labelling,
         answer' \in [kind: {Blank, Garbled, "json"}, items: {NoItems} \cup Documents],
         failed' \subseteq DOMAIN request, DOMAIN errors' = failed',
         \A i \in failed' : errors'[i] = IF attempts = 0 THEN "parse" ELSE "repair"
  PROVE  Inv'
<1>1. Matched' BY DEF Matched
<1>2. TypeOK' BY DEF Inv, TypeOK
<1> QED BY <1>1, <1>2 DEF Inv

LEMMA ParseInv ==
  ASSUME Inv, Parse
  PROVE  Inv'
<1>1. /\ stage = "parse" /\ valid' = Parsed(answer) /\ UNCHANGED <<request, attempts>>
      /\ answer' = [answer EXCEPT !.items = NoItems] /\ failed = {} /\ DOMAIN errors = {}
      /\ answer \in Answer /\ (LenientProvider \/ ~ParseError(answer))
  BY DEF Parse, Inv
<1>2. valid' \in Labelling BY <1>1, AnswerType, ParsedType
<1>3. answer' \in [kind: {Blank, Garbled, "json"}, items: {NoItems} \cup Documents]
  BY <1>1 DEF Inv
<1>4. CASE ~ParseError(answer) \/ Missing(valid') = {}
  <2>1. stage' = "done" /\ failed' = {} /\ DOMAIN errors' = {} BY <1>1, <1>4 DEF Parse
  <2> QED BY <1>1, <1>2, <1>3, <2>1, EndInv
<1>5. CASE ParseError(answer) /\ Missing(valid') # {}
  <2>0. /\ DOMAIN errors' = Missing(valid') /\ Missing(valid') \subseteq DOMAIN request
        /\ \A i \in DOMAIN errors' : errors'[i] = "parse"
    BY <1>5 DEF Parse, Explained, Missing
  <2>1. CASE attempts = 0
    <3>1. stage' = "done" /\ failed' = Missing(valid') BY <1>5, <2>1 DEF Parse
    <3> QED BY <1>1, <1>2, <1>3, <2>0, <2>1, <3>1, EndInv
  <2>2. CASE attempts # 0
    <3>1. stage' = "repair" /\ failed' = {} BY <1>1, <1>5, <2>2 DEF Parse
    <3>2. TypeOK' BY <1>1, <1>2, <1>3, <2>0, <3>1 DEF Inv, TypeOK
    <3>3. Missing(valid)' = Missing(valid') BY <1>1 DEF Missing
    <3> QED BY <1>1, <1>3, <1>5, <2>0, <2>2, <3>1, <3>2, <3>3 DEF Inv
  <2> QED BY <2>1, <2>2
<1> QED BY <1>4, <1>5

LEMMA RepairFailsInv ==
  ASSUME Inv, RepairFails
  PROVE  Inv'
<1>1. /\ stage' = "done" /\ UNCHANGED <<request, attempts, answer, valid>> /\ attempts # 0
      /\ failed' = Missing(valid) /\ DOMAIN errors' = Missing(valid)
      /\ Missing(valid) \subseteq DOMAIN request /\ \A i \in failed' : errors'[i] = "repair"
  BY DEF RepairFails, GiveUp, Missing, Explained, Inv
<1>2. valid' \in Labelling
      /\ answer' \in [kind: {Blank, Garbled, "json"}, items: {NoItems} \cup Documents]
  BY <1>1 DEF Inv, TypeOK
<1> QED BY <1>1, <1>2, EndInv

\* Whether the errors are relabelled or made anew, they are about what is missing.
LEMMA ReparseEffect ==
  ASSUME Inv, Reparse
  PROVE  /\ stage = "reparse" /\ stage' = "done" /\ UNCHANGED <<request, attempts>>
         /\ answer' = [answer EXCEPT !.items = NoItems]
         /\ valid' \in {valid, Merged(answer)} /\ valid' \in Labelling
         /\ failed' = Missing(valid') /\ DOMAIN errors' = failed'
         /\ \A i \in failed' : errors'[i] = "repair"
<1>1. /\ stage = "reparse" /\ stage' = "done" /\ UNCHANGED <<request, attempts>>
      /\ answer' = [answer EXCEPT !.items = NoItems]
      /\ valid' \in {valid, Merged(answer)} /\ failed' = Missing(valid')
  BY DEF Reparse, GiveUp
<1>2. DOMAIN errors' = failed' /\ \A i \in failed' : errors'[i] = "repair"
  <2>1. CASE ParseError(answer)
    <3>1. DOMAIN errors = Missing(valid) BY <1>1 DEF Inv
    <3> QED BY <1>1, <2>1, <3>1 DEF Reparse, GiveUp, Explained
  <2>2. CASE ~ParseError(answer) BY <1>1, <2>2 DEF Reparse, Explanation, Explained
  <2> QED BY <2>1, <2>2
<1>3. answer \in Answer /\ valid \in Labelling BY <1>1 DEF Inv, TypeOK
<1>4. Merged(answer) \in Labelling
  <2>1. Parsed(answer) \in Labelling BY <1>3, AnswerType, ParsedType
  <2> QED BY <1>3, <2>1 DEF Merged, Labelling
<1> QED BY <1>1, <1>2, <1>3, <1>4

LEMMA ReparseInv ==
  ASSUME Inv, Reparse
  PROVE  Inv'
<1>1. attempts # 0 BY ReparseEffect DEF Inv
<1>2. answer' \in [kind: {Blank, Garbled, "json"}, items: {NoItems} \cup Documents]
  BY ReparseEffect DEF Inv
<1>3. failed' \subseteq DOMAIN request BY ReparseEffect DEF Missing
<1> QED BY <1>1, <1>2, <1>3, ReparseEffect, EndInv

\* The invariant holds whatever the provider answers to the one or two requests.
THEOREM InvariantHolds == Spec => []Inv
<1>1. Inv /\ [Next]_vars => Inv'
  <2> SUFFICES ASSUME Inv, [Next]_vars PROVE Inv'
    OBVIOUS
  <2>1. ASSUME NEW a \in Answer, Ask(a) \/ AskRejected(a) \/ Repair(a) PROVE Inv'
    BY <2>1, AskInv
  <2>2. CASE AskFails
    <3>1. NoAnswer \in Answer BY DEF NoAnswer, Answer
    <3> QED BY <2>2, <3>1, AskInv
  <2>3. CASE UNCHANGED vars
    BY <2>3 DEF vars, Inv, TypeOK, Missing, Matched, ParseError
  <2> QED BY <2>1, <2>2, <2>3, ParseInv, RepairFailsInv, ReparseInv DEF Next
<1> QED BY <1>1, InitInv, PTL DEF Spec

\* Failures and errors are those of requested messages.
THEOREM TypeCorrect == Spec => []TypeOK
<1>1. Inv => TypeOK BY DEF Inv
<1> QED BY <1>1, InvariantHolds, PTL

\* The k-th error is about the k-th failed classification, which is what attaching
\* them by position rests on: the loops that built the two lists, one perhaps
\* before the repair and one after it, went through the same places.
THEOREM ErrorsAreAboutFailures == Spec => []ErrorsExplainFailures
<1>1. Inv => ErrorsExplainFailures
  BY DEF Inv, Matched, ErrorsExplainFailures
<1> QED BY <1>1, InvariantHolds, PTL

\* Neither parsing nor repair takes a valid classification away.
THEOREM ValidStaysValid == Spec => RepairKeepsValid
<1>1. Inv /\ [Next]_vars => [\A m \in Messages : valid[m] # NoLabel => valid'[m] = valid[m]]_vars
  <2> SUFFICES ASSUME Inv, Next, NEW m \in Messages, valid[m] # NoLabel PROVE valid'[m] = valid[m]
    OBVIOUS
  <2>1. CASE Parse
    <3>1. valid = Nothing BY <2>1 DEF Parse, Inv
    <3> QED BY <3>1 DEF Nothing
  <2>2. CASE Reparse
    <3>1. valid' \in {valid, Merged(answer)} BY <2>2, ReparseEffect
    <3> QED BY <3>1 DEF Merged
  <2> QED BY <2>1, <2>2 DEF Next, Ask, AskRejected, AskFails, Repair, RepairFails
<1> QED BY <1>1, InvariantHolds, PTL DEF Spec, RepairKeepsValid

-----------------------------------------------------------------------------
(* The call implements its contract *)

\* A result the contract allows.
LEMMA ResultInContract ==
  ASSUME NEW label \in Labelling, NEW bad, request \in Requests,
         \/ bad = {} /\ Labelled(label) # {}
         \/ bad = asked \ Labelled(label) /\ (LenientProvider \/ bad = {})
  PROVE  [kind |-> "result", label |-> label, bad |-> bad]
           \in {Call!Returned(a) : a \in Call!Results(asked, TRUE, TRUE)}
<1>. DEFINE r == [label |-> label, bad |-> bad]
<1>1. r \in Results(asked, TRUE, TRUE)
  <2>1. r \in [label: Labelling, bad: SUBSET asked] OBVIOUS
  <2>2. bad \cap Labelled(label) = {} OBVIOUS
  <2>3. ASSUME bad = {} PROVE Labelled(label) # {}
    <3>1. PICK m \in asked : TRUE BY RequestType
    <3> QED BY <2>3, <3>1
  <2>4. bad # {} => LenientProvider /\ asked \ Labelled(label) = bad OBVIOUS
  <2>5. r.label = label /\ r.bad = bad OBVIOUS
  <2>. HIDE DEF r
  <2> QED BY <2>1, <2>2, <2>3, <2>4, <2>5 DEF Results
<1>2. Call!Returned(r) = [kind |-> "result", label |-> label, bad |-> bad] BY DEF Call!Returned
<1>3. Call!Results(asked, TRUE, TRUE) = Results(asked, TRUE, TRUE)
  BY DEF Results, Call!Results, Labelled, Call!Labelled, Labelling, Call!Labelling,
         AnyLabel, Call!AnyLabel, NoLabel, Call!NoLabel
<1> QED BY <1>1, <1>2, <1>3

\* What the caller sees.
Bad == {request[i] : i \in failed}
Seen == CASE stage = "done"  -> [kind |-> "result", label |-> valid, bad |-> Bad]
          [] stage = "error" -> [kind |-> "error"]
          [] OTHER           -> [kind |-> "pending"]

LEMMA EndImplements ==
  ASSUME Inv, stage \notin {"done", "error"}, stage' = "done", request' = request,
         valid' \in Labelling,
         \/ Bad' = {} /\ Labelled(valid') # {}
         \/ Bad' = asked \ Labelled(valid') /\ (LenientProvider \/ Bad' = {})
  PROVE  Call!Next
<1>1. request \in Requests BY DEF Inv, TypeOK
<1>2. [kind |-> "result", label |-> valid', bad |-> Bad']
        \in {Call!Returned(a) : a \in Call!Results(asked, TRUE, TRUE)}
  BY <1>1, ResultInContract
<1>3. Seen = Call!Pending /\ Seen' = [kind |-> "result", label |-> valid', bad |-> Bad']
  BY DEF Seen, Call!Pending
<1>4. Seen' \in {Call!Returned(a) : a \in Call!Results(asked, TRUE, TRUE)} BY <1>2, <1>3
<1>5. asked' = asked BY DEF asked
<1> QED BY <1>3, <1>4, <1>5 DEF Call!Next, Seen, Bad

LEMMA StepsImplement ==
  ASSUME Inv, Inv', [Next]_vars
  PROVE  [Call!Next]_<<asked, Seen>>
<1>0. request \in Requests BY DEF Inv, TypeOK
<1>1. ASSUME NEW a \in Answer, Ask(a) \/ Repair(a) PROVE UNCHANGED <<asked, Seen>>
  BY <1>1 DEF Ask, Repair, Seen, asked
<1>2. ASSUME AskFails \/ \E a \in Answer : AskRejected(a) PROVE Call!Next
  BY <1>2 DEF AskFails, AskRejected, Call!Next, Call!Pending, Call!Failure, asked
<1>3. CASE Parse
  <2>1. /\ stage = "parse" /\ valid' = Parsed(answer) /\ request' = request
        /\ failed = {} /\ answer \in Answer /\ (LenientProvider \/ ~ParseError(answer))
    BY <1>3 DEF Parse, Inv
  <2>2. valid' \in Labelling BY DEF Inv, TypeOK
  <2>3. CASE stage' = "repair" BY <2>1, <2>3 DEF Seen, asked
  <2>4. CASE stage' # "repair"
    <3>1. stage' = "done" BY <1>3, <2>4 DEF Parse
    <3>2. \/ Bad' = {} /\ Labelled(valid') # {}
          \/ Bad' = asked \ Labelled(valid') /\ (LenientProvider \/ Bad' = {})
      <4>1. CASE ~ParseError(answer)
        <5>1. failed' = {} BY <1>3, <2>1, <4>1 DEF Parse
        <5> QED BY <2>1, <4>1, <5>1, ParsedLabels DEF Bad
      <4>2. CASE ParseError(answer) /\ Missing(valid') = {}
        <5>1. failed' = {} BY <1>3, <2>1, <4>2 DEF Parse
        <5> QED BY <1>0, <4>2, <5>1, NothingMissing DEF Bad
      <4>3. CASE ParseError(answer) /\ Missing(valid') # {}
        <5>1. failed' = Missing(valid') BY <1>3, <2>4, <4>3 DEF Parse
        <5>2. Bad' = {request[i] : i \in Missing(valid')} BY <2>1, <5>1 DEF Bad
        <5> QED BY <1>0, <2>1, <4>3, <5>2, MissingMessages
      <4> QED BY <4>1, <4>2, <4>3
    <3> QED BY <2>1, <2>2, <3>1, <3>2, EndImplements
  <2> QED BY <2>3, <2>4
<1>4. CASE RepairFails \/ Reparse
  <2>1. /\ stage \in {"repair", "reparse"} /\ stage' = "done" /\ request' = request
        /\ failed' = Missing(valid')
    BY <1>4, ReparseEffect DEF RepairFails, GiveUp
  <2>2. LenientProvider /\ valid' \in Labelling BY <2>1 DEF Inv, TypeOK
  <2>3. Bad' = {request[i] : i \in Missing(valid')} BY <2>1 DEF Bad
  <2>4. Bad' = asked \ Labelled(valid') BY <1>0, <2>3, MissingMessages
  <2> QED BY <2>1, <2>2, <2>4, EndImplements
<1>5. CASE UNCHANGED vars BY <1>5 DEF vars, Seen, asked, Bad
<1> QED BY <1>1, <1>2, <1>3, <1>4, <1>5 DEF Next

\* The request, answers, repair and merge together are one step to the caller: an
\* error, or a result in which every message is labelled, failed or (if nothing
\* failed) left out, never two of these.
THEOREM CallImplementsContract == Spec => ImplementsCall
<1>1. Init => Call!Init BY RequestType DEF Init, Call!Init, Call!Pending
<1>2. Inv /\ Inv' /\ [Next]_vars => [Call!Next]_<<asked, Seen>> BY StepsImplement
<1> QED BY <1>1, <1>2, InvariantHolds, PTL DEF Spec, ImplementsCall, Call!Spec, Seen, Bad
=============================================================================
