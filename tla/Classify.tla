------------------------------ MODULE Classify ------------------------------
(***************************************************************************)
(* One classification request: the provider's answer, ParseResponse, the   *)
(* single repair request and the merge of its answer.                      *)
(*                                                                         *)
(* An answer is blank, no usable document (bad JSON, wrong schema version, *)
(* no items), or a sequence of items.  An item names a message, a label,   *)
(* and whether its other fields (confidence, priority, summary, key        *)
(* points) are valid.  All four providers of src/internal/llm parse the    *)
(* answer themselves and return an error unless every item is valid; a     *)
(* LenientProvider, the one the orchestrator is written for, can also hand *)
(* the raw answer over.                                                    *)
(***************************************************************************)
EXTENDS ClassifyContract, Naturals, FiniteSets, SequencesExt

CONSTANTS
  Requests,       \* the requests: sequences of message keys, one key perhaps twice
  MaxItems,       \* bound: items of one answer
  RepairAttempts  \* values of llm.analysis_repair_max_attempts; never < 0

ASSUME ClassifyAssumption ==
  /\ LenientProvider \in BOOLEAN /\ RepairAttempts \subseteq Nat /\ MaxItems \in Nat \ {0}
  /\ \A r \in Requests : r \in Seq(Messages) /\ r # <<>>
  /\ "none" \notin Labels

VARIABLES
  request,  \* request.Messages
  attempts, \* maxAttempts
  stage,    \* where the call is
  answer,   \* RawResponse of the latest provider.Classify
  valid,    \* validClassifications
  failed,   \* failedClassifications: the places of the request they are made for
  errors    \* analysisErrors: the stage of each, by the place it is made for

\* A loop over the request appends to these two lists, so each is in the order of
\* the places it was made for, and its keys are the requested ones there.
vars == <<request, attempts, stage, answer, valid, failed, errors>>

Unlisted == "Unlisted"  \* a label that is not in the label set
Item == [key: Messages, label: AnyLabel \cup {Unlisted}, sound: BOOLEAN]
Blank == "blank"  Garbled == "garbled"
NoItems == <<>>
Documents == BoundedSeq(Item, MaxItems) \ {NoItems}
Answer == [kind: {Blank, Garbled}, items: {NoItems}] \cup [kind: {"json"}, items: Documents]
NoAnswer == [kind |-> Blank, items |-> NoItems]

asked == {request[i] : i \in DOMAIN request}
Nothing == [m \in Messages |-> NoLabel]

-----------------------------------------------------------------------------
(* ParseResponse *)

AcceptedAnyLabel(items) ==
  {i \in DOMAIN items :
     /\ \A k \in 1..(i - 1) : items[k].key # items[i].key
     /\ items[i].sound}

\* Items that pass validation: the first item of its key, whether or not that
\* first one was itself valid, with a known label and sound fields.
Accepted(items) ==
  {i \in DOMAIN items :
     /\ \A k \in 1..(i - 1) : items[k].key # items[i].key
     /\ items[i].label \in AnyLabel
     /\ items[i].sound}

\* ParseResult.Classifications, which is partial when there is an error.
Parsed(a) ==
  [m \in Messages |->
     IF \E i \in Accepted(a.items) : a.items[i].key = m
     THEN a.items[CHOOSE i \in Accepted(a.items) : a.items[i].key = m].label
     ELSE NoLabel]

ParseError(a) == a.kind # "json" \/ Accepted(a.items) # DOMAIN a.items

MissingMentioned(label) ==
  {i \in DOMAIN request : /\ label[request[i]] = NoLabel
                          /\ \E k \in DOMAIN answer.items : answer.items[k].key = request[i]}

\* The places of the request that have no valid classification.
Missing(label) == {i \in DOMAIN request : label[request[i]] = NoLabel}

Explained(places, at) == [i \in places |-> at]
NoErrors == Explained({}, "parse")

-----------------------------------------------------------------------------

Init ==
  /\ request \in Requests /\ attempts \in RepairAttempts
  /\ stage = "ask" /\ answer = NoAnswer
  /\ valid = Nothing /\ failed = {} /\ errors = NoErrors

\* provider.Classify answers; a strict provider only if its own parse succeeds.
Ask(a) ==
  /\ stage = "ask"
  /\ LenientProvider \/ ~ParseError(a)
  /\ stage' = "parse" /\ answer' = a
  /\ UNCHANGED <<request, attempts, valid, failed, errors>>

\* It fails: transport, HTTP status, a blocked or truncated candidate.
AskFails ==
  /\ stage = "ask"
  /\ stage' = "error"
  /\ UNCHANGED <<request, attempts, answer, valid, failed, errors>>

\* The provider rejects an answer with invalid items; its error carries none
\* of the valid ones, and classifyWithPartialFallback returns it.
AskRejected(a) ==
  /\ stage = "ask" /\ ParseError(a)
  /\ stage' = "error" /\ answer' = a
  /\ UNCHANGED <<request, attempts, valid, failed, errors>>

\* A wholly valid answer ends the call, and so does one whose invalid items are
\* repetitions or nobody's; without repair the rest is failed.  Of the answer
\* only its kind matters from here on: it is quoted in the repair prompt.
Parse ==
  /\ stage = "parse"
  /\ valid' = Parsed(answer)
  /\ IF ~ParseError(answer) \/ Missing(valid') = {}
     THEN stage' = "done" /\ UNCHANGED <<failed, errors>>
     ELSE /\ errors' = Explained(Missing(valid'), "parse")
          /\ IF attempts = 0
             THEN stage' = "done" /\ failed' = Missing(valid')
             ELSE stage' = "repair" /\ UNCHANGED failed
  /\ answer' = [answer EXCEPT !.items = NoItems]
  /\ UNCHANGED <<request, attempts>>

\* repairOnce: the one repair request, with its own provider.Classify.  A blank
\* answer cannot be quoted in a repair prompt.
Repair(a) ==
  /\ stage = "repair" /\ answer.kind # Blank
  /\ LenientProvider \/ ~ParseError(a)
  /\ stage' = "reparse" /\ answer' = a
  /\ UNCHANGED <<request, attempts, valid, failed, errors>>

\* The list of failures is made now; the errors of the first answer stay, with
\* another stage and text.
GiveUp ==
  /\ stage' = "done" /\ failed' = Missing(valid)
  /\ errors' = Explained(DOMAIN errors, "repair")

RepairFails ==
  /\ stage = "repair"
  /\ GiveUp
  /\ UNCHANGED <<request, attempts, answer, valid>>

MergedOverwriting(a) ==
  [m \in Messages |-> IF Parsed(a)[m] # NoLabel THEN Parsed(a)[m] ELSE valid[m]]

\* Repaired classifications of messages that had none are added, asked or not.
Merged(a) == [m \in Messages |-> IF valid[m] # NoLabel THEN valid[m] ELSE Parsed(a)[m]]

ExplanationKept(label) == errors

\* The errors of a merged result are made anew, for what is still missing.
Explanation(label) == Explained(Missing(label), "repair")

\* A repair answer with any invalid item is not used at all.
Reparse ==
  /\ stage = "reparse"
  /\ IF ParseError(answer)
     THEN GiveUp /\ UNCHANGED valid
     ELSE /\ valid' = Merged(answer)
          /\ failed' = Missing(valid') /\ errors' = Explanation(valid')
          /\ stage' = "done"
  /\ answer' = [answer EXCEPT !.items = NoItems]
  /\ UNCHANGED <<request, attempts>>

Next ==
  \/ stage \in {"ask", "repair"} /\ \E a \in Answer : Ask(a) \/ AskRejected(a) \/ Repair(a)
  \/ AskFails \/ Parse \/ RepairFails \/ Reparse

Spec == Init /\ [][Next]_vars

-----------------------------------------------------------------------------
(* Properties *)

TypeOK ==
  /\ request \in Requests /\ attempts \in RepairAttempts
  /\ stage \in {"ask", "parse", "repair", "reparse", "done", "error"}
  /\ answer.kind \in {Blank, Garbled, "json"}
  /\ valid \in Labelling
  /\ failed \subseteq DOMAIN request
  /\ DOMAIN errors \subseteq DOMAIN request
  /\ \A i \in DOMAIN errors : errors[i] \in {"parse", "repair"}

\* The caller sees what the contract says, whatever the provider answers to the
\* first and to the repair request: messages are labelled or failed, not both,
\* and none that was requested gets lost once there are failed ones.
Call == INSTANCE ClassifyCall WITH
          outcome <- CASE stage = "done"  -> [kind |-> "result", label |-> valid,
                                        bad |-> {request[i] : i \in failed}]
                       [] stage = "error" -> [kind |-> "error"]
                       [] OTHER           -> [kind |-> "pending"]
ImplementsCall == Call!Spec

\* The repair request never costs a message the valid classification it had.
RepairKeepsValid ==
  [][\A m \in Messages : valid[m] # NoLabel => valid'[m] = valid[m]]_vars

\* The element of a set of places that comes k-th.
Nth(places, k) == CHOOSE i \in places : Cardinality({j \in places : j <= i}) = k

\* buildDigestDataPartial gives the k-th failed classification the k-th error,
\* although the two lists were built by different loops, at different times and
\* perhaps around a repair: that error is about the same message, it names the
\* stage that gave up on it, and neither list has an element the other lacks.
ErrorsExplainFailures ==
  stage = "done" =>
    /\ Cardinality(DOMAIN errors) = Cardinality(failed)
    /\ \A k \in 1..Cardinality(failed) : request[Nth(DOMAIN errors, k)] = request[Nth(failed, k)]
    /\ \A i \in DOMAIN errors : errors[i] = IF attempts = 0 THEN "parse" ELSE "repair"
=============================================================================
