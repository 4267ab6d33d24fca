------------------------------ MODULE Telegram ------------------------------
(***************************************************************************)
(* telegram.Channel.Send: at most maxRetries requests to sendDocument, with *)
(* a pause after errors whose text looks transient.  The chat may receive a *)
(* document whose acknowledgement never reaches the client.                 *)
(***************************************************************************)
EXTENDS Naturals

CONSTANT MaxRetries  \* maxRetries
ASSUME RetriesAssumption == MaxRetries \in Nat \ {0}

VARIABLES
  pc,        \* "start", "check" (loop head), "request", "pause", "done"
  attempt,   \* loop variable
  cancelled, \* ctx is done
  oversized, \* the payload is larger than maxPayloadSize
  copies,    \* documents the chat received
  lastErr,   \* class of the last error, "none" before the first
  result     \* what Send returned, "pending" before

vars == <<pc, attempt, cancelled, oversized, copies, lastErr, result>>

\* "transient" errors contain one of the texts isRetryable knows; 504, an EOF
\* or an answer that is not JSON do not, and neither does 400.
Transient == "transient"
Permanent == "other"
ErrorKinds == {Transient, Permanent}

Init ==
  /\ pc = "start" /\ attempt = 1 /\ cancelled \in BOOLEAN /\ oversized \in BOOLEAN
  /\ copies = 0 /\ lastErr = "none" /\ result = "pending"

Return(r) == pc' = "done" /\ result' = r

-----------------------------------------------------------------------------

\* A signal, before the call or at any moment of it.
Cancel ==
  /\ ~cancelled /\ pc # "done"
  /\ cancelled' = TRUE
  /\ UNCHANGED <<pc, attempt, oversized, copies, lastErr, result>>

SizeGuard ==
  /\ pc = "start"
  /\ IF oversized THEN Return("error") ELSE pc' = "check" /\ UNCHANGED result
  /\ UNCHANGED <<attempt, cancelled, oversized, copies, lastErr>>

AfterCheckOfFirstAttempt == IF cancelled /\ attempt = 1 THEN "done" ELSE "request"

AfterCheckContinuing == IF cancelled THEN "check" ELSE "request"

\* The select at the head of the loop.
AfterCheck == IF cancelled THEN "done" ELSE "request"

Check ==
  /\ pc = "check"
  /\ pc' = AfterCheck
  /\ result' = IF pc' = "done" THEN "error" ELSE result
  /\ UNCHANGED <<attempt, cancelled, oversized, copies, lastErr>>

AcknowledgedWithoutOK ==
  /\ pc = "request"
  /\ copies' \in {copies, copies + 1}
  /\ Return("nil")
  /\ UNCHANGED <<attempt, cancelled, oversized, lastErr>>

\* sendDocument returns nil: the answer says ok.
Acknowledged ==
  /\ pc = "request"
  /\ copies' = copies + 1
  /\ Return("nil")
  /\ UNCHANGED <<attempt, cancelled, oversized, lastErr>>

GivesUpOneEarly == attempt + 1 >= MaxRetries

\* The loop condition fails, whatever the error was.
GivesUp == attempt = MaxRetries

\* sendDocument returns an error, be it the answer's or the connection's; the
\* document arrived or not.  An error that is not transient is retried too,
\* only without the pause.
RequestFails ==
  /\ pc = "request"
  /\ copies' \in {copies, copies + 1}
  /\ lastErr' \in ErrorKinds
  /\ IF GivesUp
     THEN Return("error") /\ UNCHANGED attempt
     ELSE /\ pc' = IF lastErr' = Transient THEN "pause" ELSE "check"
          /\ attempt' = IF lastErr' = Transient THEN attempt ELSE attempt + 1
          /\ UNCHANGED result
  /\ UNCHANGED <<cancelled, oversized>>

PauseEnds ==
  /\ pc = "pause"
  /\ attempt' = attempt + 1 /\ pc' = "check"
  /\ UNCHANGED <<cancelled, oversized, copies, lastErr, result>>

PauseCancelled ==
  /\ pc = "pause" /\ cancelled
  /\ Return("error")
  /\ UNCHANGED <<attempt, cancelled, oversized, copies, lastErr>>

Step == SizeGuard \/ Check \/ Acknowledged \/ RequestFails \/ PauseEnds \/ PauseCancelled

Next == Step \/ Cancel

\* Requests are bounded by the HTTP client's timeout and pauses by a timer.
Spec == Init /\ [][Next]_vars /\ WF_vars(Step)

-----------------------------------------------------------------------------
(* Properties *)

TypeOK ==
  /\ pc \in {"start", "check", "request", "pause", "done"}
  /\ attempt \in 1..MaxRetries
  /\ cancelled \in BOOLEAN /\ oversized \in BOOLEAN
  /\ copies \in 0..MaxRetries
  /\ lastErr \in ErrorKinds \cup {"none"}
  /\ result \in {"pending", "nil", "error"}

\* Whatever the network does, Send looks to its caller like one step of a
\* channel: nil means the chat has the digest, and there are at most MaxRetries
\* copies of it.  Pipeline's Send and SendFails are these steps.
Channel == INSTANCE ChannelSend WITH
             outcome <- result,
             copies  <- IF pc = "done" THEN copies ELSE 0
ImplementsChannel == Channel!Spec

\* Once the context is done no further request begins, whichever way the timer
\* of a pause and the cancellation race.
NoRequestAfterCancel == [][cancelled /\ pc # "request" => pc' # "request"]_vars

\* A transient outage loses the digest only if it outlasts every attempt: Send
\* never gives up on a transient error before, unless it is told to stop or
\* never began.
AllAttemptsUsed ==
  result = "error" /\ lastErr = Transient /\ ~cancelled /\ ~oversized
  => attempt = MaxRetries

\* Send returns: the run can record its outcome.
Returns == <>(pc = "done")
=============================================================================
