--------------------------- MODULE TelegramProofs ---------------------------
(***************************************************************************)
(* Send implements ChannelSend for every number of attempts.  The invariant *)
(* relates the copies the chat may have to the attempts begun.              *)
(***************************************************************************)
EXTENDS Telegram, TLAPS

\* Before a request at most the earlier attempts left copies; after it, this one too.
CopiesBounded ==
  copies <= IF pc \in {"pause", "done"} THEN attempt ELSE attempt - 1

IInv ==
  /\ TypeOK
  /\ pc = "done" <=> result # "pending"
  /\ pc = "start" => copies = 0
  /\ pc = "pause" => attempt < MaxRetries
  /\ CopiesBounded
  /\ result = "nil" => copies >= 1

\* The relation of copies to attempts holds from the first request to the last.
THEOREM InductiveInvariant == Spec => []IInv
<1> USE RetriesAssumption
<1>1. Init => IInv
  BY DEF Init, IInv, TypeOK, CopiesBounded, ErrorKinds
<1>2. IInv /\ [Next]_vars => IInv'
  <2> SUFFICES ASSUME IInv, [Next]_vars PROVE IInv'
    OBVIOUS
  <2> USE DEF IInv, TypeOK, CopiesBounded, ErrorKinds, Transient, Permanent, Return
  <2>1. CASE Cancel
    BY <2>1 DEF Cancel
  <2>2. CASE SizeGuard
    BY <2>2 DEF SizeGuard
  <2>3. CASE Check
    BY <2>3 DEF Check, AfterCheck
  <2>4. CASE Acknowledged
    BY <2>4 DEF Acknowledged
  <2>5. CASE RequestFails
    <3>1. CASE GivesUp
      BY <2>5, <3>1 DEF RequestFails, GivesUp
    <3>2. CASE ~GivesUp
      BY <2>5, <3>2 DEF RequestFails, GivesUp
    <3> QED
      BY <3>1, <3>2
  <2>6. CASE PauseEnds
    BY <2>6 DEF PauseEnds
  <2>7. CASE PauseCancelled
    BY <2>7 DEF PauseCancelled
  <2>8. CASE UNCHANGED vars
    BY <2>8 DEF vars
  <2> QED
    BY <2>1, <2>2, <2>3, <2>4, <2>5, <2>6, <2>7, <2>8 DEF Next, Step
<1> QED
  BY <1>1, <1>2, PTL DEF Spec

\* Every step of Send is a stutter for the caller or its one visible step.
LEMMA StepsImplement ==
  ASSUME IInv, IInv', [Next]_vars
  PROVE  [Channel!Next]_<<result, IF pc = "done" THEN copies ELSE 0>>
<1> USE RetriesAssumption DEF Channel!Next, Channel!Delivers, Channel!Fails, Return
<1>1. CASE Cancel
  BY <1>1 DEF Cancel
<1>2. CASE SizeGuard
  BY <1>2 DEF SizeGuard, IInv, TypeOK
<1>3. CASE Check
  BY <1>3 DEF Check, AfterCheck, IInv, TypeOK, CopiesBounded
<1>4. CASE Acknowledged
  BY <1>4 DEF Acknowledged, IInv, TypeOK
<1>5. CASE RequestFails
  BY <1>5 DEF RequestFails, IInv, TypeOK, Transient, Permanent
<1>6. CASE PauseEnds
  BY <1>6 DEF PauseEnds
<1>7. CASE PauseCancelled
  BY <1>7 DEF PauseCancelled, IInv, TypeOK
<1>8. CASE UNCHANGED vars
  BY <1>8 DEF vars
<1> QED
  BY <1>1, <1>2, <1>3, <1>4, <1>5, <1>6, <1>7, <1>8 DEF Next, Step

\* For every MaxRetries, Send reports success only for a digest the chat has,
\* and leaves at most MaxRetries copies of it: it implements ChannelSend.
THEOREM SendImplementsChannel == Spec => ImplementsChannel
<1>1. Init => Channel!Init
  BY DEF Init, Channel!Init
<1>2. IInv /\ IInv' /\ [Next]_vars => [Channel!Next]_<<result, IF pc = "done" THEN copies ELSE 0>>
  BY StepsImplement
<1> QED
  BY <1>1, <1>2, InductiveInvariant, PTL DEF Spec, ImplementsChannel, Channel!Spec

\* For every MaxRetries, no request begins once the context is done.
THEOREM CancelStopsRequests == Spec => NoRequestAfterCancel
<1>1. [Next]_vars => [cancelled /\ pc # "request" => pc' # "request"]_vars
  BY DEF Next, Step, Cancel, SizeGuard, Check, AfterCheck, Acknowledged, RequestFails,
         PauseEnds, PauseCancelled, Return, vars
<1> QED
  BY <1>1, PTL DEF Spec, NoRequestAfterCancel

\* For every MaxRetries, Send gives up on a transient error only after its last
\* attempt, a signal or the size guard.
THEOREM GivesUpOnlyAfterAllAttempts == Spec => []AllAttemptsUsed
<1>1. Init => AllAttemptsUsed
  BY DEF Init, AllAttemptsUsed
<1>2. IInv /\ AllAttemptsUsed /\ [Next]_vars => AllAttemptsUsed'
  BY DEF IInv, AllAttemptsUsed, Next, Step, Cancel, SizeGuard, Check, AfterCheck, Acknowledged,
         RequestFails, GivesUp, PauseEnds, PauseCancelled, Return, Transient, Permanent, vars
<1> QED
  BY <1>1, <1>2, InductiveInvariant, PTL DEF Spec
=============================================================================
