-------------------------- MODULE PanelClientProofs --------------------------
(***************************************************************************)
(* ClientRetry implements PanelCall: what the other modules assume of a    *)
(* request to the panel holds of the retry loop, whatever max_attempts is, *)
(* whatever becomes of each attempt and whenever the caller cancels.       *)
(***************************************************************************)
EXTENDS PanelClient, TLAPS

\* Success is reported by the panel only once it is as asked, replies are judged
\* only while a request is under way, and only a method that has returned has an
\* answer.
ReplyInv ==
  /\ done \in BOOLEAN
  /\ reply \in {"ok", "not found"} => done
  /\ reply # "none" => at = "sent"
  /\ at # "returned" => answer = "none"

\* The loop begins no attempt it has not.
CountInv ==
  /\ attempt \in 1..(MaxAttempts + 1)
  /\ at \in {"loop", "sent", "pause", "returned"}
  /\ at \in {"sent", "pause"} => attempt <= MaxAttempts
  /\ kind \in {"set", "add", "remove"} /\ reply \in Retry!Replies
  /\ ctx \in {"live", "done"} /\ answer \in {"none", "ok", "err"}

LEMMA AttemptsNat == MaxAttempts \in Nat
BY PanelClientAssumption DEF Retry!ClientRetryAssumption

LEMMA NextAttempt ==
  /\ 1 \in 1..(MaxAttempts + 1)
  /\ \A a \in 1..(MaxAttempts + 1) : a <= MaxAttempts => a + 1 \in 1..(MaxAttempts + 1)
BY AttemptsNat

\* Every step of the loop and of the panel keeps them.
LEMMA ReplyInvNext ==
  ASSUME ReplyInv, Retry!Next
  PROVE  ReplyInv'
<1>1. CASE Retry!Send \/ Retry!Cancel \/ Retry!GiveUp \/ Retry!PauseEnds
  BY <1>1 DEF Retry!Send, Retry!Cancel, Retry!GiveUp, Retry!PauseEnds, ReplyInv
<1>2. CASE Retry!StopTrying
  BY <1>2 DEF Retry!StopTrying, Retry!Return, ReplyInv
<1>3. CASE Retry!Judge
  BY <1>3 DEF Retry!Judge, Retry!Return, ReplyInv
<1>4. CASE Retry!CarryOut
  BY <1>4 DEF Retry!CarryOut, ReplyInv
<1>5. CASE Retry!Decline
  BY <1>5 DEF Retry!Decline, ReplyInv
<1> QED
  BY <1>1, <1>2, <1>3, <1>4, <1>5 DEF Retry!Next, Retry!Client

LEMMA CountInvNext ==
  ASSUME CountInv, Retry!Next
  PROVE  CountInv'
<1> USE DEF Retry!Replies, CountInv
<1>1. CASE Retry!Send \/ Retry!Cancel \/ Retry!GiveUp
  BY <1>1, Zenon DEF Retry!Send, Retry!Cancel, Retry!GiveUp
<1>2. CASE Retry!PauseEnds
  <2>1. /\ attempt' = attempt + 1 /\ attempt <= MaxAttempts /\ at' = "loop"
        /\ attempt \in 1..(MaxAttempts + 1)
        /\ UNCHANGED <<kind, reply, ctx, answer>>
    BY <1>2, Zenon DEF Retry!PauseEnds
  <2> QED
    BY <2>1, NextAttempt, Zenon
<1>3. CASE Retry!StopTrying \/ Retry!Judge
  BY <1>3, Zenon DEF Retry!StopTrying, Retry!Judge, Retry!Return
<1>4. CASE Retry!CarryOut \/ Retry!Decline
  BY <1>4, Zenon DEF Retry!CarryOut, Retry!Decline
<1> QED
  BY <1>1, <1>2, <1>3, <1>4 DEF Retry!Next, Retry!Client

LEMMA ReplyInvariant == ClientSpec => [](ReplyInv /\ CountInv)
<1>1. ClientInit => ReplyInv
  <2>1. NoCall => ReplyInv
    BY DEF NoCall, ReplyInv
  <2>2. Retry!Init => ReplyInv
    BY DEF Retry!Init, ReplyInv
  <2> QED
    BY <2>1, <2>2 DEF ClientInit
<1>2. ClientInit => CountInv
  BY NextAttempt, Zenon DEF ClientInit, NoCall, Retry!Init, CountInv, Retry!Replies
<1>3. ReplyInv /\ CountInv /\ [ClientNext]_allvars => (ReplyInv /\ CountInv)'
  <2>1. ASSUME ReplyInv, UNCHANGED clientVars PROVE ReplyInv'
    <3>1. done' = done /\ reply' = reply /\ at' = at /\ answer' = answer
      BY <2>1 DEF clientVars
    <3> QED
      BY <2>1, <3>1 DEF ReplyInv
  <2>2. CountInv /\ UNCHANGED clientVars => CountInv'
    BY Zenon DEF clientVars, CountInv
  <2> QED
    BY <2>1, <2>2, ReplyInvNext, CountInvNext DEF ClientNext, allvars
<1> QED
  BY <1>1, <1>2, <1>3, PTL DEF ClientSpec

\* The loop's variables keep their types; the attempts stay within max_attempts.
THEOREM ClientTyped == ClientSpec => []ClientTypeOK
<1>1. ReplyInv /\ CountInv => ClientTypeOK
  BY Zenon DEF ReplyInv, CountInv, ClientTypeOK, Retry!TypeOK
<1> QED
  BY <1>1, ReplyInvariant, PTL

\* The steps that neither act on the panel nor end the call.
LEMMA Quiet ==
  ASSUME Retry!Send \/ Retry!Cancel \/ Retry!PauseEnds \/ Retry!GiveUp \/ Retry!Decline
  PROVE  UNCHANGED <<done, answer>>
BY DEF Retry!Send, Retry!Cancel, Retry!PauseEnds, Retry!GiveUp, Retry!Decline

\* A step of the loop is a step of one request, or no step of it.
LEMMA OneRequest ==
  ASSUME ReplyInv, Retry!Next
  PROVE  Retry!Call!Next \/ UNCHANGED <<done, answer>>
<1>1. CASE Retry!Send \/ Retry!Cancel \/ Retry!PauseEnds \/ Retry!GiveUp \/ Retry!Decline
  BY <1>1, Quiet
<1>2. CASE Retry!StopTrying
  <2>1. answer = "none"
    BY <1>2 DEF Retry!StopTrying, ReplyInv
  <2>2. Retry!Call!Fail
    BY <1>2, <2>1 DEF Retry!StopTrying, Retry!Return, Retry!Call!Fail
  <2> QED
    BY <2>2 DEF Retry!Call!Next
<1>3. CASE Retry!CarryOut
  <2>1. answer = "none" /\ done \in BOOLEAN
    BY <1>3 DEF Retry!CarryOut, ReplyInv
  <2>2. CASE done
    BY <1>3, <2>1, <2>2 DEF Retry!CarryOut
  <2>3. CASE ~done
    <3>1. Retry!Call!TakeEffect
      BY <1>3, <2>1, <2>3 DEF Retry!CarryOut, Retry!Call!TakeEffect
    <3> QED
      BY <3>1 DEF Retry!Call!Next
  <2> QED
    BY <2>2, <2>3
<1>4. CASE Retry!Judge
  <2>1. answer = "none" /\ (Retry!Success(reply) => done)
    BY <1>4 DEF Retry!Judge, ReplyInv, Retry!Success
  <2>2. CASE Retry!Success(reply) /\ Retry!Return("ok")
    <3>1. Retry!Call!Succeed
      BY <1>4, <2>1, <2>2 DEF Retry!Judge, Retry!Return, Retry!Call!Succeed
    <3> QED
      BY <3>1 DEF Retry!Call!Next
  <2>3. CASE Retry!Again(reply) /\ UNCHANGED answer
    BY <1>4, <2>3 DEF Retry!Judge
  <2>4. CASE Retry!Return("err")
    <3>1. Retry!Call!Fail
      BY <1>4, <2>1, <2>4 DEF Retry!Judge, Retry!Return, Retry!Call!Fail
    <3> QED
      BY <3>1 DEF Retry!Call!Next
  <2> QED
    BY <1>4, <2>2, <2>3, <2>4 DEF Retry!Judge
<1> QED
  BY <1>1, <1>2, <1>3, <1>4 DEF Retry!Next, Retry!Client

\* However often a request is repeated and whatever becomes of each attempt, a
\* call changes the panel at most once and before it returns, and returns success
\* only if the panel is as asked (doJSONBody, ignoreNotFound).
THEOREM OneRequestWhateverHappens == ClientSpec => ImplementsPanelCall
<1>1. ClientInit => Retry!Call!Init
  BY DEF ClientInit, NoCall, Retry!Init, Retry!Call!Init
<1>2. ReplyInv /\ [ClientNext]_allvars => [Retry!Call!Next]_<<done, answer>>
  <2>1. UNCHANGED clientVars => UNCHANGED <<done, answer>>
    BY DEF clientVars
  <2> QED
    BY <2>1, OneRequest DEF ClientNext, allvars
<1> QED
  BY <1>1, <1>2, ReplyInvariant, PTL DEF ClientSpec, ImplementsPanelCall
=============================================================================
