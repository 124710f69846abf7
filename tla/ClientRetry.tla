----------------------------- MODULE ClientRetry -----------------------------
(***************************************************************************)
(* One call of a method of xui.Client: doJSONBody's loop over attempts,    *)
(* the pauses between them and ignoreNotFound, with a panel that may fail  *)
(* before or after it carried a request out and a caller that may cancel.  *)
(*                                                                         *)
(* A request the client gave up is taken to be carried out by then or      *)
(* never.  Reads have no effect on the panel and are not told apart from   *)
(* "set" requests, which may be repeated.                                  *)
(***************************************************************************)
EXTENDS Naturals

CONSTANTS MaxAttempts   \* xui.retry.max_attempts

ClientRetryAssumption == MaxAttempts \in Nat

VARIABLES
  kind,     \* what the panel makes of a request it has carried out before:
            \* "set" does it again, "add" refuses, "remove" finds no record
  done,     \* the panel is as the request asks for
  attempt,
  at,       \* "loop", "sent", "pause" or "returned"
  reply,    \* of the panel to the request under way
  ctx,      \* "live" or "done"
  answer    \* of the method

vars == <<kind, done, attempt, at, reply, ctx, answer>>

\* Statuses, bodies cut short and bodies that are no envelope, success:false
\* with a message of its own, and success.
Replies == {"none", "ok", "not found", "failure", "auth", "other status",
            "no envelope", "5xx", "cut short"}

TypeOK ==
  /\ kind \in {"set", "add", "remove"} /\ done \in BOOLEAN
  /\ attempt \in 1..(MaxAttempts + 1)
  /\ at \in {"loop", "sent", "pause", "returned"}
  /\ reply \in Replies /\ ctx \in {"live", "done"}
  /\ answer \in {"none", "ok", "err"}

Init ==
  /\ kind \in {"set", "add", "remove"}
  /\ done \in BOOLEAN
  /\ attempt = 1 /\ at = "loop" /\ reply = "none" /\ ctx = "live" /\ answer = "none"

Cancel ==
  /\ ctx = "live" /\ at # "returned"
  /\ ctx' = "done"
  /\ UNCHANGED <<kind, done, attempt, at, reply, answer>>

Return(result) == at' = "returned" /\ answer' = result /\ reply' = "none"

\* Mutant of Send: the attempts are not counted.
SendUncounted == at = "loop" /\ ctx = "live" /\ at' = "sent" /\ UNCHANGED <<kind, done, attempt, reply, ctx, answer>>

\* The head of the loop.
Send ==
  /\ at = "loop" /\ attempt <= MaxAttempts /\ ctx = "live"
  /\ at' = "sent"
  /\ UNCHANGED <<kind, done, attempt, reply, ctx, answer>>

StopTrying ==
  /\ at = "loop" /\ (attempt > MaxAttempts \/ ctx = "done")
  /\ Return("err")
  /\ UNCHANGED <<kind, done, attempt, ctx>>

\* The panel does what it is asked, and its answer may be spoilt on the way.
CarryOut ==
  /\ at = "sent" /\ reply = "none"
  /\ kind = "set" \/ ~done
  /\ done' = TRUE
  /\ reply' \in {"ok", "5xx", "no envelope", "cut short"}
  /\ UNCHANGED <<kind, attempt, at, ctx, answer>>

\* It has nothing to do, or fails.
Decline ==
  /\ at = "sent" /\ reply = "none"
  /\ \/ reply' = "not found" /\ kind = "remove" /\ done
     \/ reply' = "failure" /\ kind = "add" /\ done
     \/ reply' \in {"failure", "auth", "other status", "5xx", "cut short"}
  /\ UNCHANGED <<kind, done, attempt, at, ctx, answer>>

\* The replies that lead to another attempt.
Again(r) == r \in {"5xx", "cut short"}

\* Mutant of Success: whatever arrived with status 200.
SuccessStatus(r) == r \in {"ok", "not found", "failure", "no envelope"}

\* Success, and ignoreNotFound.
Success(r) == r \in {"ok", "not found"}

\* The reply is judged.
Judge ==
  /\ at = "sent" /\ reply # "none"
  /\ \/ Success(reply) /\ Return("ok")
     \/ Again(reply) /\ at' = "pause" /\ reply' = "none" /\ UNCHANGED answer
     \/ ~Success(reply) /\ ~Again(reply) /\ Return("err")
  /\ UNCHANGED <<kind, done, attempt, ctx>>

\* httpClient.Do fails: no connection, its timeout, or ctx.
GiveUp ==
  /\ at = "sent"
  /\ at' = "pause" /\ reply' = "none"
  /\ UNCHANGED <<kind, done, attempt, ctx, answer>>

\* Mutant of PauseEnds: the same attempt again.
PauseEndsSame == at = "pause" /\ at' = "loop" /\ UNCHANGED <<kind, done, attempt, reply, ctx, answer>>

\* sleepBackoff, cut short when ctx is done.
PauseEnds ==
  /\ at = "pause"
  /\ at' = "loop" /\ attempt' = attempt + 1
  /\ UNCHANGED <<kind, done, reply, ctx, answer>>

Client == Send \/ StopTrying \/ Judge \/ GiveUp \/ PauseEnds

Next == Client \/ CarryOut \/ Decline \/ Cancel

Spec == Init /\ [][Next]_vars /\ WF_vars(Client)

-----------------------------------------------------------------------------

\* Retried or not, a call is one request of the kind the other modules
\* assume (doJSONBody, ignoreNotFound).
Call == INSTANCE PanelCall WITH effect <- done

ImplementsPanelCall == Call!Spec

\* Every call returns, for its attempts are limited and each ends in an
\* answer or at the timeout (doJSONBody).
CallReturns == <>(at = "returned")
=============================================================================
