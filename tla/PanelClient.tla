----------------------------- MODULE PanelClient -----------------------------
(***************************************************************************)
(* The two halves of the panel's client: the cached list (TtlCache) and    *)
(* the calls under it (ClientRetry).  A behaviour is about one of them,    *)
(* chosen at the start: TtlCache takes a fetch as what PanelCall says of a *)
(* call, and ClientRetry is shown to implement that.                       *)
(***************************************************************************)
EXTENDS TtlCache

CONSTANT MaxAttempts

VARIABLES surface, kind, done, attempt, at, reply, ctx, answer

Retry == INSTANCE ClientRetry

ASSUME PanelClientAssumption == Retry!ClientRetryAssumption

clientVars == <<kind, done, attempt, at, reply, ctx, answer>>
allvars == <<vars, surface, clientVars>>

NoCall ==
  /\ kind = "set" /\ done = FALSE /\ attempt = 1 /\ at = "returned"
  /\ reply = "none" /\ ctx = "live" /\ answer = "none"

ClientInit ==
  /\ Init
  /\ \/ surface = "cache" /\ NoCall
     \/ surface = "client" /\ Retry!Init

ClientNext ==
  \/ surface = "cache" /\ Next /\ UNCHANGED <<surface, clientVars>>
  \/ surface = "client" /\ Retry!Next /\ UNCHANGED <<surface, vars>>
  \/ surface = "client" /\ at = "returned" /\ UNCHANGED allvars

\* The fairness of FairSpec, and of ClientRetry's Spec.
ClientSpec ==
  /\ ClientInit /\ [][ClientNext]_allvars
  /\ \A r \in Readers : WF_vars(Get(r))
  /\ WF_clientVars(Retry!Client)

ClientTypeOK == Retry!TypeOK

\* See ClientRetry: retried or not, a call is one request as PanelCall has it.
ImplementsPanelCall == Retry!Call!Init /\ [][Retry!Call!Next]_<<done, answer>>

\* See ClientRetry: every call returns.
CallReturns == surface = "client" => Retry!CallReturns
=============================================================================
