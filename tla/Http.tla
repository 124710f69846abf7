-------------------------------- MODULE Http --------------------------------
(***************************************************************************)
(* What the two HTTP servers do with a request: the limiter before both    *)
(* (RateLimit), the admin panel's sessions (AdminAuth) and the             *)
(* subscriber's requests (Subscription).  The three share no state, so a   *)
(* behaviour is about one of them, chosen at the start.                    *)
(***************************************************************************)
EXTENDS RateLimit

CONSTANTS Ids, Tabs, SessionTTL, Second, SessionTime,
          Lists, Links, Parsable, Agents, Asked, CacheTTL, FetchTime,
          RequestTime

VARIABLES surface,
  now, sessions, born, ended, cookie, tab,
  panel, there, cached, fetch, request, page

Auth == INSTANCE AdminAuth WITH MaxTime <- SessionTime
Sub == INSTANCE Subscription WITH MaxTime <- RequestTime

ASSUME HttpAssumption ==
  /\ Auth!AdminAuthAssumption
  /\ Sub!SubscriptionAssumption

sessionVars == <<sessions, born, ended, cookie, tab>>
requestVars == <<panel, there, cached, fetch, request, page>>
allvars == <<vars, surface, now, sessionVars, requestVars>>

NoSessions == sessions = None /\ born = None /\ ended = None /\ cookie = None /\ tab = None
NoRequests ==
  /\ panel = None /\ there = None /\ cached = None /\ fetch = None
  /\ request = None /\ page = None

HttpInit ==
  /\ Init
  /\ \/ surface = "limiter" /\ now = 0 /\ NoSessions /\ NoRequests
     \/ surface = "sessions" /\ Auth!Init /\ NoRequests
     \/ surface = "requests" /\ Sub!Init /\ NoSessions

HttpNext ==
  \/ surface = "limiter" /\ Next /\ UNCHANGED <<surface, now, sessionVars, requestVars>>
  \/ surface = "sessions" /\ Auth!Next /\ UNCHANGED <<surface, vars, requestVars>>
  \/ surface = "requests" /\ Sub!Next /\ UNCHANGED <<surface, vars, sessionVars>>

HttpSpec == HttpInit /\ [][HttpNext]_allvars

HttpTypeOK ==
  /\ TypeOK
  /\ surface = "sessions" => Auth!TypeOK
  /\ surface = "requests" => Sub!TypeOK

\* See AdminAuth: a session lets in as long as it lasts, and no longer.
LetInWhileItLasts == [][surface = "sessions" => Auth!LetInWhileItLasts]_allvars

\* See Subscription: an id is found as it was on the panel not long before.
FoundAsOnPanel == [][surface = "requests" => Sub!FoundAsOnPanel]_allvars

\* See Subscription: the status shown tells what the subscriber can use.
StatusTellsUse == [][surface = "requests" => Sub!StatusTellsUse]_allvars

\* See Subscription: what is followed from a page is what it showed.
FollowedAsShown == surface = "requests" => Sub!FollowedAsShown
=============================================================================
