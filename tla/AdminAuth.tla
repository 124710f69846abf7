------------------------------ MODULE AdminAuth ------------------------------
(***************************************************************************)
(* Sessions of the admin panel: internal/adminauth/adminauth.go and, in    *)
(* internal/admin, middleware.go and handlers_auth.go, with the tabs of    *)
(* one admin's browser, which share a cookie and answer each other's       *)
(* requests in any order.                                                  *)
(*                                                                         *)
(* A session is identified with its id and its CSRF token, both random.    *)
(* Time is in parts of a second, Second of them; sessions.expires_at is    *)
(* truncated to whole ones.  The look-ups are taken not to fail.           *)
(***************************************************************************)
EXTENDS Naturals

CONSTANTS
  Ids,       \* sessions that may be issued
  Tabs,
  SessionTTL,
  Second,
  MaxTime,   \* bound on the clock
  None

AdminAuthAssumption ==
  /\ SessionTTL \in Nat /\ MaxTime \in Nat /\ Second \in Nat \ {0}
  /\ None \notin Ids /\ None \notin Nat /\ "keep" \notin Ids \cup {None}

VARIABLES
  now,
  sessions,  \* the table: the expiry of each session there
  born,      \* when each session was issued
  ended,     \* the sessions whose deletion on request has committed
  cookie,    \* admin_session in the browser
  tab        \* per tab its request, its answer, and the page it shows

vars == <<now, sessions, born, ended, cookie, tab>>

Time == 0..(MaxTime + SessionTTL)
Kind == {"loginForm", "login", "page", "save", "logout"}

\* Where a request is: at the login routes, in requireSession, on its way to
\* delete an expired session, behind the middlewares, or answered.
At == {"idle", "entered", "expired", "inside", "answered"}
Answer == {"redirect", "form", "done", "forbidden"}

\* page is the session whose token the forms of the tab carry, sets the value
\* of the Set-Cookie header if any, stale whether the cookie's session had
\* been ended on request when the request was sent.
Tab == [at : At, kind : Kind, cookie : Ids \cup {None}, page : Ids \cup {None},
        sets : Ids \cup {None, "keep"}, answer : Answer, stale : BOOLEAN]
Closed == [at |-> "idle", kind |-> "page", cookie |-> None, page |-> None,
           sets |-> "keep", answer |-> "form", stale |-> FALSE]

TypeOK ==
  /\ now \in 0..MaxTime
  /\ sessions \in [Ids -> Time \cup {None}]
  /\ born \in [Ids -> 0..MaxTime \cup {None}]
  /\ ended \in SUBSET Ids
  /\ cookie \in Ids \cup {None}
  /\ tab \in [Tabs -> Tab]

Init ==
  /\ now = 0
  /\ sessions = [i \in Ids |-> None]
  /\ born = [i \in Ids |-> None]
  /\ ended = {}
  /\ cookie = None
  /\ tab = [t \in Tabs |-> Closed]

-----------------------------------------------------------------------------
(* adminauth.go.                                                           *)

\* Mutant of ExpiresAt: rounded up.
ExpiresAtCeiling(t) == ((t + SessionTTL + Second - 1) \div Second) * Second

\* time.Unix(expiresAt.Unix(), 0)
ExpiresAt(t) == ((t + SessionTTL) \div Second) * Second

\* CreateSession
CreateSession(id) ==
  /\ born[id] = None
  /\ sessions' = [sessions EXCEPT ![id] = ExpiresAt(now)]
  /\ born' = [born EXCEPT ![id] = now]

\* DeleteSession: the table after it.
Without(id) == [sessions EXCEPT ![id] = None]

\* GetSession: there, and its ExpiresAt not Before(time.Now()).
Present(id) == id # None /\ sessions[id] # None
Valid(id) == Present(id) /\ ~(sessions[id] < now)

-----------------------------------------------------------------------------
(* The browser.                                                            *)

\* A request takes the cookie along; a form is sent from a page that has it.
Send(t, kind) ==
  /\ tab[t].at = "idle"
  /\ kind \in {"save", "logout"} => tab[t].page # None
  /\ tab' = [tab EXCEPT ![t] = [@ EXCEPT !.at = "entered", !.kind = kind,
               !.cookie = cookie, !.sets = "keep", !.stale = cookie \in ended]]
  /\ UNCHANGED <<now, sessions, born, ended, cookie>>

\* The answer arrives: its cookie is kept, its page shown.
Receive(t) ==
  /\ tab[t].at = "answered"
  /\ cookie' = IF tab[t].sets = "keep" THEN cookie ELSE tab[t].sets
  /\ tab' = [tab EXCEPT ![t] = [Closed EXCEPT !.page = tab[t].page]]
  /\ UNCHANGED <<now, sessions, born, ended>>

\* The cookie's own Expires.
CookieExpires ==
  /\ cookie # None
  /\ now > ExpiresAt(born[cookie])
  /\ cookie' = None
  /\ UNCHANGED <<now, sessions, born, ended, tab>>

-----------------------------------------------------------------------------
(* The server.                                                             *)

\* The request is answered with nothing for the browser to keep, or with a
\* cookie, or with a page.
Respond(t, answer) ==
  tab' = [tab EXCEPT ![t] = [Closed EXCEPT !.at = "answered", !.answer = answer,
                                           !.page = tab[t].page]]
SetCookie(t, id) ==
  tab' = [tab EXCEPT ![t] = [Closed EXCEPT !.at = "answered", !.answer = "redirect",
                                           !.page = tab[t].page, !.sets = id]]
RenderPage(t, id) ==
  tab' = [tab EXCEPT ![t] = [Closed EXCEPT !.at = "answered", !.answer = "done", !.page = id]]

\* GetSession for the login form and for requireSession: an expired session
\* is deleted by a second statement.
Look(t) ==
  /\ tab[t].at = "entered"
  /\ tab[t].kind # "login"
  /\ LET id == tab[t].cookie
         form == tab[t].kind = "loginForm"
     IN  \/ /\ Valid(id)
            /\ IF form THEN Respond(t, "redirect")
                       ELSE tab' = [tab EXCEPT ![t].at = "inside"]
         \/ /\ Present(id) /\ ~Valid(id)
            /\ tab' = [tab EXCEPT ![t].at = "expired"]
         \/ /\ ~Present(id)
            /\ Respond(t, IF form THEN "form" ELSE "redirect")
  /\ UNCHANGED <<now, sessions, born, ended, cookie>>

\* GetSession's DeleteSession, whose error is ignored.
DropExpired(t) ==
  /\ tab[t].at = "expired"
  /\ sessions' \in {Without(tab[t].cookie), sessions}
  /\ Respond(t, IF tab[t].kind = "loginForm" THEN "form" ELSE "redirect")
  /\ UNCHANGED <<now, born, ended, cookie>>

\* handleLoginSubmit with a wrong password, and with the right one.
LoginFails(t) ==
  /\ tab[t].at = "entered" /\ tab[t].kind = "login"
  /\ Respond(t, "form")
  /\ UNCHANGED <<now, sessions, born, ended, cookie>>

Login(t, id) ==
  /\ tab[t].at = "entered" /\ tab[t].kind = "login"
  /\ CreateSession(id)
  /\ SetCookie(t, id)
  /\ UNCHANGED <<now, ended, cookie>>

\* A handler of a GET route: its page has the token of the request's session.
Show(t) ==
  /\ tab[t].at = "inside" /\ tab[t].kind = "page"
  /\ RenderPage(t, tab[t].cookie)
  /\ UNCHANGED <<now, sessions, born, ended, cookie>>

\* verifyCSRF
TokenMatches(t) == tab[t].page = tab[t].cookie

Forbid(t) ==
  /\ tab[t].at = "inside" /\ tab[t].kind \in {"save", "logout"}
  /\ ~TokenMatches(t)
  /\ Respond(t, "forbidden")
  /\ UNCHANGED <<now, sessions, born, ended, cookie>>

\* A handler of a POST route, and handleLogout, which ignores an error of
\* DeleteSession.
Save(t) ==
  /\ tab[t].at = "inside" /\ tab[t].kind = "save"
  /\ TokenMatches(t)
  /\ Respond(t, "done")
  /\ UNCHANGED <<now, sessions, born, ended, cookie>>

Logout(t) ==
  /\ tab[t].at = "inside" /\ tab[t].kind = "logout"
  /\ TokenMatches(t)
  /\ \/ /\ sessions' = Without(tab[t].cookie)
        /\ ended' = ended \cup {tab[t].cookie}
     \/ UNCHANGED <<sessions, ended>>
  /\ SetCookie(t, None)
  /\ UNCHANGED <<now, born, cookie>>

Tick ==
  /\ now < MaxTime
  /\ now' = now + 1
  /\ UNCHANGED <<sessions, born, ended, cookie, tab>>

Next ==
  \/ \E t \in Tabs, kind \in Kind : Send(t, kind)
  \/ \E t \in Tabs : Receive(t) \/ Look(t) \/ DropExpired(t) \/ LoginFails(t)
                       \/ Show(t) \/ Forbid(t) \/ Save(t) \/ Logout(t)
  \/ \E t \in Tabs, id \in Ids : Login(t, id)
  \/ CookieExpires
  \/ Tick

Spec == Init /\ [][Next]_vars

-----------------------------------------------------------------------------

LetIn(t) == tab[t].at = "entered" /\ tab'[t].at = "inside"
TurnedAway(t) ==
  /\ tab[t].at = "entered" /\ tab'[t].at \in {"expired", "answered"}
  /\ tab[t].kind \in {"page", "save", "logout"}

\* A request is let in if and, but for the rounding of its expiry, only if its
\* session is SessionTTL old at most and no logout of its own ended it; a
\* logout counts from its completion on, and no other session's logout or
\* expiry does (requireSession, GetSession, DeleteSession).
LetInWhileItLasts ==
  \A t \in Tabs :
    LET id == tab[t].cookie
    IN  /\ LetIn(t) => ~tab[t].stale /\ now <= born[id] + SessionTTL
        /\ TurnedAway(t) =>
             id = None \/ id \in ended \/ now > born[id] + SessionTTL - Second
=============================================================================
