---------------------------- MODULE Subscription ----------------------------
(***************************************************************************)
(* A subscriber's requests: internal/httpserver (handlers.go,              *)
(* negotiate.go, view.go), internal/resolver/resolver.go, the matching in  *)
(* internal/xui/parse.go and internal/connlink/connlink.go, against a      *)
(* panel that changes between the calls of one request and between a page  *)
(* and the links followed from it.                                         *)
(*                                                                         *)
(* One subscription id is asked for.  The inbound list comes through the   *)
(* cache, where a list is dated when the fetch that read it has returned;  *)
(* one fetch is under way at a time, which everybody who needs one waits   *)
(* for (the goroutines in it are in TtlCache).  The id's share links are   *)
(* fetched anew each time.  A share link is a model value; what a format's *)
(* templates make of it is left out.                                       *)
(***************************************************************************)
EXTENDS Naturals, Sequences, SequencesExt

CONSTANTS
  Lists,    \* the client lists the panel may have
  Links,    \* the lists of share links it may render for the id
  Parsable, \* the share links ParseShareLink understands
  Agents,   \* User-Agent headers, as the sets of known tokens in them
  Asked,    \* the routes that are asked for by path
  CacheTTL,
  FetchTime,\* the longest a fetch of the list can take, with its retries
  MaxTime,  \* bound on the clock
  None

\* A client's own limits, or where these are zero its traffic row's; served
\* if its inbound is enabled and of a protocol with clients.
Client == [mine : BOOLEAN, served : BOOLEAN, enable : BOOLEAN,
           used : Nat, total : Nat, expiry : Nat]

SubscriptionAssumption ==
  /\ \A l \in Lists : l.decodes \in BOOLEAN /\ l.clients \in Seq(Client)
  /\ \A l \in Links : l \in Seq(Range(l))
  /\ CacheTTL \in Nat /\ FetchTime \in Nat /\ MaxTime \in Nat
  /\ None \notin Nat \cup Lists

VARIABLES
  now,
  panel,   \* the list the panel has now, and the links it would render
  there,   \* since when the id has been on the panel, or been off it
  cached,  \* the inbound list in the cache, or the error
  fetch,   \* the fetch of the list under way: since when, and what it has read
  request, \* the request under way
  page     \* the links of the page that is open, and what it offered for each

vars == <<now, panel, there, cached, fetch, request, page>>

-----------------------------------------------------------------------------
(* Pure parts.                                                             *)

Matches(client) == client.served /\ client.mine

\* MatchedClientsBySubID
Matched(list) == SelectSeq(list.clients, Matches)

\* Mutant of OnPanel: clients of any subscriber will do.
OnPanelAny(list) == list.clients # <<>>

OnPanel(list) == Matched(list) # <<>>

\* Mutant of Used: of the last client.
UsedLast(clients) == clients[Len(clients)].used

\* Resolve: the folds over the matches.
Used(clients) == FoldLeft(LAMBDA sum, c : sum + c.used, 0, clients)
Total(clients) ==
  FoldLeft(LAMBDA most, c : IF c.total > most THEN c.total ELSE most, 0, clients)
Expiry(clients) ==
  FoldLeft(LAMBDA first, c :
             IF c.expiry > 0 /\ (first = 0 \/ c.expiry < first) THEN c.expiry ELSE first,
           0, clients)

\* computeStatus
Status(clients) ==
  IF ~\E i \in DOMAIN clients : clients[i].enable THEN "disabled"
  ELSE IF Expiry(clients) > 0 /\ Expiry(clients) < now THEN "expired"
  ELSE IF Total(clients) > 0 /\ Used(clients) >= Total(clients) THEN "depleted"
  ELSE "active"

\* detectFormat: the first that applies.
DetectFormat(tokens) ==
  IF tokens \cap {"mihomo", "clash-meta"} # {} THEN "mihomo"
  ELSE IF tokens \cap {"clash", "stash"} # {} THEN "clash"
  ELSE IF "incy" \in tokens THEN "incy by agent"
  ELSE IF "mozilla" \in tokens THEN "page"
  ELSE "links"

\* connlink.Build: an entry's index counts from 0, and its config is offered
\* if it parses.
Offer(index, link) == [index |-> index, link |-> link, config |-> link \in Parsable]

\* Mutant of Offers: of the links that parse.
OffersParsed(links) ==
  LET parsed == SelectSeq(links, LAMBDA l : l \in Parsable)
  IN  [i \in DOMAIN parsed |-> Offer(i - 1, parsed[i])]

Offers(links) == [i \in DOMAIN links |-> Offer(i - 1, links[i])]

-----------------------------------------------------------------------------

\* The routes below /sub/{subID} and /api/v1/subscription/{subID}.  A format
\* named in the path and one found from the agent share all but the headers.
\* The id is one validSubID accepts, the index a number.
Formats == {"xray_json", "clash", "mihomo", "happ", "incy", "incy by agent"}
LinkRoutes == {"link", "link qr", "config"}
NamedRoutes == (Formats \ {"incy by agent"}) \cup {"links", "qr", "api"}
Routes == Formats \cup NamedRoutes \cup LinkRoutes \cup {"page"}

\* writeRoutingHeaders is called for these.
WithRouting == {"happ", "incy", "links"}

\* The page and the API's answer show the status.
ShowStatus == {"page", "api"}

\* The call a request makes next: the cached list, which may have to be waited
\* for, the hosts, the share links, the routing profile, the assignment, the
\* generator, the catalog, the theme, the QR encoder.
At == {"list", "wait", "hosts", "links", "routing", "profile", "build", "apps", "theme", "qr", "answered"}

Codes == {200, 404, 422, 500, 502}

Request(route, index) ==
  [route |-> route, index |-> index, at |-> "list", began |-> now,
   listed |-> None, matched |-> <<>>,
   links |-> <<>>, status |-> None, code |-> None, body |-> None]

TypeOK ==
  /\ now \in 0..MaxTime
  /\ panel \in [list : Lists, links : Links]
  /\ there.since \in 0..MaxTime /\ there.is = OnPanel(panel.list)
  /\ cached # None =>
       /\ cached.at \in 0..now
       /\ cached.list \in Lists \cup {None}
  /\ fetch # None =>
       /\ fetch.began \in 0..now /\ now <= fetch.began + FetchTime
       /\ fetch.list \in Lists \cup {None}
  /\ page # None => page.links \in Links \cup {<<>>}
  /\ request # None =>
       /\ request.route \in Routes /\ request.at \in At
       /\ request.code \in Codes \cup {None}
       /\ request.code # None <=> request.at = "answered"
       /\ request.at = "hosts" <=> request.listed # None
       /\ request.at = "links" <=> request.matched # <<>>

Init ==
  /\ now = 0
  /\ panel \in [list : Lists, links : Links]
  /\ there = [is |-> OnPanel(panel.list), since |-> 0]
  /\ cached = None /\ fetch = None /\ request = None /\ page = None

-----------------------------------------------------------------------------
(* The surroundings.                                                       *)

\* The Worker, the panel's traffic counters or its own admin change it.
PanelChanges ==
  /\ \/ \E list \in Lists \ {panel.list} : panel' = [panel EXCEPT !.list = list]
     \/ \E links \in Links \ {panel.links} : panel' = [panel EXCEPT !.links = links]
  /\ there' = IF OnPanel(panel'.list) = there.is THEN there
              ELSE [is |-> ~there.is, since |-> now]
  /\ UNCHANGED <<now, cached, fetch, request, page>>

\* The Worker after a push; a fetch under way is not stopped.
Invalidate ==
  /\ cached # None /\ cached' = None
  /\ UNCHANGED <<now, panel, there, fetch, request, page>>

Tick ==
  /\ fetch # None => now < fetch.began + FetchTime
  /\ now < MaxTime /\ now' = now + 1
  /\ UNCHANGED <<panel, there, cached, fetch, request, page>>

-----------------------------------------------------------------------------
(* The cached list.                                                        *)

\* Mutant of Fresh: one tick longer.
FreshLonger == cached # None /\ now <= cached.at + CacheTTL

\* ttlCache.get's test.
Fresh == cached # None /\ now < cached.at + CacheTTL

Fetching == [began |-> now, read |-> FALSE, list |-> None]

\* Another subscriber or an admin page asks for the list.
OthersFetch ==
  /\ fetch = None /\ ~Fresh
  /\ fetch' = Fetching
  /\ UNCHANGED <<now, panel, there, cached, request, page>>

PanelReads ==
  /\ fetch # None /\ ~fetch.read
  /\ fetch' = [fetch EXCEPT !.read = TRUE, !.list = panel.list]
  /\ UNCHANGED <<now, panel, there, cached, request, page>>

-----------------------------------------------------------------------------
(* The request.                                                            *)

Begin(route, index) ==
  /\ request = None
  /\ request' = Request(route, index)
  /\ UNCHANGED <<now, panel, there, cached, fetch>>

\* GET /sub/{subID}
BeginNegotiated == page' = None /\ \E agent \in Agents : Begin(DetectFormat(agent), 0)

BeginNamed == page' = None /\ \E route \in Asked \cap NamedRoutes : Begin(route, 0)

\* A link or a config of the page is followed.
FollowLink ==
  /\ page # None
  /\ \E i \in DOMAIN page.offers :
       \E route \in Asked \cap LinkRoutes :
         /\ route = "config" => page.offers[i].config
         /\ Begin(route, page.offers[i].index)
  /\ UNCHANGED page

Answer(code, body) ==
  request' = [request EXCEPT !.at = "answered", !.code = code, !.body = body, !.matched = <<>>, !.began = None, !.status = None]

Goto(at) == request' = [request EXCEPT !.at = at]

\* The request has the list, or the error.
Listed(list) ==
  IF list = None THEN Answer(502, None)
  ELSE request' = [request EXCEPT !.at = "hosts", !.listed = list]

\* Resolve: ListInbounds from the cache, or a fetch to wait for.
ListInbounds ==
  /\ request # None /\ request.at = "list"
  /\ IF Fresh THEN Listed(cached.list) /\ UNCHANGED fetch
     ELSE Goto("wait") /\ fetch' = IF fetch = None THEN Fetching ELSE fetch
  /\ UNCHANGED <<now, panel, there, cached, page>>

\* The fetch returns what the panel read, or fails; its outcome is stored with
\* the time it is then.
FetchReturns ==
  /\ fetch # None
  /\ \E list \in {None} \cup (IF fetch.read THEN {fetch.list} ELSE {}) :
       /\ cached' = [list |-> list, at |-> now]
       /\ IF request # None /\ request.at = "wait" THEN Listed(list) ELSE UNCHANGED request
  /\ fetch' = None
  /\ UNCHANGED <<now, panel, there, page>>

\* ListHosts, which may fail and changes nothing an answer shows, and the
\* matching; a list that does not decode fails everybody.
ListHosts ==
  /\ request # None /\ request.at = "hosts"
  /\ LET list == request.listed
     IN  request' =
           IF ~list.decodes \/ ~OnPanel(list)
             THEN [request EXCEPT !.at = "answered", !.began = None, !.listed = None,
                                  !.code = IF list.decodes THEN 404 ELSE 502]
             ELSE [request EXCEPT !.at = "links", !.began = None, !.listed = None, !.matched = Matched(list)]
  /\ UNCHANGED <<now, panel, there, cached, fetch, page>>

InRange(index, links) == index < Len(links)

\* findLink, and handleLinkConfig's ParseShareLink.
FindLink(index, links) ==
  IF request.route \notin LinkRoutes THEN 200
  ELSE IF ~InRange(index, links) THEN 404
  ELSE IF request.route = "config" /\ links[index + 1] \notin Parsable THEN 422
  ELSE 200

\* What the handler does with the subscription it resolved.
AfterResolve(code) ==
  IF code # 200 THEN "answered"
  ELSE IF request.route \in WithRouting THEN "routing"
  ELSE IF request.route \in Formats \cup {"config"} THEN "profile"
  ELSE IF request.route = "page" THEN "apps"
  ELSE IF request.route \in {"qr", "link qr"} THEN "qr"
  ELSE "answered"

\* The rest of Resolve, of which is kept what the answer shows; what a format's
\* config is made of is left out.  For an id it does not have the panel renders
\* no links.
GetSubLinks ==
  /\ request # None /\ request.at = "links"
  /\ \/ Answer(502, None)
     \/ LET links == IF there.is THEN panel.links ELSE <<>>
            code  == FindLink(request.index, links)
            at    == AfterResolve(code)
        IN  request' = [request EXCEPT
              !.matched = <<>>, !.at = at,
              !.links = IF request.route \in Formats THEN <<>> ELSE links,
              !.status = IF request.route \in ShowStatus THEN Status(request.matched) ELSE None,
              !.code = IF at = "answered" THEN code ELSE None,
              !.body = IF request.route \in LinkRoutes /\ code = 200
                       THEN links[request.index + 1] ELSE None]
  /\ UNCHANGED <<now, panel, there, cached, fetch, page>>

\* writeRoutingHeaders; a failure only leaves the headers out.
GetRouting ==
  /\ request # None /\ request.at = "routing"
  /\ IF request.route = "links" THEN Answer(200, request.links) ELSE Goto("profile")
  /\ UNCHANGED <<now, panel, there, cached, fetch, page>>

\* resolveProfile, the generator, the catalog: on to the next, or a 500.
ResolveProfile ==
  /\ request # None /\ request.at = "profile"
  /\ Goto("build") \/ Answer(500, None)
  /\ UNCHANGED <<now, panel, there, cached, fetch, page>>

\* parsedContexts and Build, which leave out the links that do not parse; what
\* is kept here is the link a config is built from.
BuildConfig ==
  /\ request # None /\ request.at = "build"
  /\ Answer(200, request.body) \/ Answer(500, None)
  /\ UNCHANGED <<now, panel, there, cached, fetch, page>>

ListApps ==
  /\ request # None /\ request.at = "apps"
  /\ Goto("theme") \/ Answer(500, None)
  /\ UNCHANGED <<now, panel, there, cached, fetch, page>>

RenderTheme ==
  /\ request # None /\ request.at = "theme"
  /\ Answer(200, Offers(request.links)) \/ Answer(500, None)
  /\ UNCHANGED <<now, panel, there, cached, fetch, page>>

EncodeQR ==
  /\ request # None /\ request.at = "qr"
  /\ Answer(200, request.body) \/ Answer(500, None)
  /\ UNCHANGED <<now, panel, there, cached, fetch, page>>

\* The subscriber has the answer; a page stays open until something else than
\* its links is asked for.
Received ==
  /\ request # None /\ request.at = "answered"
  /\ page' = IF request.route = "page" /\ request.code = 200
             THEN [links |-> request.links, offers |-> request.body] ELSE page
  /\ request' = None
  /\ UNCHANGED <<now, panel, there, cached, fetch>>

Next ==
  \/ PanelChanges \/ Invalidate \/ Tick
  \/ OthersFetch \/ PanelReads \/ FetchReturns
  \/ BeginNegotiated \/ BeginNamed \/ FollowLink
  \/ ListInbounds \/ ListHosts \/ GetSubLinks \/ GetRouting \/ ResolveProfile \/ BuildConfig
  \/ ListApps \/ RenderTheme \/ EncodeQR \/ Received

Spec == Init /\ [][Next]_vars

-----------------------------------------------------------------------------

\* The id had been there, or gone, for so long when the request began that every
\* list the request can be given shows it.
Settled == there.since + FetchTime < request.began /\ there.since + FetchTime + CacheTTL <= request.began

\* An id is found, or not, as it was on the panel at a moment after the request
\* began or no longer before than a list is cached and was fetched for: one
\* gone for longer is never served, one there for longer never answered with
\* 404, even if an Invalidate came while the list was fetched (Resolve, get).
FoundAsOnPanel ==
  (request # None /\ request.at = "hosts" /\ request'.at # request.at /\ Settled) =>
    /\ request'.at = "links" => there.is
    /\ request'.code = 404 => ~there.is

Usable(client) ==
  /\ client.enable
  /\ client.expiry = 0 \/ client.expiry >= now
  /\ client.total = 0 \/ client.used < client.total

\* What the panel holds of a user managed here: the same limits everywhere.
Uniform(clients) ==
  \A i, j \in DOMAIN clients :
    /\ clients[i].enable = clients[j].enable /\ clients[i].total = clients[j].total
    /\ clients[i].expiry = clients[j].expiry

\* A subscriber shown as active can use every client the list has for it, and
\* one shown as disabled or expired none (Resolve's sums, maxima and minima,
\* computeStatus).
StatusTellsUse ==
  (request # None /\ request' # None /\ request'.status # request.status
     /\ Uniform(request.matched)) =>
    \A i \in DOMAIN request.matched :
      /\ request'.status = "active" => Usable(request.matched[i])
      /\ request'.status \in {"disabled", "expired"} => ~Usable(request.matched[i])

\* A link's answer, and the panel rendered what it had rendered for the page.
FollowedUnchanged ==
  /\ request # None
  /\ request.route \in LinkRoutes /\ request.at = "answered"
  /\ request.code \notin {500, 502} /\ request.links = page.links

\* As long as the panel renders the links it rendered for the page, what is
\* followed from the page is the link it showed, and a config it offered
\* exists (connlink.Build, findLink, handleLinkConfig).
FollowedAsShown ==
  FollowedUnchanged =>
    /\ request.code = 200
    /\ \E i \in DOMAIN page.offers :
         page.offers[i].index = request.index /\ page.offers[i].link = request.body
=============================================================================
