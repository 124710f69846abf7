----------------------------- MODULE PanelSync -----------------------------
(***************************************************************************)
(* The write path from the admin pages to the 3x-ui panel: the handlers of *)
(* internal/admin/handlers_users.go over the users database                *)
(* (internal/users/users.go), the outbox and its Worker (module SyncJobs), *)
(* and the panel's clients as the Worker's requests change them.           *)
(*                                                                         *)
(* A handler is a session: one step per database call, since handlers of   *)
(* several requests and the Worker run concurrently and no transaction     *)
(* spans two calls.  A user's row is abstracted to its username (the       *)
(* panel's key, "email"), its enabled flag and a version that stands for   *)
(* the password, limits, expiry, flow and subscription id: every write of  *)
(* one of those gives the row a version nothing else has.                  *)
(***************************************************************************)
EXTENDS SyncJobs

CONSTANTS
  Sessions,      \* admin requests that can run at the same time
  Emails,        \* usernames
  Inbounds,      \* the panel's inbound ids
  Kinds,         \* the kinds of request the admin makes
  PanelAnswers,  \* how a panel request the panel does not refuse can end
  CanOrphan,     \* whether a client may survive its last detach
  Exclusive,     \* whether requests for one user never overlap
  MaxOps,        \* bound: admin requests, and so row versions
  MaxDbFaults,   \* bound: failing database calls of the handlers
  Unborn, Gone,  \* users rows: id not handed out yet; row deleted
  NoClient       \* the panel has no client of that name

AllKinds == {"update", "switch", "regenerate", "reset", "setInbounds", "delete"}
Ops == {"assign", "update", "unassign", "delete", "reset"}

\* A users row, and the snapshot of it a job carries (payloadFor).
Content == [email : Emails, ver : 1..MaxOps, on : BOOLEAN]

\* What the handlers enqueue: a delete is for the whole client (inbound 0).
JobRows ==
  [user : Users, inbound : Inbounds, op : Ops \ {"delete"}, payload : Content]
    \cup [user : Users, inbound : {0}, op : {"delete"}, payload : Content]

Client == [ver : 1..MaxOps, on : BOOLEAN, inbounds : SUBSET Inbounds]

ASSUME PanelSyncAssumption ==
  /\ Users # {}
  /\ Inbounds \subseteq Nat \ {0}
  /\ Kinds \subseteq AllKinds
  /\ PanelAnswers \subseteq Answer
  /\ CanOrphan \in BOOLEAN
  /\ Exclusive \in BOOLEAN
  /\ MaxOps \in Nat
  /\ MaxDbFaults \in Nat
  /\ Unborn \notin Content /\ Gone \notin Content /\ Unborn # Gone
  /\ NoClient \notin Client
  /\ Rows = JobRows

VARIABLES
  user,       \* users table
  assigned,   \* user_inbounds table: the inbounds of each user
  renamed,    \* history: names a user with inbounds was renamed from or to
  panel,      \* the panel's client of each name
  session,    \* where each admin request is
  ops,        \* history: admin requests made
  dbFaults,   \* history: failing database calls of the handlers
  missed,     \* history: a request ended between its write and its last Enqueue
  lastPush,   \* history: the greatest job id to have taken effect on a name
  overtaken,  \* history: a job took effect after a later one of its name
  orphaned    \* history: names whose client lost its last inbound and stayed,
              \* not updated since

\* The tables, with what happened to the names in them.
db == <<user, assigned, renamed>>
pushHistory == <<lastPush, overtaken, orphaned>>
adminVars == <<user, assigned, renamed, panel, session, ops, dbFaults, missed,
               lastPush, overtaken, orphaned>>
vars == <<jobVars, adminVars>>

Idle == [pc |-> "idle", kind |-> "none", user |-> CHOOSE u \in Users : TRUE,
         seen |-> Unborn, num |-> 0, current |-> {}, todo |-> {}]

Session ==
  [pc : {"idle", "write", "commit", "reread", "list", "enqueue", "remove"},
   kind : Kinds \cup {"none"}, user : Users, seen : Content \cup {Unborn},
   num : 0..MaxOps, current : SUBSET Inbounds, todo : SUBSET Rows]

PanelTypeOK ==
  /\ TypeOK
  /\ user \in [Users -> Content \cup {Unborn, Gone}]
  /\ assigned \in [Users -> SUBSET Inbounds]
  /\ renamed \in SUBSET Emails
  /\ panel \in [Emails -> Client \cup {NoClient}]
  /\ session \in [Sessions -> Session]
  /\ ops \in 0..MaxOps
  /\ dbFaults \in 0..MaxDbFaults
  /\ missed \in BOOLEAN
  /\ lastPush \in [Emails -> 0..MaxJobs]
  /\ overtaken \in BOOLEAN
  /\ orphaned \in SUBSET Emails

PanelInit ==
  /\ Init
  /\ user = [u \in Users |-> Unborn]
  /\ assigned = [u \in Users |-> {}]
  /\ renamed = {}
  /\ panel = [e \in Emails |-> NoClient]
  /\ session = [s \in Sessions |-> Idle]
  /\ ops = 0
  /\ dbFaults = 0
  /\ missed = FALSE
  /\ lastPush = [e \in Emails |-> 0]
  /\ overtaken = FALSE
  /\ orphaned = {}

-----------------------------------------------------------------------------
(* The handlers.                                                           *)

Exists(u) == user[u] \in Content

\* The UNIQUE username of another row.
Taken(e, u) == \E v \in Users \ {u} : Exists(v) /\ user[v].email = e

At(s, pc) == Alive /\ session[s].pc = pc

Finish(s) == session' = [session EXCEPT ![s] = Idle]

\* Requests whose writes are not all enqueued yet.
HalfDone == {s \in Sessions : session[s].pc \in {"reread", "list", "enqueue", "remove"}}

\* A database call of a handler fails; the budget bounds it.
DbFault(s) ==
  /\ dbFaults < MaxDbFaults
  /\ dbFaults' = dbFaults + 1
  /\ missed' = (missed \/ s \in HalfDone)

\* handleUserCreate: one INSERT; nothing to sync, the user has no inbound yet.
CreateUser(u, e) ==
  /\ proc = "up"
  /\ ops < MaxOps
  /\ user[u] = Unborn
  /\ ~Taken(e, u)
  /\ ops' = ops + 1
  /\ user' = [user EXCEPT ![u] = [email |-> e, ver |-> ops + 1, on |-> TRUE]]
  /\ UNCHANGED <<assigned, renamed, session, dbFaults, missed>>

\* A request arrives: the handler Gets the user.  (handleUserRegenerateUUID
\* does not; what is read here for it is never used.)
Begin(s, k, u) ==
  /\ proc = "up"
  /\ session[s].pc = "idle"
  /\ ops < MaxOps
  /\ Exists(u)
  /\ Exclusive => \A t \in Sessions : session[t].pc # "idle" => session[t].user # u
  /\ ops' = ops + 1
  /\ session' = [session EXCEPT ![s] =
       [Idle EXCEPT !.pc = IF k \in {"reset", "delete"} THEN "list" ELSE "write",
                    !.kind = k, !.user = u, !.seen = user[u], !.num = ops + 1]]
  /\ UNCHANGED <<db, dbFaults, missed>>

\* The names at stake on the panel when user u is given the name e.
Renames(u, e) == IF assigned[u] # {} /\ user[u].email # e THEN {user[u].email, e} ELSE {}

\* Store.Update: everything but the credentials and the enabled flag; a name
\* already taken or a deleted row ends the request.
Update(s, e) ==
  LET u == session[s].user IN
  /\ At(s, "write")
  /\ session[s].kind = "update"
  /\ IF Exists(u) /\ ~Taken(e, u)
       THEN /\ user' = [user EXCEPT ![u].email = e, ![u].ver = session[s].num]
            /\ renamed' = renamed \cup Renames(u, e)
            /\ session' = [session EXCEPT ![s].pc = "reread"]
       ELSE Finish(s) /\ UNCHANGED <<user, renamed>>
  /\ UNCHANGED <<assigned, ops, dbFaults, missed>>

\* Store.RegenerateCredentials, its UPDATE.
Regenerate(s) ==
  LET u == session[s].user IN
  /\ At(s, "write")
  /\ session[s].kind = "regenerate"
  /\ IF Exists(u)
       THEN /\ user' = [user EXCEPT ![u].ver = session[s].num]
            /\ session' = [session EXCEPT ![s].pc = "reread"]
       ELSE Finish(s) /\ UNCHANGED user
  /\ UNCHANGED <<assigned, renamed, ops, dbFaults, missed>>

\* Mutant of Seen: the payload is built from the row read before the write.
SeenBefore(s, u) == session[s].seen

Seen(s, u) == user[u]

\* The Get after Update, and the one that ends RegenerateCredentials.
Reread(s) ==
  LET u == session[s].user IN
  /\ At(s, "reread")
  /\ IF Exists(u)
       THEN session' = [session EXCEPT ![s].seen = Seen(s, u), ![s].pc = "list"]
       ELSE Finish(s)
  /\ UNCHANGED <<db, ops, dbFaults, missed>>

\* Store.SetEnabled, from handleUserToggle or the bulk "enable" and "disable";
\* the copy read before gets the new flag too.
Switch(s, on) ==
  LET u == session[s].user IN
  /\ At(s, "write")
  /\ session[s].kind = "switch"
  /\ IF Exists(u)
       THEN /\ user' = [user EXCEPT ![u].on = on]
            /\ session' = [session EXCEPT ![s].seen.on = on, ![s].pc = "list"]
       ELSE Finish(s) /\ UNCHANGED user
  /\ UNCHANGED <<assigned, renamed, ops, dbFaults, missed>>

\* Mutant of Job: an op that dispatch does not know.
JobMisnamed(s, op, i) ==
  [user |-> session[s].user, inbound |-> i, op |-> "up" , payload |-> session[s].seen]

Job(s, op, i) ==
  [user |-> session[s].user, inbound |-> i, op |-> op, payload |-> session[s].seen]

\* What is left to enqueue; a delete then removes the user.
Todo(s, T) ==
  IF T = {} /\ session[s].kind # "delete"
    THEN Finish(s)
    ELSE session' = [session EXCEPT ![s].todo = T,
                       ![s].pc = IF T = {} THEN "remove" ELSE "enqueue"]

\* Mutant of JobsFor: the delete handler tells the panel nothing.
JobsForNoDelete(s, mine) ==
  CASE session[s].kind = "delete" -> {}
    [] session[s].kind = "reset" -> {Job(s, "reset", i) : i \in mine}
    [] OTHER -> {Job(s, "update", i) : i \in mine}

\* One job for every inbound, or one for the whole client.
JobsFor(s, mine) ==
  CASE session[s].kind = "delete" -> IF mine = {} THEN {} ELSE {Job(s, "delete", 0)}
    [] session[s].kind = "reset" -> {Job(s, "reset", i) : i \in mine}
    [] OTHER -> {Job(s, "update", i) : i \in mine}

\* Store.Inbounds, and what is to be enqueued for its result.
List(s) ==
  /\ At(s, "list")
  /\ Todo(s, JobsFor(s, assigned[session[s].user]))
  /\ UNCHANGED <<db, ops, dbFaults, missed>>

\* Store.SetInbounds reads the current assignments before its transaction...
ReadCurrent(s) ==
  /\ At(s, "write")
  /\ session[s].kind = "setInbounds"
  /\ session' = [session EXCEPT ![s].current = assigned[session[s].user], ![s].pc = "commit"]
  /\ UNCHANGED <<db, ops, dbFaults, missed>>

\* ... and applies the difference in it; a row that exists by now, or a user
\* that does not, breaks a constraint and nothing is changed.
SetInbounds(s, desired) ==
  LET u == session[s].user
      added == desired \ session[s].current
      removed == session[s].current \ desired
  IN
  /\ At(s, "commit")
  /\ IF added # {} /\ (~Exists(u) \/ added \cap assigned[u] # {})
       THEN Finish(s) /\ UNCHANGED assigned
       ELSE /\ assigned' = [assigned EXCEPT ![u] = (@ \ removed) \cup added]
            /\ Todo(s, {Job(s, "assign", i) : i \in added}
                         \cup {Job(s, "unassign", i) : i \in removed})
  /\ UNCHANGED <<user, renamed, ops, dbFaults, missed>>

\* Assigns before unassigns, each in the order of the inbounds.
Foremost(s, r) ==
  /\ r \in session[s].todo
  /\ \A q \in session[s].todo :
       \/ r.op = "assign" /\ q.op = "unassign"
       \/ r.op = q.op /\ r.inbound <= q.inbound

\* A failing Enqueue is logged and the handler goes on; the bulk "reset_traffic"
\* and "delete" stop at it.
EnqueueFails(s, r) ==
  /\ At(s, "enqueue")
  /\ Foremost(s, r)
  /\ DbFault(s)
  /\ \/ Todo(s, session[s].todo \ {r})
     \/ session[s].kind \in {"reset", "delete"} /\ Finish(s)
  /\ UNCHANGED <<db, ops>>

\* Store.Delete; the user's assignments go with it (ON DELETE CASCADE).
RemoveUser(s) ==
  /\ At(s, "remove")
  /\ user' = [user EXCEPT ![session[s].user] = Gone]
  /\ assigned' = [assigned EXCEPT ![session[s].user] = {}]
  /\ Finish(s)
  /\ UNCHANGED <<renamed, ops, dbFaults, missed>>

\* Any other call fails: the request ends where it is.
CallFails(s) ==
  /\ Alive
  /\ session[s].pc \in {"write", "commit", "reread", "list", "remove"}
  /\ DbFault(s)
  /\ Finish(s)
  /\ UNCHANGED <<db, ops>>

\* A database call of a request under way that succeeds.
Proceed(s) ==
  \/ \E e \in Emails : Update(s, e)
  \/ Regenerate(s)
  \/ Reread(s)
  \/ \E on \in BOOLEAN : Switch(s, on)
  \/ List(s)
  \/ ReadCurrent(s)
  \/ \E desired \in SUBSET Inbounds : SetInbounds(s, desired)
  \/ RemoveUser(s)

EnqueueNext(s) ==
  \E r \in session[s].todo :
    /\ At(s, "enqueue")
    /\ Foremost(s, r)
    /\ Enqueue(r)
    /\ Todo(s, session[s].todo \ {r})
    /\ UNCHANGED <<db, panel, ops, dbFaults, missed, pushHistory>>

-----------------------------------------------------------------------------
(* The panel.                                                              *)

\* UpdateClient answers "record not found"; detach, delete and reset take
\* that answer for success, and assign looks first (GetClient).
Refuses(r) == r.op = "update" /\ panel[r.payload.email] = NoClient

\* What can become of the client when the panel carries out job r.
After(r) ==
  LET c == panel[r.payload.email]
      rest == c.inbounds \ {r.inbound}
  IN
  CASE r.op = "assign" /\ c = NoClient ->
         {[ver |-> r.payload.ver, on |-> r.payload.on, inbounds |-> {r.inbound}]}
    [] r.op = "assign" /\ c # NoClient -> {[c EXCEPT !.inbounds = @ \cup {r.inbound}]}
    [] r.op = "update" -> {[c EXCEPT !.ver = r.payload.ver, !.on = r.payload.on]}
    [] r.op = "delete" -> {NoClient}
    [] r.op \in {"unassign", "reset"} /\ c = NoClient -> {NoClient}
    [] r.op = "reset" /\ c # NoClient -> {[c EXCEPT !.on = TRUE]}
    [] r.op = "unassign" /\ c # NoClient ->
         IF rest # {} THEN {[c EXCEPT !.inbounds = rest]}
         ELSE {NoClient} \cup (IF CanOrphan THEN {[c EXCEPT !.inbounds = {}]} ELSE {})

\* The orphans once job r has made its client c.
Orphans(r, c) ==
  IF c = NoClient \/ r.op = "update" THEN orphaned \ {r.payload.email}
  ELSE IF c.inbounds = {} THEN orphaned \cup {r.payload.email}
  ELSE orphaned

\* dispatch of a claimed job, with its effect on the panel.
Push(j, answer) ==
  /\ Dispatch(j, answer)
  /\ IF Refuses(row[j])
       THEN answer = "err"
       ELSE answer \in PanelAnswers \cup (IF proc = "stopping" THEN {"err"} ELSE {})
  /\ IF answer = "err"
       THEN UNCHANGED <<panel, pushHistory>>
       ELSE LET e == row[j].payload.email IN
            /\ \E c \in After(row[j]) :
                 /\ panel' = [panel EXCEPT ![e] = c]
                 /\ orphaned' = Orphans(row[j], c)
            /\ overtaken' = (overtaken \/ j < lastPush[e])
            /\ lastPush' = [lastPush EXCEPT ![e] = IF j > @ THEN j ELSE @]
  /\ UNCHANGED <<db, session, ops, dbFaults, missed>>

-----------------------------------------------------------------------------
\* The requests under way end with the process.
DropSessions ==
  /\ session' = [s \in Sessions |-> Idle]
  /\ missed' = (missed \/ HalfDone # {})

Request ==
  /\ \/ \E u \in Users, e \in Emails : CreateUser(u, e)
     \/ \E s \in Sessions, k \in Kinds, u \in Users : Begin(s, k, u)
     \/ \E s \in Sessions : Proceed(s)
     \/ \E s \in Sessions : CallFails(s)
     \/ \E s \in Sessions : \E r \in session[s].todo : EnqueueFails(s, r)
  /\ UNCHANGED <<jobVars, panel, pushHistory>>

PushAny == \E j \in JobId, answer \in Answer : Push(j, answer)

Elsewhere ==
  /\ \/ \E j \in JobId : Retry(j)
     \/ Reap \/ Claim \/ MarkAny \/ Prune
     \/ Shutdown \/ Restart
     \/ \E j \in JobId : TimePasses(j)
  /\ UNCHANGED adminVars

Dies == (Crash \/ Exit) /\ DropSessions /\ UNCHANGED <<db, panel, ops, dbFaults, pushHistory>>

PanelNext ==
  \/ Request
  \/ \E s \in Sessions : EnqueueNext(s)
  \/ PushAny
  \/ Elsewhere
  \/ Dies

PanelSpec == PanelInit /\ [][PanelNext]_vars

\* A request under way goes on, and the service as in SyncJobs; nothing makes
\* the admin start a request.
PanelFairness ==
  /\ \A s \in Sessions : WF_vars((Proceed(s) /\ UNCHANGED <<jobVars, panel, pushHistory>>) \/ EnqueueNext(s))
  /\ WF_vars(PushAny \/ ((Reap \/ Claim \/ MarkAny \/ Prune) /\ UNCHANGED adminVars))
  /\ WF_vars(Exit /\ Dies)
  /\ WF_vars(Restart /\ UNCHANGED adminVars)
  /\ \A j \in JobId : WF_vars(TimePasses(j) /\ UNCHANGED adminVars)

PanelFairSpec == PanelSpec /\ PanelFairness

-----------------------------------------------------------------------------
(* What the panel should hold, and when it can be compared.                *)

\* The client a name should have: that of the user it belongs to, on the
\* inbounds assigned to the user, and none without an assignment.
Wanted(e) ==
  LET owners == {u \in Users : Exists(u) /\ user[u].email = e /\ assigned[u] # {}} IN
  IF owners = {} THEN NoClient
  ELSE LET u == CHOOSE u \in owners : TRUE
       IN  [ver |-> user[u].ver, on |-> user[u].on, inbounds |-> assigned[u]]

InSync == panel = [e \in Emails |-> Wanted(e)]

\* No request under way and no job waiting or being worked on.
Quiet ==
  /\ \A s \in Sessions : session[s].pc = "idle"
  /\ \A j \in 1..lastId : status[j] \notin Unsettled
  /\ DOMAIN batch = {}

Successful == \A j \in 1..lastId : status[j] \in {"success", "absent"}

\* Some reset that took effect on the client named e.
WasReset(e) ==
  \E j \in 1..lastId : row[j].op = "reset" /\ row[j].payload.email = e /\ pushes[j] > 0

-----------------------------------------------------------------------------
(* Safety.                                                                 *)

\* The outbox does its work.  When the service has come to rest after any
\* requests that did not overlap on one user, and every job is a success, the
\* panel holds exactly the users with an assignment, each with its latest content
\* on its inbounds.  Failing and repeated pushes, lost answers and crashes do not
\* change that: only a job overtaken by a later one of its name, or a request cut
\* short between its write and its last Enqueue, can leave the two apart.  And a
\* traffic reset leaves the client enabled (client.go, ResetClientTraffic: "and
\* re-enables it"), and a client that survived its last detach (the comment of
\* handleUserDelete) keeps old content, though never an inbound, until an update.
\* Of a user renamed with inbounds the panel is only told the new name: if a
\* client of that name has survived its last detach, the job is a success, the
\* client has no inbound and the old one stays.
RestsInSync ==
  Quiet /\ Successful /\ ~missed /\ ~overtaken =>
    \A e \in Emails \ renamed :
      \/ panel[e] = Wanted(e)
      \/ Wanted(e) # NoClient /\ WasReset(e) /\ panel[e] = [Wanted(e) EXCEPT !.on = TRUE]
      \/ e \in orphaned /\ panel[e].inbounds = IF Wanted(e) = NoClient THEN {} ELSE Wanted(e).inbounds

(* Liveness.                                                               *)

\* After the admin's last request everything settles, and the panel comes to
\* agree with the database and stays so (ARCHITECTURE.md, Write path, steps 2 and
\* 3), through crashes and shutdowns, with the exceptions of RestsInSync.
ComesInSync == <>[](Quiet /\ (missed \/ overtaken \/ ~Successful \/ InSync))

-----------------------------------------------------------------------------
(* Stated by the documentation or the comments, refuted by the code.       *)

\* CONFIGURATION.md, Users: "Every change is pushed out to the connected 3x-ui
\* panel automatically"; so with every job a success and nothing under way the
\* panel agrees with the database.
EveryChangeArrives == Quiet /\ Successful => InSync

\* ARCHITECTURE.md, internal/sync: "a job survives a later edit or even deletion
\* of the user it was for"; sync.go: it "still completes correctly".  A user
\* that is gone has no client once every job is a success.
DeletedStaysDeleted ==
  Quiet /\ Successful =>
    \A e \in Emails :
      panel[e] # NoClient => \E u \in Users : Exists(u) /\ user[u].email = e

\* CONFIGURATION.md, Users: "Every change is pushed out"; the panel is healthy
\* and the service undisturbed, so no push ends in failure.
HealthyNeverFails ==
  faults = 0 => \A j \in 1..lastId : status[j] # "failed"

\* ARCHITECTURE.md, Write path: "any missed enqueue is always visible and
\* manually retriable from /admin/sync".
MissedEnqueueVisible ==
  Quiet /\ ~InSync => \E j \in 1..lastId : status[j] = "failed"
=============================================================================
