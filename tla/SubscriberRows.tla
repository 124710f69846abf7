--------------------------- MODULE SubscriberRows ---------------------------
(***************************************************************************)
(* What a subscriber is served besides the panel's links: a template       *)
(* profile per client type (table template_assignments,                    *)
(* internal/assignment) and a routing string (table user_routing,          *)
(* internal/routing), both keyed by subscription id.  The user handlers of *)
(* internal/admin/handlers_users.go write them in calls of their own after *)
(* the write to the users table, and a subscription id can change hands.   *)
(* Every run of the binary first migrates both tables from an older shape: *)
(* the service at its start, and -import and -create-admin, which are run  *)
(* beside the service (main.go:72-79).                                     *)
(*                                                                         *)
(* Of a users row only the subscription id is kept; the handlers' calls to *)
(* the outbox are in PanelSync.  The handlers write the toggle "enabled"   *)
(* together with the routing string and the migration leaves it alone, so  *)
(* the toggle is left out.  Every old config decodes.                      *)
(***************************************************************************)
EXTENDS Naturals, Sequences

CONSTANTS
  Users,         \* values of users.id
  SubIds,        \* subscription ids
  ClientTypes,   \* assignment.ClientTypes, in their order
  Profiles,      \* template profiles
  Default,       \* assignment.DefaultProfile
  Codes,         \* routing strings (routing_b64)
  Configs,       \* routing profiles of the old version, as JSON (config)
  Encode,        \* Profile.Encode: the routing string of a profile
  Blank,         \* the empty routing string, and a config of '' or '{}'
  Forms,         \* what the admins pick on the user form
  Service,       \* the service's process
  Commands,      \* runs of the binary with -import or -create-admin
  Sessions,      \* admin requests that can run at the same time
  NoRow,         \* a table has no row of that key; a request has no such id
  Unborn, Gone,  \* users: id not handed out yet; row deleted
  Anything,      \* nobody expects anything of a subscription id
  MaxOps,        \* bound: admin requests
  MaxFaults      \* bound: crashes and failing database calls

Procs == Commands \cup {Service}
Types == {ClientTypes[i] : i \in 1..Len(ClientTypes)}
Code == Codes \cup {Blank}
Config == Configs \cup {Blank}

\* What the admin picks for a subscriber on the user form.
Choice == [profile : [Types -> Profiles], code : Code]

ASSUME SubscriberRowsAssumption ==
  /\ ClientTypes \in Seq(STRING)
  /\ \A i, k \in 1..Len(ClientTypes) : ClientTypes[i] = ClientTypes[k] => i = k
  /\ Default \in Profiles
  /\ Encode \in [Configs -> Codes]
  /\ Blank \notin Codes \cup Configs
  /\ NoRow \notin Profiles
  /\ NoRow \notin [b64 : Code, config : Config]
  /\ Unborn \notin SubIds /\ Gone \notin SubIds /\ Unborn # Gone
  /\ Anything \notin Choice
  /\ Forms \subseteq Choice
  /\ Service \notin Commands
  /\ MaxOps \in Nat
  /\ MaxFaults \in Nat

VARIABLES
  subOf,      \* users.sub_id
  templates,  \* template_assignments: profile of (subscription id, client type)
  routing,    \* user_routing: routing_b64 and the legacy column config
  legacy,     \* the legacy table "assignments": one profile per subscription id;
              \* without a row it counts as dropped
  proc,       \* each process: "down", where it is in the migrations, or "up"
  todo,       \* routing.MigrateLegacy's pending: the config of each listed row
  session,    \* where each admin request is
  ops,        \* history: admin requests made
  faults,     \* history: crashes and failing database calls
  saved,      \* history: what the admin last saved for a subscription id
  damaged     \* history: ids whose rows something else has written or removed
              \* since their last save began, or whose save was cut short

tables == <<templates, routing, legacy>>
history == <<saved, damaged>>
vars == <<subOf, templates, routing, legacy, proc, todo, session, ops, faults, saved, damaged>>

Unset == [t \in Types |-> NoRow]
NothingTodo == [a \in SubIds |-> Blank]
Idle == [pc |-> "idle", kind |-> "none", user |-> NoRow, old |-> NoRow, new |-> NoRow,
         choice |-> Anything, next |-> 1]

\* A request: the call it is about to make, the ids it works for, the form.
Request ==
  [pc : {"idle", "write", "drop", "dropRouting", "types", "routing", "remove"},
   kind : {"none", "save", "delete"}, user : Users \cup {NoRow},
   old : SubIds \cup {NoRow}, new : SubIds \cup {NoRow},
   choice : Choice \cup {Anything}, next : 1..(Len(ClientTypes) + 1)]

Exists(u) == subOf[u] \in SubIds
Owned(a) == \E u \in Users : subOf[u] = a

TypeOK ==
  /\ subOf \in [Users -> SubIds \cup {Unborn, Gone}]
  /\ templates \in [SubIds -> [Types -> Profiles \cup {NoRow}]]
  /\ routing \in [SubIds -> [b64 : Code, config : Config] \cup {NoRow}]
  /\ legacy \in [SubIds -> Profiles \cup {NoRow}]
  /\ proc \in [Procs -> {"down", "migrating", "listing", "filling", "up"}]
  /\ todo \in [Procs -> [SubIds -> Config]]
  /\ session \in [Sessions -> Request]
  /\ ops \in 0..MaxOps
  /\ faults \in 0..MaxFaults
  /\ saved \in [SubIds -> Choice \cup {Anything}]
  /\ damaged \in SUBSET SubIds

\* The last start of the old version left its two tables, with or without
\* users of the subscription ids in them.
Init ==
  /\ subOf \in [Users -> SubIds \cup {Unborn}]
  /\ \A u, v \in Users : Exists(u) /\ subOf[u] = subOf[v] => u = v
  /\ templates = [a \in SubIds |-> Unset]
  /\ routing \in [SubIds -> [b64 : {Blank}, config : Config] \cup {NoRow}]
  /\ legacy \in [SubIds -> Profiles \cup {NoRow}]
  /\ proc = [m \in Procs |-> "down"]
  /\ todo = [m \in Procs |-> NothingTodo]
  /\ session = [s \in Sessions |-> Idle]
  /\ ops = 0
  /\ faults = 0
  /\ saved = [a \in SubIds |->
       [profile |-> [t \in Types |-> IF legacy[a] = NoRow THEN Default ELSE legacy[a]],
        code |-> IF routing[a] = NoRow \/ routing[a].config = Blank
                   THEN Blank ELSE Encode[routing[a].config]]]
  /\ damaged = {}

-----------------------------------------------------------------------------
(* The migrations every process begins with, one step per database call.   *)

HasLegacy == \E a \in SubIds : legacy[a] # NoRow

Goto(m, place) == proc' = [proc EXCEPT ![m] = place]

\* assignment.MigrateLegacy looks for the old table.
Look(m) ==
  /\ proc[m] = "down"
  /\ Goto(m, IF HasLegacy THEN "migrating" ELSE "listing")
  /\ UNCHANGED <<subOf, tables, todo, session, ops, faults, history>>

\* Mutant of Dropped: the migrated table stays.
NotDropped == legacy

Dropped == [a \in SubIds |-> NoRow]

\* assignment.MigrateLegacy: one transaction copies every row to all client
\* types and drops the old table.  Its plain INSERT fails on an existing row,
\* and on a table that another process has dropped since the look; the process
\* then exits.
MigrateAssignments(m) ==
  /\ proc[m] = "migrating"
  /\ IF HasLegacy /\ \A a \in SubIds : legacy[a] # NoRow => templates[a] = Unset
       THEN /\ templates' = [a \in SubIds |->
                 IF legacy[a] = NoRow THEN templates[a] ELSE [t \in Types |-> legacy[a]]]
            /\ legacy' = Dropped
            /\ Goto(m, "listing")
       ELSE /\ Goto(m, "down")
            /\ UNCHANGED <<templates, legacy>>
  /\ UNCHANGED <<subOf, routing, todo, session, ops, faults, history>>

\* Mutant of Pending: rows that already have a string are filled again.
PendingAll ==
  {a \in SubIds : /\ routing[a] # NoRow
                  /\ routing[a].config # Blank
                  /\ routing[a].b64 # Encode[routing[a].config]}

\* The rows routing.MigrateLegacy selects: no string yet, and an old config.
Pending == {a \in SubIds : routing[a] # NoRow /\ routing[a].b64 = Blank /\ routing[a].config # Blank}

\* routing.MigrateLegacy: the SELECT.  The column routing_b64 is in the table
\* by then.
ListPending(m) ==
  /\ proc[m] = "listing"
  /\ Goto(m, "filling")
  /\ todo' = [todo EXCEPT ![m] =
       [a \in SubIds |-> IF a \in Pending THEN routing[a].config ELSE Blank]]
  /\ UNCHANGED <<subOf, tables, session, ops, faults, history>>

\* Mutant of Encoded: the profile is copied as it is.
Unencoded(m, a) == todo[m][a]

Encoded(m, a) == Encode[todo[m][a]]

\* The ids a save under way has yet to write rows of.
AtRisk(s) ==
  IF session[s].kind = "save" /\ session[s].pc \in {"drop", "dropRouting", "types", "routing"}
    THEN {session[s].new}
    ELSE {}

\* The string that the UPDATE replaces is one saved since the SELECT, and no
\* save is about to write it again.
Overwrites(m, a) ==
  /\ routing[a] # NoRow
  /\ a \notin Pending
  /\ routing[a].b64 # Encoded(m, a)
  /\ \A s \in Sessions : a \notin AtRisk(s)

\* routing.MigrateLegacy: an UPDATE for every listed row, whatever the row
\* holds by now.
Fill(m, a) ==
  /\ proc[m] = "filling"
  /\ todo[m][a] # Blank
  /\ routing' = IF routing[a] = NoRow THEN routing
                ELSE [routing EXCEPT ![a].b64 = Encoded(m, a)]
  /\ todo' = [todo EXCEPT ![m][a] = Blank]
  /\ damaged' = IF Overwrites(m, a) THEN damaged \cup {a} ELSE damaged
  /\ UNCHANGED <<subOf, templates, legacy, proc, session, ops, faults, saved>>

\* The migrations are done: the service serves, a command does its work,
\* which is on other tables, and exits.
Migrated(m) ==
  /\ proc[m] = "filling"
  /\ todo[m] = NothingTodo
  /\ Goto(m, IF m = Service THEN "up" ELSE "down")
  /\ UNCHANGED <<subOf, tables, todo, session, ops, faults, history>>

-----------------------------------------------------------------------------
(* The handlers: one step per database call.                               *)

At(s, pc) == proc[Service] = "up" /\ session[s].pc = pc

Finish(s) == session' = [session EXCEPT ![s] = Idle]

Begin(s) == At(s, "idle") /\ ops < MaxOps /\ ops' = ops + 1

\* The form is saved under id a: from here on this is what a is to be served,
\* unless another request is still writing the rows of a.
Expect(s, a, choice, left) ==
  /\ saved' = [b \in SubIds |->
       IF b = a THEN choice ELSE IF b = left THEN Anything ELSE saved[b]]
  /\ damaged' = IF \E r \in Sessions \ {s} : a \in AtRisk(r)
                  THEN damaged \cup {a}
                  ELSE damaged \ {a}

\* handleUserCreate: the INSERT; a taken subscription id ends the request.
Create(s, u, a, choice) ==
  /\ Begin(s)
  /\ subOf[u] = Unborn
  /\ ~Owned(a)
  /\ subOf' = [subOf EXCEPT ![u] = a]
  /\ session' = [session EXCEPT ![s] =
       [Idle EXCEPT !.pc = "types", !.kind = "save", !.user = u, !.new = a, !.choice = choice]]
  /\ Expect(s, a, choice, a)
  /\ UNCHANGED <<tables, proc, todo, faults>>

\* A handler Gets the user; another request may be at work on the same user.
\* A delete goes on to the rows of the subscription id, the bulk delete to the
\* user.
Get(s, u, kind, pc) ==
  /\ Begin(s)
  /\ Exists(u)
  /\ session' = [session EXCEPT ![s] =
       [Idle EXCEPT !.pc = pc, !.kind = kind, !.user = u, !.old = subOf[u]]]
  /\ UNCHANGED <<subOf, tables, proc, todo, faults, history>>

\* handleUserUpdate: users.Update, which ends the request if the user is gone
\* or the id taken, and whether the id the user was read with is to be cleaned
\* up.  Nobody expects anything of the id the user has until then.
Update(s, a, choice) ==
  LET u == session[s].user IN
  /\ At(s, "write")
  /\ IF ~Exists(u) \/ \E v \in Users \ {u} : subOf[v] = a
       THEN Finish(s) /\ UNCHANGED <<subOf, history>>
       ELSE /\ subOf' = [subOf EXCEPT ![u] = a]
            /\ session' = [session EXCEPT ![s].new = a, ![s].choice = choice,
                             ![s].pc = IF session[s].old # a THEN "drop" ELSE "types"]
            /\ Expect(s, a, choice, subOf[u])
  /\ UNCHANGED <<tables, proc, todo, ops, faults>>

\* A clean-up of an id that a user has.
Trampled(s) == IF Owned(session[s].old) THEN {session[s].old} ELSE {}

\* assignments.DeleteAll of the old id.
DropAssignments(s) ==
  /\ At(s, "drop")
  /\ templates' = [templates EXCEPT ![session[s].old] = Unset]
  /\ session' = [session EXCEPT ![s].pc = "dropRouting"]
  /\ damaged' = damaged \cup Trampled(s)
  /\ UNCHANGED <<subOf, routing, legacy, proc, todo, ops, faults, saved>>

AfterDrop(s) == IF session[s].kind = "save" THEN "types" ELSE "remove"

\* routing.DeleteAll of the old id.
DropRouting(s) ==
  /\ At(s, "dropRouting")
  /\ routing' = [routing EXCEPT ![session[s].old] = NoRow]
  /\ session' = [session EXCEPT ![s].pc = AfterDrop(s)]
  /\ damaged' = damaged \cup Trampled(s)
  /\ UNCHANGED <<subOf, templates, legacy, proc, todo, ops, faults, saved>>

\* Mutant of RowFor: the default profile needs no row.
RowForUnlessDefault(s, t) ==
  LET p == session[s].choice.profile[t] IN
  IF p = Default THEN templates[session[s].new][t] ELSE p

RowFor(s, t) == session[s].choice.profile[t]

\* applyAssignmentsFromForm: one upsert per client type, in their order.
SetType(s) ==
  LET n == session[s].next IN
  /\ At(s, "types")
  /\ IF n <= Len(ClientTypes)
       THEN /\ templates' = [templates EXCEPT
                  ![session[s].new][ClientTypes[n]] = RowFor(s, ClientTypes[n])]
            /\ session' = [session EXCEPT ![s].next = n + 1]
       ELSE /\ session' = [session EXCEPT ![s].pc = "routing"]
            /\ UNCHANGED templates
  /\ UNCHANGED <<subOf, routing, legacy, proc, todo, ops, faults, history>>

\* routing.Set: the upsert leaves the legacy column of an existing row alone.
SetRouting(s) ==
  LET a == session[s].new IN
  /\ At(s, "routing")
  /\ routing' = [routing EXCEPT ![a] =
       [b64 |-> session[s].choice.code,
        config |-> IF routing[a] = NoRow THEN Blank ELSE routing[a].config]]
  /\ Finish(s)
  /\ UNCHANGED <<subOf, templates, legacy, proc, todo, ops, faults, history>>

\* users.Delete; the user may be gone already.
Remove(s) ==
  LET u == session[s].user IN
  /\ At(s, "remove")
  /\ IF Exists(u)
       THEN /\ subOf' = [subOf EXCEPT ![u] = Gone]
            /\ saved' = [saved EXCEPT ![subOf[u]] = Anything]
       ELSE UNCHANGED <<subOf, saved>>
  /\ Finish(s)
  /\ UNCHANGED <<tables, proc, todo, ops, faults, damaged>>

\* A database call fails.  A failing write or delete of the user ends the
\* request, a failing clean-up is only logged, the first failing upsert of a
\* profile skips the others.
CallFails(s) ==
  LET pc == session[s].pc IN
  /\ proc[Service] = "up"
  /\ pc # "idle"
  /\ pc = "types" => session[s].next <= Len(ClientTypes)
  /\ faults < MaxFaults
  /\ faults' = faults + 1
  /\ CASE pc = "drop" -> session' = [session EXCEPT ![s].pc = "dropRouting"]
       [] pc = "dropRouting" -> session' = [session EXCEPT ![s].pc = AfterDrop(s)]
       [] pc = "types" -> session' = [session EXCEPT ![s].pc = "routing"]
       [] OTHER -> Finish(s)
  /\ damaged' = IF pc \in {"types", "routing"} THEN damaged \cup AtRisk(s) ELSE damaged
  /\ UNCHANGED <<subOf, tables, proc, todo, ops, saved>>

\* A process ends, while it serves or while it migrates; a failing call of a
\* migration ends it too.
Crash(m) ==
  /\ proc[m] # "down"
  /\ faults < MaxFaults
  /\ faults' = faults + 1
  /\ Goto(m, "down")
  /\ todo' = [todo EXCEPT ![m] = NothingTodo]
  /\ IF m = Service
       THEN /\ session' = [s \in Sessions |-> Idle]
            /\ damaged' = damaged \cup UNION {AtRisk(s) : s \in Sessions}
       ELSE UNCHANGED <<session, damaged>>
  /\ UNCHANGED <<subOf, tables, ops, saved>>

-----------------------------------------------------------------------------
Migrate(m) ==
  \/ Look(m) \/ MigrateAssignments(m) \/ ListPending(m)
  \/ (\E a \in SubIds : Fill(m, a)) \/ Migrated(m)

Handle(s) ==
  \/ \E u \in Users, a \in SubIds, choice \in Forms : Create(s, u, a, choice)
  \/ \E u \in Users : Get(s, u, "save", "write") \/ Get(s, u, "delete", "drop") \/ Get(s, u, "none", "remove")
  \/ \E a \in SubIds, choice \in Forms : Update(s, a, choice)
  \/ DropAssignments(s) \/ DropRouting(s) \/ SetType(s) \/ SetRouting(s) \/ Remove(s)
  \/ CallFails(s)

Next == (\E m \in Procs : Migrate(m) \/ Crash(m)) \/ (\E s \in Sessions : Handle(s))

Spec == Init /\ [][Next]_vars

-----------------------------------------------------------------------------
\* assignment.Resolve.
Resolve(a, t) == IF templates[a][t] = NoRow THEN Default ELSE templates[a][t]

\* routing.Get.
RoutingGet(a) == IF routing[a] = NoRow THEN Blank ELSE routing[a].b64

\* A string the admin has blanked comes back at the next run of the binary
\* while the row still has its legacy config.
Resurrected(a) ==
  /\ saved[a].code = Blank
  /\ routing[a] # NoRow
  /\ routing[a].config # Blank
  /\ RoutingGet(a) = Encode[routing[a].config]

(* Safety.                                                                 *)

\* A subscriber is served what the admin last saved for its id, through the
\* migrations of the service and of commands beside it, through restarts, by
\* overlapping requests for several users or for one, and when the id was freed
\* by another user, even one whose rows were left behind (bulkApply deletes
\* none).  The exceptions: the save was cut short or a call in it failed; it
\* began while another request was still saving the same id; a clean-up came
\* after it (a request that had read the id before); a migration that had
\* listed the row before it replaced its string; and a blanked string (see
\* Resurrected).  The next save of the id that runs alone repairs all but the
\* last.
ServedAsSaved ==
  proc[Service] = "up" =>
    \A a \in SubIds :
      \/ saved[a] = Anything
      \/ a \in damaged
      \/ \E s \in Sessions : a \in AtRisk(s)
      \/ /\ \A t \in Types : Resolve(a, t) = saved[a].profile[t]
         /\ RoutingGet(a) = saved[a].code \/ Resurrected(a)

\* The plain INSERT of assignment.MigrateLegacy never meets a row of its key,
\* whichever processes migrate at the same time and whenever they crash: it
\* would keep the service from starting
\* (migrate.go: "a crash mid-migration rolls back cleanly").
MigrationNeverConflicts ==
  \A a \in SubIds : legacy[a] # NoRow => templates[a] = Unset
=============================================================================
