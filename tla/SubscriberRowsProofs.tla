------------------------ MODULE SubscriberRowsProofs ------------------------
(***************************************************************************)
(* Proofs about SubscriberRows, for any number of users, subscription ids, *)
(* client types, profiles, concurrent requests and commands beside the     *)
(* service.                                                                *)
(***************************************************************************)
EXTENDS SubscriberRows, TLAPS

\* A save from its users.Update to its last write of a row.
Saving(r) == r.kind = "save" /\ r.pc \in {"drop", "dropRouting", "types", "routing"}

\* What kind of request makes which call and where it starts to write rows; a
\* save has the form it writes, and before that a request knows its user and
\* the id the user was read with.
FormOf(r) ==
  /\ Saving(r) => r.choice \in Choice /\ r.new \in SubIds
  /\ r.pc \in {"write", "drop", "dropRouting", "remove"} => r.old \in SubIds /\ r.user \in Users
  /\ r.pc \in {"write", "types", "routing"} => r.kind = "save"
  /\ r.pc \in {"drop", "dropRouting"} => r.kind \in {"save", "delete"}
  /\ r.pc = "remove" => r.kind \in {"none", "delete"}
  /\ r.pc \in {"write", "drop", "dropRouting"} => r.next = 1

FormInv == \A s \in Sessions : FormOf(session[s])

\* While the old table still has rows no process has got past its migration,
\* so nobody has written the new one.
LegacyInv ==
  HasLegacy => /\ \A m \in Procs : proc[m] \in {"down", "migrating"}
               /\ \A a \in SubIds : templates[a] = Unset

\* No request is under way unless the service is up.
BusyInv == \A s \in Sessions : session[s].pc # "idle" => proc[Service] = "up"

TypesInv == TypeOK /\ FormInv

\* The form of a request is a choice of one profile per type and a string.
LEMMA ChoiceParts ==
  ASSUME NEW c \in Choice
  PROVE  c.profile \in [Types -> Profiles] /\ c.code \in Code
BY DEF Choice

LEMMA UnsetType == Unset \in [Types -> Profiles \cup {NoRow}]
BY DEF Unset

LEMMA TypeOfClient ==
  ASSUME NEW n \in 1..Len(ClientTypes)
  PROVE  ClientTypes[n] \in Types
BY DEF Types

LEMMA Lengths == Len(ClientTypes) \in Nat
BY SubscriberRowsAssumption

LEMMA IdleRequest == Idle \in Request /\ FormOf(Idle)
BY Lengths DEF Idle, Request, FormOf, Saving

\* One request moves on.
LEMMA SessionStep ==
  ASSUME session \in [Sessions -> Request], FormInv, NEW s \in Sessions,
         NEW r \in Request, FormOf(r), session' = [session EXCEPT ![s] = r]
  PROVE  session' \in [Sessions -> Request] /\ FormInv'
<1>1. session' \in [Sessions -> Request]
  OBVIOUS
<1>2. ASSUME NEW t \in Sessions PROVE FormOf(session'[t])
  <2>1. CASE t = s
    BY <2>1
  <2>2. CASE t # s
    BY <2>2 DEF FormInv
  <2> QED BY <2>1, <2>2
<1> QED BY <1>1, <1>2 DEF FormInv

LEMMA NothingType == NothingTodo \in [SubIds -> Config]
BY DEF NothingTodo, Config

LEMMA InitTypes == Init => TypesInv
<1> SUFFICES ASSUME Init PROVE TypesInv
  OBVIOUS
<1> USE SubscriberRowsAssumption
<1>1. routing \in [SubIds -> [b64 : Code, config : Config] \cup {NoRow}]
  BY DEF Init, Code
<1>2. saved \in [SubIds -> Choice \cup {Anything}]
  BY DEF Init, Choice, Code, Config
<1>3. templates \in [SubIds -> [Types -> Profiles \cup {NoRow}]]
  BY UnsetType DEF Init
<1>4. session \in [Sessions -> Request]
  BY IdleRequest DEF Init
<1>5. FormInv
  BY IdleRequest DEF Init, FormInv
<1>6. todo \in [Procs -> [SubIds -> Config]]
  BY NothingType DEF Init
<1>7. TypeOK
  BY <1>1, <1>2, <1>3, <1>4, <1>6 DEF Init, TypeOK
<1> QED BY <1>5, <1>7 DEF TypesInv

-----------------------------------------------------------------------------
(* Types.                                                                  *)

LEMMA ServiceIsProc == Service \in Procs
BY DEF Procs

LEMMA AtRiskType ==
  ASSUME TypesInv, NEW s \in Sessions
  PROVE  AtRisk(s) \subseteq SubIds
BY DEF AtRisk, TypesInv, FormInv, FormOf, Saving

\* A process moves on in its migration.
LEMMA PlaceType ==
  ASSUME TypesInv, NEW m \in Procs,
         NEW place \in {"down", "migrating", "listing", "filling", "up"}, Goto(m, place)
  PROVE  proc' \in [Procs -> {"down", "migrating", "listing", "filling", "up"}]
BY DEF Goto, TypesInv, TypeOK

LEMMA MigrateTypes ==
  ASSUME TypesInv, NEW m \in Procs, Migrate(m)
  PROVE  TypesInv'
<1> USE DEF TypesInv, TypeOK, FormInv
<1>1. CASE Look(m)
  BY <1>1, PlaceType DEF Look, tables, history
<1>2. CASE MigrateAssignments(m)
  <2>1. proc' \in [Procs -> {"down", "migrating", "listing", "filling", "up"}]
    BY <1>2, PlaceType DEF MigrateAssignments
  <2>2. /\ templates' \in [SubIds -> [Types -> Profiles \cup {NoRow}]]
        /\ legacy' \in [SubIds -> Profiles \cup {NoRow}]
    BY <1>2 DEF MigrateAssignments, Dropped
  <2> QED BY <1>2, <2>1, <2>2 DEF MigrateAssignments, history
<1>3. CASE ListPending(m)
  <2>1. proc' \in [Procs -> {"down", "migrating", "listing", "filling", "up"}]
    BY <1>3, PlaceType DEF ListPending
  <2>2. [a \in SubIds |-> IF a \in Pending THEN routing[a].config ELSE Blank] \in [SubIds -> Config]
    BY DEF Pending, Config
  <2>3. todo' \in [Procs -> [SubIds -> Config]]
    BY <1>3, <2>2 DEF ListPending
  <2> QED BY <1>3, <2>1, <2>3 DEF ListPending, tables, history
<1>4. ASSUME NEW a \in SubIds, Fill(m, a) PROVE TypesInv'
  <2>1. Encoded(m, a) \in Code
    BY <1>4, SubscriberRowsAssumption DEF Fill, Encoded, Code, Config
  <2>2. routing' \in [SubIds -> [b64 : Code, config : Config] \cup {NoRow}]
    BY <1>4, <2>1 DEF Fill
  <2>3. todo' \in [Procs -> [SubIds -> Config]]
    BY <1>4 DEF Fill, Config
  <2> QED BY <1>4, <2>2, <2>3 DEF Fill
<1>5. CASE Migrated(m)
  BY <1>5, PlaceType DEF Migrated, tables, history
<1> QED BY <1>1, <1>2, <1>3, <1>4, <1>5 DEF Migrate

\* A step of a handler.
LEMMA HandleTypes ==
  ASSUME TypesInv, NEW s \in Sessions, Handle(s)
  PROVE  TypesInv'
<1> DEFINE r == session[s]
<1>0. r \in Request /\ FormOf(r)
  BY DEF TypesInv, TypeOK, FormInv
<1>a. ASSUME NEW q \in Request, FormOf(q), session' = [session EXCEPT ![s] = q]
      PROVE  session' \in [Sessions -> Request] /\ FormInv'
  BY <1>a, SessionStep DEF TypesInv, TypeOK
<1> USE DEF TypesInv, TypeOK
<1>1. ASSUME NEW u \in Users, NEW a \in SubIds, NEW choice \in Forms, Create(s, u, a, choice)
      PROVE  TypesInv'
  <2>0. choice \in Choice
    BY SubscriberRowsAssumption
  <2> DEFINE q == [Idle EXCEPT !.pc = "types", !.kind = "save", !.user = u, !.new = a, !.choice = choice]
  <2>1. q \in Request
    BY <2>0, IdleRequest DEF Request
  <2>2. FormOf(q)
    BY <2>0, IdleRequest DEF Request, FormOf, Saving
  <2>3. session' \in [Sessions -> Request] /\ FormInv'
    BY <1>1, <1>a, <2>1, <2>2 DEF Create
  <2>4. ops' \in 0..MaxOps
    BY <1>1, SubscriberRowsAssumption DEF Create, Begin
  <2> QED BY <1>1, <2>0, <2>3, <2>4 DEF Create, Expect, tables
<1>2. ASSUME NEW u \in Users, NEW kind \in {"none", "save", "delete"},
             NEW pc \in {"write", "drop", "remove"}, Get(s, u, kind, pc),
             \/ kind = "save" /\ pc = "write"
             \/ kind = "delete" /\ pc = "drop"
             \/ kind = "none" /\ pc = "remove"
      PROVE  TypesInv'
  <2> DEFINE q == [Idle EXCEPT !.pc = pc, !.kind = kind, !.user = u, !.old = subOf[u]]
  <2>1. subOf[u] \in SubIds
    BY <1>2 DEF Get, Exists
  <2>2. q \in Request
    BY <2>1, IdleRequest DEF Request
  <2>3. FormOf(q)
    BY <1>2, <2>1, IdleRequest DEF Request, FormOf, Saving, Idle
  <2>4. session' \in [Sessions -> Request] /\ FormInv'
    BY <1>2, <1>a, <2>2, <2>3 DEF Get
  <2>5. ops' \in 0..MaxOps
    BY <1>2, SubscriberRowsAssumption DEF Get, Begin
  <2> QED BY <1>2, <2>4, <2>5 DEF Get, tables, history
<1>3. ASSUME NEW a \in SubIds, NEW choice \in Forms, Update(s, a, choice)
      PROVE  TypesInv'
  <2>0. choice \in Choice
    BY SubscriberRowsAssumption
  <2>1. CASE ~Exists(r.user) \/ \E v \in Users \ {r.user} : subOf[v] = a
    <3>1. session' \in [Sessions -> Request] /\ FormInv'
      BY <1>3, <1>a, <2>1, IdleRequest DEF Update, Finish
    <3> QED BY <1>3, <2>1, <3>1 DEF Update, tables, history
  <2>2. CASE ~(~Exists(r.user) \/ \E v \in Users \ {r.user} : subOf[v] = a)
    <3> DEFINE q == [r EXCEPT !.new = a, !.choice = choice,
                              !.pc = IF r.old # a THEN "drop" ELSE "types"]
    <3>1. q \in Request /\ FormOf(q)
      BY <1>0, <1>3, <2>0 DEF Update, At, Request, FormOf, Saving
    <3>2. session' = [session EXCEPT ![s] = q]
      BY <1>3, <2>2 DEF Update, Request
    <3>3. session' \in [Sessions -> Request] /\ FormInv'
      BY <1>a, <3>1, <3>2
    <3>4. subOf' \in [Users -> SubIds \cup {Unborn, Gone}]
      BY <1>3, <2>2 DEF Update
    <3>5. saved' \in [SubIds -> Choice \cup {Anything}] /\ damaged' \in SUBSET SubIds
      BY <1>3, <2>0, <2>2 DEF Update, Expect
    <3> QED BY <1>3, <3>3, <3>4, <3>5 DEF Update, tables
  <2> QED BY <2>1, <2>2
<1>4. CASE DropAssignments(s)
  <2> DEFINE q == [r EXCEPT !.pc = "dropRouting"]
  <2>1. q \in Request /\ FormOf(q)
    BY <1>0, <1>4 DEF DropAssignments, At, Request, FormOf, Saving
  <2>2. session' \in [Sessions -> Request] /\ FormInv'
    BY <1>4, <1>a, <2>1 DEF DropAssignments
  <2>3. Trampled(s) \subseteq SubIds
    BY <1>0, <1>4 DEF DropAssignments, At, FormOf, Trampled
  <2> QED BY <1>4, <2>2, <2>3, UnsetType DEF DropAssignments
<1>5. CASE DropRouting(s)
  <2> DEFINE q == [r EXCEPT !.pc = AfterDrop(s)]
  <2>1. q \in Request /\ FormOf(q)
    BY <1>0, <1>5 DEF DropRouting, At, Request, FormOf, Saving, AfterDrop
  <2>2. session' \in [Sessions -> Request] /\ FormInv'
    BY <1>5, <1>a, <2>1 DEF DropRouting
  <2>3. Trampled(s) \subseteq SubIds
    BY <1>0, <1>5 DEF DropRouting, At, FormOf, Trampled
  <2> QED BY <1>5, <2>2, <2>3 DEF DropRouting
<1>6. CASE SetType(s)
  <2>1. CASE r.next <= Len(ClientTypes)
    <3>1. r.next \in 1..Len(ClientTypes)
      BY <1>0, <2>1, Lengths DEF Request
    <3>2. ClientTypes[r.next] \in Types
      BY <3>1, TypeOfClient
    <3>3. r.choice \in Choice
      BY <1>0, <1>6 DEF SetType, At, FormOf, Saving
    <3>4. RowFor(s, ClientTypes[r.next]) \in Profiles
      BY <3>2, <3>3, ChoiceParts DEF RowFor
    <3> DEFINE q == [r EXCEPT !.next = r.next + 1]
    <3>5. q \in Request /\ FormOf(q)
      <4>1. r.next + 1 \in 1..(Len(ClientTypes) + 1)
        BY <3>1, Lengths
      <4>2. q \in Request
        BY <1>0, <4>1 DEF Request
      <4>3. FormOf(q)
        BY <1>0, <1>6 DEF SetType, At, Request, FormOf, Saving
      <4> QED BY <4>2, <4>3
    <3>6. session' \in [Sessions -> Request] /\ FormInv'
      BY <1>6, <1>a, <2>1, <3>5 DEF SetType
    <3>7. templates' \in [SubIds -> [Types -> Profiles \cup {NoRow}]]
      <4>1. templates' = [templates EXCEPT ![r.new][ClientTypes[r.next]] = RowFor(s, ClientTypes[r.next])]
        BY <1>6, <2>1 DEF SetType
      <4>2. r.new \in SubIds
        BY <1>0, <1>6 DEF SetType, At, FormOf, Saving
      <4> QED BY <4>1, <4>2, <3>2, <3>4
    <3> QED BY <1>6, <3>6, <3>7 DEF SetType, history
  <2>2. CASE ~(r.next <= Len(ClientTypes))
    <3> DEFINE q == [r EXCEPT !.pc = "routing"]
    <3>1. q \in Request /\ FormOf(q)
      BY <1>0, <1>6 DEF SetType, At, Request, FormOf, Saving
    <3>2. session' \in [Sessions -> Request] /\ FormInv'
      BY <1>6, <1>a, <2>2, <3>1 DEF SetType
    <3> QED BY <1>6, <2>2, <3>2 DEF SetType, history
  <2> QED BY <2>1, <2>2
<1>7. CASE SetRouting(s)
  <2>1. r.choice.code \in Code
    BY <1>0, <1>7, ChoiceParts DEF SetRouting, At, FormOf, Saving
  <2>2. session' \in [Sessions -> Request] /\ FormInv'
    BY <1>7, <1>a, IdleRequest DEF SetRouting, Finish
  <2>3. \A a \in SubIds : (IF routing[a] = NoRow THEN Blank ELSE routing[a].config) \in Config
    BY DEF Config
  <2>4. routing' \in [SubIds -> [b64 : Code, config : Config] \cup {NoRow}]
    BY <1>7, <2>1, <2>3 DEF SetRouting
  <2> QED BY <1>7, <2>2, <2>4 DEF SetRouting, history
<1>8. CASE Remove(s)
  <2>1. session' \in [Sessions -> Request] /\ FormInv'
    BY <1>8, <1>a, IdleRequest DEF Remove, Finish
  <2> QED BY <1>8, <2>1 DEF Remove, tables
<1>9. CASE CallFails(s)
  <2>1. \E q \in Request : FormOf(q) /\ session' = [session EXCEPT ![s] = q]
    <3>1. CASE r.pc = "drop"
      <4> DEFINE q == [r EXCEPT !.pc = "dropRouting"]
      <4>1. q \in Request /\ FormOf(q)
        BY <1>0, <3>1 DEF Request, FormOf, Saving
      <4>2. session' = [session EXCEPT ![s] = q]
        BY <1>9, <3>1 DEF CallFails
      <4> QED BY <4>1, <4>2
    <3>2. CASE r.pc = "dropRouting"
      <4> DEFINE q == [r EXCEPT !.pc = AfterDrop(s)]
      <4>1. q \in Request /\ FormOf(q)
        BY <1>0, <3>2 DEF Request, FormOf, Saving, AfterDrop
      <4>2. session' = [session EXCEPT ![s] = q]
        BY <1>9, <3>2 DEF CallFails
      <4> QED BY <4>1, <4>2
    <3>3. CASE r.pc = "types"
      <4> DEFINE q == [r EXCEPT !.pc = "routing"]
      <4>1. q \in Request /\ FormOf(q)
        BY <1>0, <3>3 DEF Request, FormOf, Saving
      <4>2. session' = [session EXCEPT ![s] = q]
        BY <1>9, <3>3 DEF CallFails
      <4> QED BY <4>1, <4>2
    <3>4. CASE r.pc \notin {"drop", "dropRouting", "types"}
      <4>1. session' = [session EXCEPT ![s] = Idle]
        BY <1>9, <3>4 DEF CallFails, Finish
      <4> QED BY <4>1, IdleRequest
    <3> QED BY <3>1, <3>2, <3>3, <3>4
  <2>2. session' \in [Sessions -> Request] /\ FormInv'
    BY <1>a, <2>1
  <2>3. damaged' \in SUBSET SubIds
    BY <1>9, AtRiskType DEF CallFails
  <2>4. faults' \in 0..MaxFaults
    BY <1>9, SubscriberRowsAssumption DEF CallFails
  <2> QED BY <1>9, <2>2, <2>3, <2>4 DEF CallFails, tables
<1> QED BY <1>1, <1>2, <1>3, <1>4, <1>5, <1>6, <1>7, <1>8, <1>9 DEF Handle

LEMMA CrashTypes ==
  ASSUME TypesInv, NEW m \in Procs, Crash(m)
  PROVE  TypesInv'
<1> USE DEF TypesInv, TypeOK
<1>1. proc' \in [Procs -> {"down", "migrating", "listing", "filling", "up"}]
  BY PlaceType DEF Crash
<1>2. todo' \in [Procs -> [SubIds -> Config]]
  BY NothingType DEF Crash
<1>3. session' \in [Sessions -> Request] /\ FormInv' /\ damaged' \in SUBSET SubIds
  <2>1. CASE m = Service
    BY <2>1, AtRiskType, IdleRequest DEF Crash, FormInv
  <2>2. CASE m # Service
    BY <2>2 DEF Crash, FormInv
  <2> QED BY <2>1, <2>2
<1>4. faults' \in 0..MaxFaults
  BY SubscriberRowsAssumption DEF Crash
<1> QED BY <1>1, <1>2, <1>3, <1>4 DEF Crash, tables

LEMMA NextTypes == TypesInv /\ [Next]_vars => TypesInv'
<1> SUFFICES ASSUME TypesInv, [Next]_vars PROVE TypesInv'
  OBVIOUS
<1>1. CASE UNCHANGED vars
  BY <1>1 DEF vars, tables, history, TypesInv, TypeOK, FormInv
<1> QED BY <1>1, MigrateTypes, HandleTypes, CrashTypes DEF Next

\* Every reachable state is well typed: in particular no routing row ever
\* holds an old profile where its string belongs, and a request that writes
\* rows always has the form it writes.
THEOREM TypeCorrect == Spec => []TypeOK
<1>1. TypesInv => TypeOK
  BY DEF TypesInv
<1> QED BY <1>1, InitTypes, NextTypes, PTL DEF Spec

-----------------------------------------------------------------------------
(* The migration of the assignments.                                       *)

LEMMA NextLegacy == TypesInv /\ LegacyInv /\ BusyInv /\ [Next]_vars => LegacyInv' /\ BusyInv'
<1> SUFFICES ASSUME TypesInv, LegacyInv, BusyInv, [Next]_vars PROVE LegacyInv' /\ BusyInv'
  OBVIOUS
<1> USE ServiceIsProc DEF LegacyInv, BusyInv, HasLegacy, TypesInv, TypeOK
<1>1. ASSUME NEW m \in Procs, Migrate(m) PROVE LegacyInv' /\ BusyInv'
  <2>1. CASE Look(m)
    BY <1>1, <2>1 DEF Look, Goto, tables
  <2>2. CASE MigrateAssignments(m)
    BY <1>1, <2>2 DEF MigrateAssignments, Goto, Dropped
  <2>3. CASE ListPending(m)
    BY <1>1, <2>3 DEF ListPending, Goto, tables
  <2>4. ASSUME NEW a \in SubIds, Fill(m, a) PROVE LegacyInv' /\ BusyInv'
    BY <1>1, <2>4 DEF Fill
  <2>5. CASE Migrated(m)
    BY <1>1, <2>5 DEF Migrated, Goto, tables
  <2> QED BY <1>1, <2>1, <2>2, <2>3, <2>4, <2>5 DEF Migrate
<1>2. ASSUME NEW m \in Procs, Crash(m) PROVE LegacyInv' /\ BusyInv'
  <2>1. CASE m = Service
    BY <1>2, <2>1 DEF Crash, Goto, tables, Idle
  <2>2. CASE m # Service
    BY <1>2, <2>2 DEF Crash, Goto, tables
  <2> QED BY <2>1, <2>2
<1>3. ASSUME NEW s \in Sessions, Handle(s) PROVE LegacyInv' /\ BusyInv'
  <2>1. proc[Service] = "up" /\ proc' = proc /\ legacy' = legacy
    BY <1>3 DEF Handle, Create, Get, Update, Begin, At, DropAssignments, DropRouting,
                SetType, SetRouting, Remove, CallFails, tables
  <2> QED BY <2>1
<1>4. CASE UNCHANGED vars
  BY <1>4 DEF vars, tables
<1> QED BY <1>1, <1>2, <1>3, <1>4 DEF Next

\* The plain INSERT of assignment.MigrateLegacy never meets a row of its key,
\* however many processes migrate at the same time and however often they
\* crash and start again.
THEOREM MigrationSafe == Spec => []MigrationNeverConflicts
<1>1. Init => LegacyInv /\ BusyInv
  BY DEF Init, LegacyInv, BusyInv, Idle
<1>2. LegacyInv => MigrationNeverConflicts
  BY DEF LegacyInv, MigrationNeverConflicts, HasLegacy
<1> QED BY <1>1, <1>2, InitTypes, NextTypes, NextLegacy, PTL DEF Spec

-----------------------------------------------------------------------------
(* What a subscriber is served.                                            *)

\* The id a request is still to write rows of.
Risk(r) == IF Saving(r) THEN {r.new} ELSE {}

\* The config on a list is still the one in the row, if the row has any.
TodoInv ==
  \A m \in Procs, a \in SubIds :
    todo[m][a] # Blank /\ routing[a] # NoRow /\ routing[a].config # Blank => todo[m][a] = routing[a].config

\* An id that a request was sent with is owned, or nobody expects anything of it.
Free(a) == Owned(a) \/ saved[a] = Anything

FreedInv == \A s \in Sessions : session[s].pc \in {"write", "drop", "dropRouting"} => Free(session[s].old)

Lost(a) == saved[a] = Anything \/ a \in damaged

\* The profiles a save has written so far.
Written(r) ==
  \A i \in 1..Len(ClientTypes) : r.pc = "routing" \/ (r.pc = "types" /\ i < r.next) =>
    templates[r.new][ClientTypes[i]] = r.choice.profile[ClientTypes[i]]

\* A save that nothing has got in the way of has its id for itself.
SaveOf(s) ==
  LET r == session[s] IN
  Saving(r) =>
    \/ Lost(r.new)
    \/ /\ saved[r.new] = r.choice
       /\ Written(r)
       /\ \A x \in Sessions \ {s} : r.new \notin Risk(session[x])

SaveInv == \A s \in Sessions : SaveOf(s)

\* What is served once the migrations are done.
ProfileDue(a, t) == IF legacy[a] # NoRow THEN legacy[a] ELSE Resolve(a, t)
Awaited(a) ==
  /\ a \in Pending
  /\ saved[a].code = Encode[routing[a].config]
  /\ \/ proc[Service] \in {"down", "migrating", "listing"}
     \/ proc[Service] = "filling" /\ todo[Service][a] # Blank

Correct(a) ==
  /\ \A t \in Types : ProfileDue(a, t) = saved[a].profile[t]
  /\ RoutingGet(a) = saved[a].code \/ Resurrected(a) \/ Awaited(a)

AtWork(a) == \E s \in Sessions : a \in Risk(session[s])
Excused(a) == Lost(a) \/ AtWork(a)

ServedInv == \A a \in SubIds : Excused(a) \/ Correct(a)

StartInv == TypesInv /\ LegacyInv /\ BusyInv /\ TodoInv
RowsInv == StartInv /\ FreedInv /\ SaveInv /\ ServedInv

LEMMA RiskIsAtRisk == \A s \in Sessions : AtRisk(s) = Risk(session[s])
BY DEF AtRisk, Risk, Saving

LEMMA RowsInit == Init => RowsInv
<1> SUFFICES ASSUME Init PROVE RowsInv
  OBVIOUS
<1> USE SubscriberRowsAssumption
<1>1. TypesInv /\ LegacyInv /\ BusyInv
  BY InitTypes DEF Init, LegacyInv, BusyInv, Idle
<1>2. TodoInv /\ FreedInv /\ SaveInv
  BY DEF Init, TodoInv, NothingTodo, FreedInv, SaveInv, SaveOf, Saving, Idle
<1>3. ASSUME NEW a \in SubIds PROVE Correct(a)
  <2>1. \A t \in Types : ProfileDue(a, t) = saved[a].profile[t]
    BY DEF Init, ProfileDue, Resolve, Unset
  <2>2. RoutingGet(a) = saved[a].code \/ Awaited(a)
    <3>1. CASE routing[a] = NoRow
      BY <3>1 DEF Init, RoutingGet
    <3>2. CASE routing[a] # NoRow
      <4>1. routing[a].b64 = Blank
        BY <3>2 DEF Init
      <4>2. proc[Service] = "down"
        BY ServiceIsProc DEF Init
      <4> QED BY <3>2, <4>1, <4>2 DEF Init, RoutingGet, Awaited, Pending
    <3> QED BY <3>1, <3>2
  <2> QED BY <2>1, <2>2 DEF Correct
<1> QED BY <1>1, <1>2, <1>3 DEF RowsInv, StartInv, ServedInv

\* A row whose config is unchanged, gone or blank agrees with the lists as before.
LEMMA TodoStep ==
  ASSUME TodoInv, todo' = todo,
         \A a \in SubIds : \/ routing'[a] = NoRow
                           \/ routing'[a].config = Blank
                           \/ routing[a] # NoRow /\ routing'[a].config = routing[a].config
  PROVE  TodoInv'
BY DEF TodoInv

LEMMA NextTodo == TypesInv /\ TodoInv /\ [Next]_vars => TodoInv'
<1> SUFFICES ASSUME TypesInv, TodoInv, [Next]_vars PROVE TodoInv'
  OBVIOUS
<1> USE DEF TypesInv, TypeOK
<1>1. CASE routing' = routing /\ todo' = todo
  BY <1>1 DEF TodoInv
<1>2. ASSUME NEW m \in Procs, Migrate(m) PROVE TodoInv'
  <2>1. CASE Look(m) \/ MigrateAssignments(m) \/ Migrated(m)
    BY <1>1, <2>1 DEF Look, MigrateAssignments, Migrated, tables
  <2>2. CASE ListPending(m)
    BY <2>2 DEF ListPending, tables, TodoInv, Pending
  <2>3. ASSUME NEW a \in SubIds, Fill(m, a) PROVE TodoInv'
    <3>1. \A n \in Procs, b \in SubIds : todo'[n][b] = todo[n][b] \/ todo'[n][b] = Blank
      BY <2>3 DEF Fill
    <3>2. \A b \in SubIds : routing'[b] = routing[b] \/ (routing[b] # NoRow /\ routing'[b].config = routing[b].config)
      BY <2>3 DEF Fill
    <3>3. ASSUME NEW n \in Procs, NEW b \in SubIds, todo'[n][b] # Blank, routing'[b] # NoRow, routing'[b].config # Blank
          PROVE  todo'[n][b] = routing'[b].config
      <4>1. todo'[n][b] = todo[n][b] /\ todo[n][b] # Blank
        BY <3>1, <3>3
      <4>2. routing[b] # NoRow /\ routing'[b].config = routing[b].config
        BY <3>2, <3>3
      <4> QED BY <3>3, <4>1, <4>2 DEF TodoInv
    <3> QED BY <3>3 DEF TodoInv
  <2> QED BY <1>2, <2>1, <2>2, <2>3 DEF Migrate
<1>3. ASSUME NEW m \in Procs, Crash(m) PROVE TodoInv'
  <2>1. \A n \in Procs, b \in SubIds : todo'[n][b] = todo[n][b] \/ todo'[n][b] = Blank
    BY <1>3 DEF Crash, NothingTodo
  <2> QED BY <1>3, <2>1 DEF Crash, tables, TodoInv
<1>4. ASSUME NEW s \in Sessions, Handle(s) PROVE TodoInv'
  <2>1. CASE DropRouting(s)
    BY <2>1, TodoStep DEF DropRouting
  <2>2. CASE SetRouting(s)
    <3>1. \A a \in SubIds : \/ routing'[a] = routing[a]
                            \/ routing'[a].config = IF routing[a] = NoRow THEN Blank ELSE routing[a].config
      BY <2>2 DEF SetRouting
    <3> QED BY <2>2, <3>1, TodoStep DEF SetRouting
  <2>3. CASE ~DropRouting(s) /\ ~SetRouting(s)
    <3>1. routing' = routing /\ todo' = todo
      BY <1>4, <2>3 DEF Handle, Create, Get, Update, DropAssignments, SetType, Remove, CallFails, tables
    <3> QED BY <1>1, <3>1
  <2> QED BY <2>1, <2>2, <2>3
<1>5. CASE UNCHANGED vars
  BY <1>1, <1>5 DEF vars, tables
<1> QED BY <1>2, <1>3, <1>4, <1>5 DEF Next

-----------------------------------------------------------------------------
(* Steps of a request.                                                     *)

\* A request moves on; the processes, their lists and the old table stay.
Moves(s, q) ==
  /\ session' = [session EXCEPT ![s] = q]
  /\ proc[Service] = "up" /\ proc' = proc /\ todo' = todo /\ legacy' = legacy

LEMMA Moved ==
  ASSUME RowsInv, NEW s \in Sessions, NEW q, Moves(s, q)
  PROVE  session'[s] = q /\ \A x \in Sessions \ {s} : session'[x] = session[x]
BY DEF RowsInv, StartInv, TypesInv, TypeOK, Moves

LEMMA OneRequest ==
  ASSUME RowsInv, NEW s \in Sessions
  PROVE  session[s] \in Request /\ FormOf(session[s]) /\ SaveOf(s)
BY DEF RowsInv, StartInv, TypesInv, TypeOK, FormInv, SaveInv

LEMMA EndedRequest == Idle.pc = "idle" /\ ~Saving(Idle) /\ Risk(Idle) = {}
BY DEF Idle, Saving, Risk

\* Two saves of one id at the same time spoil each other.
LEMMA Rivals ==
  ASSUME RowsInv, NEW s \in Sessions, NEW x \in Sessions, x # s,
         Saving(session[s]), Saving(session[x]), session[x].new = session[s].new
  PROVE  Lost(session[s].new)
BY DEF RowsInv, SaveInv, SaveOf, Risk

\* A step that moves request r on to q leaves a save of id b alone, or b is lost.
Undisturbed(b, r, q) ==
  \/ saved'[b] = Anything
  \/ b \in damaged'
  \/ /\ saved'[b] = saved[b]
     /\ templates'[b] = templates[b]
     /\ b \in damaged => b \in damaged'
     /\ b \in Risk(q) => b \in Risk(r)

SaveOfNext(s, r) ==
  Saving(r) =>
    \/ saved'[r.new] = Anything
    \/ r.new \in damaged'
    \/ /\ saved'[r.new] = r.choice
       /\ \A i \in 1..Len(ClientTypes) : r.pc = "routing" \/ (r.pc = "types" /\ i < r.next) =>
            templates'[r.new][ClientTypes[i]] = r.choice.profile[ClientTypes[i]]
       /\ \A x \in Sessions \ {s} : r.new \notin Risk(session'[x])

LEMMA SaveStep ==
  ASSUME RowsInv, NEW s \in Sessions, NEW q, Moves(s, q), SaveOfNext(s, q),
         \A x \in Sessions \ {s} : Saving(session[x]) => Undisturbed(session[x].new, session[s], q)
  PROVE  SaveInv'
<1>1. session'[s] = q /\ \A x \in Sessions \ {s} : session'[x] = session[x]
  BY Moved
<1>2. ASSUME NEW x \in Sessions PROVE SaveOfNext(x, session'[x])
  <2>1. CASE x = s
    BY <1>1, <2>1
  <2>2. CASE x # s /\ Saving(session[x])
    <3> DEFINE b == session[x].new
    <3>1. session'[x] = session[x] /\ SaveOf(x) /\ Undisturbed(b, session[s], q)
      BY <1>1, <2>2, OneRequest
    <3>2. CASE saved'[b] = Anything \/ b \in damaged'
      BY <3>1, <3>2 DEF SaveOfNext
    <3>3. CASE saved'[b] # Anything /\ b \notin damaged'
      <4>1. saved'[b] = saved[b] /\ templates'[b] = templates[b] /\ ~Lost(b)
            /\ (b \in Risk(q) => b \in Risk(session[s]))
        BY <3>1, <3>3 DEF Undisturbed, Lost
      <4>2. saved[b] = session[x].choice /\ Written(session[x])
            /\ \A y \in Sessions \ {x} : b \notin Risk(session[y])
        BY <2>2, <3>1, <4>1 DEF SaveOf
      <4>3. \A y \in Sessions \ {x} : b \notin Risk(session'[y])
        BY <1>1, <2>2, <4>1, <4>2
      <4> QED BY <3>1, <4>1, <4>2, <4>3 DEF SaveOfNext, Written
    <3> QED BY <3>2, <3>3
  <2>3. CASE x # s /\ ~Saving(session[x])
    BY <1>1, <2>3 DEF SaveOfNext
  <2> QED BY <2>1, <2>2, <2>3
<1> QED BY <1>2 DEF SaveInv, SaveOf, SaveOfNext, Lost, Written

\* A row that nothing has changed is as right as before.
LEMMA Untouched ==
  ASSUME RowsInv, NEW s \in Sessions, NEW q, Moves(s, q), NEW a \in SubIds,
         templates'[a] = templates[a], routing'[a] = routing[a], saved'[a] = saved[a],
         a \in damaged => a \in damaged',
         a \in Risk(session[s]) => a \in Risk(q) \/ a \in damaged'
  PROVE  Excused(a)' \/ Correct(a)'
<1>1. AtWork(a) => AtWork(a)' \/ a \in damaged'
  BY Moved DEF AtWork
<1>2. Excused(a) => Excused(a)'
  BY <1>1 DEF Excused, Lost
<1>3. Correct(a) => Correct(a)'
  BY DEF Correct, ProfileDue, Resolve, RoutingGet, Resurrected, Awaited, Pending, Moves
<1> QED BY <1>2, <1>3 DEF RowsInv, ServedInv

\* A row at risk in the next state is excused there.
LEMMA RiskExcuses ==
  ASSUME RowsInv, NEW s \in Sessions, NEW q, Moves(s, q), NEW a \in Risk(q)
  PROVE  Excused(a)'
BY Moved DEF Excused, AtWork

\* An id stays owned, or expected of nothing, or becomes so.
LEMMA FreeStays ==
  ASSUME TypesInv, NEW s \in Sessions, Handle(s), NEW a \in SubIds, Free(a)
  PROVE  Free(a)'
<1> USE DEF TypesInv, TypeOK
<1>1. CASE subOf' = subOf /\ saved' = saved
  BY <1>1 DEF Free, Owned
<1>2. ASSUME NEW u \in Users, NEW b \in SubIds, NEW choice \in Forms, Create(s, u, b, choice)
      PROVE  Free(a)'
  <2>1. CASE a = b
    BY <1>2, <2>1 DEF Create, Free, Owned
  <2>2. CASE a # b
    <3>1. saved'[a] = saved[a] /\ \A v \in Users : subOf[v] = a => subOf'[v] = a
      BY <1>2, <2>2, SubscriberRowsAssumption DEF Create, Expect
    <3> QED BY <3>1 DEF Free, Owned
  <2> QED BY <2>1, <2>2
<1>3. ASSUME NEW b \in SubIds, NEW choice \in Forms, Update(s, b, choice)
      PROVE  Free(a)'
  <2> DEFINE u == session[s].user
  <2>1. CASE ~Exists(u) \/ \E v \in Users \ {u} : subOf[v] = b
    BY <1>1, <1>3, <2>1 DEF Update, history
  <2>2. CASE ~(~Exists(u) \/ \E v \in Users \ {u} : subOf[v] = b)
    <3>1. u \in Users
      BY <1>3 DEF Update, At, FormInv, FormOf
    <3>2. subOf' = [subOf EXCEPT ![u] = b] /\ subOf'[u] = b
      BY <1>3, <2>2, <3>1 DEF Update
    <3>3. saved' = [c \in SubIds |-> IF c = b THEN choice ELSE IF c = subOf[u] THEN Anything ELSE saved[c]]
      BY <1>3, <2>2 DEF Update, Expect
    <3>4. CASE a = b
      BY <3>1, <3>2, <3>4 DEF Free, Owned
    <3>5. CASE a # b /\ a = subOf[u]
      BY <3>3, <3>5 DEF Free
    <3>6. CASE a # b /\ a # subOf[u]
      BY <3>2, <3>3, <3>6 DEF Free, Owned
    <3> QED BY <3>4, <3>5, <3>6
  <2> QED BY <2>1, <2>2
<1>4. CASE Remove(s)
  <2> DEFINE u == session[s].user
  <2>1. CASE ~Exists(u)
    BY <1>1, <1>4, <2>1 DEF Remove
  <2>2. CASE Exists(u)
    <3>1. subOf' = [subOf EXCEPT ![u] = Gone] /\ saved' = [saved EXCEPT ![subOf[u]] = Anything]
      BY <1>4, <2>2 DEF Remove
    <3>2. CASE a = subOf[u]
      BY <3>1, <3>2 DEF Free
    <3>3. CASE a # subOf[u]
      BY <3>1, <3>3 DEF Free, Owned
    <3> QED BY <3>2, <3>3
  <2> QED BY <2>1, <2>2
<1>5. (\E u \in Users : Get(s, u, "save", "write") \/ Get(s, u, "delete", "drop") \/ Get(s, u, "none", "remove"))
      \/ DropAssignments(s) \/ DropRouting(s) \/ SetType(s) \/ SetRouting(s) \/ CallFails(s)
      => subOf' = subOf /\ saved' = saved
  BY DEF Get, DropAssignments, DropRouting, SetType, SetRouting, CallFails, history
<1> QED BY <1>1, <1>2, <1>3, <1>4, <1>5 DEF Handle

FreeNext(a) == (\E u \in Users : subOf'[u] = a) \/ saved'[a] = Anything

LEMMA HandleFreed ==
  ASSUME RowsInv, NEW s \in Sessions, Handle(s)
  PROVE  FreedInv'
<1> USE DEF RowsInv, StartInv
<1>1. ASSUME NEW x \in Sessions, session'[x].pc \in {"write", "drop", "dropRouting"},
             session[x].pc \in {"write", "drop", "dropRouting"}, session'[x].old = session[x].old
      PROVE  FreeNext(session'[x].old)
  <2>1. session[x].old \in SubIds /\ Free(session[x].old)
    BY <1>1 DEF FreedInv, TypesInv, FormInv, FormOf
  <2>2. PICK a \in SubIds : a = session[x].old
    BY <2>1
  <2>3. Free(a)'
    BY <2>1, <2>2, FreeStays
  <2> QED BY <1>1, <2>2, <2>3 DEF Free, Owned, FreeNext
<1>2. ASSUME NEW u \in Users, NEW kind, NEW pc, Get(s, u, kind, pc),
             session'[s].pc \in {"write", "drop", "dropRouting"}
      PROVE  FreeNext(session'[s].old)
  <2>1. session'[s].old = subOf[u] /\ subOf' = subOf
    BY <1>2 DEF Get, Idle, TypesInv, TypeOK
  <2>2. subOf'[u] = session'[s].old
    BY <2>1
  <2> QED BY <2>2 DEF FreeNext
<1>3. \A x \in Sessions \ {s} : session'[x] = session[x]
  BY DEF Handle, Create, Get, Update, Finish, DropAssignments, DropRouting, SetType, SetRouting,
         Remove, CallFails, TypesInv, TypeOK
<1>4. ASSUME session'[s].pc \in {"write", "drop", "dropRouting"}
      PROVE  \/ \E u \in Users : Get(s, u, "save", "write") \/ Get(s, u, "delete", "drop") \/ Get(s, u, "none", "remove")
             \/ session[s].pc \in {"write", "drop", "dropRouting"} /\ session'[s].old = session[s].old
  <2> USE DEF TypesInv, TypeOK
  <2>1. CASE \E u \in Users, a \in SubIds, choice \in Forms : Create(s, u, a, choice)
    BY <1>4, <2>1 DEF Create, Idle
  <2>2. CASE \E a \in SubIds, choice \in Forms : Update(s, a, choice)
    BY <1>4, <2>2 DEF Update, At, Finish, Idle, Request
  <2>3. CASE DropAssignments(s)
    BY <1>4, <2>3 DEF DropAssignments, At, Request
  <2>4. CASE DropRouting(s)
    BY <1>4, <2>4 DEF DropRouting, At, AfterDrop, Request
  <2>5. CASE SetType(s)
    BY <1>4, <2>5 DEF SetType, At, Request
  <2>6. CASE SetRouting(s) \/ Remove(s)
    BY <1>4, <2>6 DEF SetRouting, Remove, Finish, Idle
  <2>7. CASE CallFails(s)
    BY <1>4, <2>7 DEF CallFails, AfterDrop, Finish, Idle, Request
  <2> QED BY <2>1, <2>2, <2>3, <2>4, <2>5, <2>6, <2>7 DEF Handle
<1>5. ASSUME NEW x \in Sessions, session'[x].pc \in {"write", "drop", "dropRouting"}
      PROVE  FreeNext(session'[x].old)
  <2>1. CASE x = s
    BY <1>1, <1>2, <1>4, <1>5, <2>1
  <2>2. CASE x # s
    BY <1>1, <1>3, <1>5, <2>2
  <2> QED BY <2>1, <2>2
<1> QED BY <1>5 DEF FreedInv, Free, Owned, FreeNext

-----------------------------------------------------------------------------
(* The calls of the handlers.                                              *)

\* What the lemmas below establish, besides what has been shown above.
ServedParts == SaveInv /\ ServedInv

\* The form is saved under id a, by a request that goes on as q.
LEMMA ExpectServed ==
  ASSUME RowsInv, NEW s \in Sessions, NEW q, Moves(s, q), ~Saving(session[s]),
         NEW a \in SubIds, NEW choice \in Choice, NEW left, Expect(s, a, choice, left),
         q.kind = "save", q.new = a, q.choice = choice, q.next = 1, q.pc \in {"drop", "types"},
         templates' = templates, routing' = routing
  PROVE  ServedParts'
<1>1. saved'[a] = choice /\ (\A b \in SubIds \ {a} : saved'[b] = Anything \/ saved'[b] = saved[b])
      /\ \A b \in SubIds \ {a} : b \in damaged' <=> b \in damaged
  BY DEF Expect
<1>2. Saving(q) /\ Risk(q) = {a} /\ Risk(session[s]) = {}
  BY DEF Saving, Risk
<1>3. SaveOfNext(s, q)
  <2>1. CASE \E x \in Sessions \ {s} : a \in AtRisk(x)
    BY <2>1 DEF Expect, SaveOfNext
  <2>2. CASE ~\E x \in Sessions \ {s} : a \in AtRisk(x)
    <3>1. \A x \in Sessions \ {s} : a \notin Risk(session'[x])
      BY <2>2, Moved, RiskIsAtRisk
    <3>2. \A i \in 1..Len(ClientTypes) : ~(i < 1)
      BY Lengths
    <3> QED BY <1>1, <3>1, <3>2 DEF SaveOfNext
  <2> QED BY <2>1, <2>2
<1>4. ASSUME NEW x \in Sessions \ {s}, Saving(session[x])
      PROVE  Undisturbed(session[x].new, session[s], q)
  <2>1. session[x].new \in SubIds
    BY <1>4, OneRequest DEF FormOf
  <2>2. CASE session[x].new = a
    <3>1. a \in AtRisk(x)
      BY <1>4, <2>2, RiskIsAtRisk DEF Risk
    <3> QED BY <2>2, <3>1 DEF Expect, Undisturbed
  <2>3. CASE session[x].new # a
    BY <1>1, <1>2, <2>1, <2>3 DEF Undisturbed
  <2> QED BY <2>2, <2>3
<1>5. ASSUME NEW b \in SubIds PROVE Excused(b)' \/ Correct(b)'
  <2>1. CASE b = a
    BY <1>2, <2>1, RiskExcuses
  <2>2. CASE b # a /\ saved'[b] = Anything
    BY <2>2 DEF Excused, Lost
  <2>3. CASE b # a /\ saved'[b] = saved[b]
    BY <1>1, <1>2, <2>3, Untouched
  <2> QED BY <1>1, <2>1, <2>2, <2>3
<1> QED BY <1>3, <1>4, <1>5, SaveStep DEF ServedParts, ServedInv

\* A step after which the request is not saving, and that leaves the rows alone.
LEMMA QuietServed ==
  ASSUME RowsInv, NEW s \in Sessions, NEW q, Moves(s, q), ~Saving(q),
         templates' = templates, routing' = routing, damaged \subseteq damaged',
         \A b \in SubIds : saved'[b] = saved[b] \/ saved'[b] = Anything,
         \A b \in SubIds : b \in Risk(session[s]) => b \in damaged'
  PROVE  ServedParts'
<1>1. Risk(q) = {}
  BY DEF Risk
<1>2. SaveInv'
  <2>1. \A x \in Sessions \ {s} : Saving(session[x]) => Undisturbed(session[x].new, session[s], q)
    BY <1>1, OneRequest DEF FormOf, Undisturbed
  <2> QED BY <2>1, SaveStep DEF SaveOfNext
<1>3. ASSUME NEW b \in SubIds PROVE Excused(b)' \/ Correct(b)'
  <2>1. CASE saved'[b] = Anything
    BY <2>1 DEF Excused, Lost
  <2>2. CASE saved'[b] = saved[b]
    BY <2>2, Untouched
  <2> QED BY <2>1, <2>2
<1> QED BY <1>2, <1>3 DEF ServedParts, ServedInv

LEMMA CreateServed ==
  ASSUME RowsInv, NEW s \in Sessions, NEW u \in Users, NEW a \in SubIds, NEW choice \in Forms,
         Create(s, u, a, choice)
  PROVE  ServedParts'
<1> DEFINE q == [Idle EXCEPT !.pc = "types", !.kind = "save", !.user = u, !.new = a, !.choice = choice]
<1>1. Moves(s, q) /\ ~Saving(session[s])
  BY DEF Create, Begin, At, Moves, tables, Saving
<1>2. q.pc = "types" /\ q.kind = "save" /\ q.new = a /\ q.choice = choice /\ q.next = 1
  BY DEF Idle
<1>3. templates' = templates /\ routing' = routing /\ Expect(s, a, choice, a) /\ choice \in Choice
  BY SubscriberRowsAssumption DEF Create, tables
<1> HIDE DEF q
<1> QED BY <1>1, <1>2, <1>3, ExpectServed

LEMMA GetServed ==
  ASSUME RowsInv, NEW s \in Sessions, NEW u \in Users, NEW kind, NEW pc, Get(s, u, kind, pc),
         pc \in {"write", "remove"} \/ kind = "delete"
  PROVE  ServedParts'
<1> DEFINE q == [Idle EXCEPT !.pc = pc, !.kind = kind, !.user = u, !.old = subOf[u]]
<1>1. Moves(s, q) /\ Risk(session[s]) = {}
  BY DEF Get, Begin, At, Moves, tables, Risk, Saving
<1>2. ~Saving(q)
  BY DEF Saving, Idle
<1>3. templates' = templates /\ routing' = routing /\ saved' = saved /\ damaged' = damaged
  BY DEF Get, tables, history
<1> HIDE DEF q
<1> QED BY <1>1, <1>2, <1>3, QuietServed

LEMMA UpdateServed ==
  ASSUME RowsInv, NEW s \in Sessions, NEW a \in SubIds, NEW choice \in Forms, Update(s, a, choice)
  PROVE  ServedParts'
<1> DEFINE r == session[s]
           u == r.user
<1>1. r.pc = "write" /\ r.kind = "save" /\ r.next = 1 /\ r \in Request /\ ~Saving(r) /\ Risk(r) = {}
  BY OneRequest DEF Update, At, FormOf, Saving, Risk
<1>2. templates' = templates /\ routing' = routing /\ choice \in Choice
  BY SubscriberRowsAssumption DEF Update, tables
<1>3. CASE ~Exists(u) \/ \E v \in Users \ {u} : subOf[v] = a
  <2>1. Moves(s, Idle) /\ saved' = saved /\ damaged' = damaged
    BY <1>3 DEF Update, Finish, Moves, At, tables, history
  <2> QED BY <1>1, <1>2, <2>1, EndedRequest, QuietServed
<1>4. CASE ~(~Exists(u) \/ \E v \in Users \ {u} : subOf[v] = a)
  <2> DEFINE q == [r EXCEPT !.new = a, !.choice = choice, !.pc = IF r.old # a THEN "drop" ELSE "types"]
  <2>1. Moves(s, q) /\ Expect(s, a, choice, subOf[u])
    BY <1>1, <1>4 DEF Update, At, Moves, Request, tables
  <2>2. q.pc \in {"drop", "types"} /\ q.kind = "save" /\ q.new = a /\ q.choice = choice /\ q.next = 1
    BY <1>1 DEF Request
  <2> HIDE DEF q
  <2> QED BY <1>1, <1>2, <2>1, <2>2, ExpectServed
<1> QED BY <1>3, <1>4

\* A clean-up of an id, of its profiles or of its routing string: a user has
\* the id, and it is damaged, or nobody expects anything of it.
LEMMA DropServed ==
  ASSUME RowsInv, NEW s \in Sessions, DropAssignments(s) \/ DropRouting(s)
  PROVE  ServedParts'
<1> DEFINE r == session[s]
           q == [r EXCEPT !.pc = IF r.pc = "drop" THEN "dropRouting" ELSE AfterDrop(s)]
<1>1. r.pc \in {"drop", "dropRouting"} /\ r \in Request /\ r.kind \in {"save", "delete"} /\ r.next = 1
      /\ r.old \in SubIds /\ Free(r.old)
  BY OneRequest DEF DropAssignments, DropRouting, At, FormOf, RowsInv, FreedInv
<1>2. Moves(s, q) /\ saved' = saved /\ damaged' = damaged \cup Trampled(s)
  BY DEF DropAssignments, DropRouting, At, Moves
<1>3. \A b \in SubIds \ {r.old} : templates'[b] = templates[b] /\ routing'[b] = routing[b]
  BY DEF DropAssignments, DropRouting, RowsInv, StartInv, TypesInv, TypeOK
<1>4. q.kind = r.kind /\ q.new = r.new /\ q.choice = r.choice /\ q.next = r.next
      /\ q.pc = (IF r.pc = "drop" THEN "dropRouting" ELSE AfterDrop(s))
  BY <1>1 DEF Request
<1> HIDE DEF q
<1>5. Risk(q) = Risk(r) /\ (Saving(q) <=> Saving(r)) /\ q.pc # "routing"
  BY <1>1, <1>4 DEF Risk, Saving, AfterDrop
<1>6. saved'[r.old] = Anything \/ r.old \in damaged'
  BY <1>1, <1>2 DEF Free, Trampled
<1>7. SaveOfNext(s, q)
  <2>1. \A i \in 1..Len(ClientTypes) : ~(i < 1)
    BY Lengths
  <2>2. \A x \in Sessions \ {s} : session'[x] = session[x]
    BY <1>2, Moved
  <2>3. SaveOf(s)
    BY OneRequest
  <2> QED BY <1>1, <1>2, <1>4, <1>5, <2>1, <2>2, <2>3 DEF SaveOfNext, SaveOf, Lost
<1>8. ASSUME NEW x \in Sessions \ {s}, Saving(session[x])
      PROVE  Undisturbed(session[x].new, r, q)
  <2>1. session[x].new \in SubIds
    BY <1>8, OneRequest DEF FormOf
  <2> QED BY <1>2, <1>3, <1>5, <1>6, <2>1 DEF Undisturbed
<1>9. ASSUME NEW b \in SubIds PROVE Excused(b)' \/ Correct(b)'
  <2>1. CASE b = r.old
    BY <1>6, <2>1 DEF Excused, Lost
  <2>2. CASE b # r.old
    BY <1>2, <1>3, <1>5, <2>2, Untouched
  <2> QED BY <2>1, <2>2
<1> QED BY <1>2, <1>7, <1>8, <1>9, SaveStep DEF ServedParts, ServedInv

\* What other saves may rely on while s writes the profiles of its own id.
LEMMA OwnRows ==
  ASSUME RowsInv, NEW s \in Sessions, Saving(session[s]), NEW q, Moves(s, q),
         saved' = saved, damaged' = damaged, Risk(q) \subseteq Risk(session[s]),
         \A b \in SubIds \ {session[s].new} : templates'[b] = templates[b]
  PROVE  \A x \in Sessions \ {s} : Saving(session[x]) => Undisturbed(session[x].new, session[s], q)
<1> SUFFICES ASSUME NEW x \in Sessions \ {s}, Saving(session[x])
             PROVE  Undisturbed(session[x].new, session[s], q)
  OBVIOUS
<1>1. session[x].new \in SubIds
  BY OneRequest DEF FormOf
<1>2. CASE session[x].new = session[s].new
  BY <1>2, Rivals DEF Lost, Undisturbed
<1>3. CASE session[x].new # session[s].new
  BY <1>1, <1>3 DEF Undisturbed
<1> QED BY <1>2, <1>3

LEMMA SetTypeServed ==
  ASSUME RowsInv, NEW s \in Sessions, SetType(s)
  PROVE  ServedParts'
<1> DEFINE r == session[s]
           q == IF r.next <= Len(ClientTypes) THEN [r EXCEPT !.next = r.next + 1]
                                              ELSE [r EXCEPT !.pc = "routing"]
<1>1. r.pc = "types" /\ Saving(r) /\ r \in Request /\ r.new \in SubIds /\ r.choice \in Choice
      /\ r.next \in 1..(Len(ClientTypes) + 1)
  BY OneRequest DEF SetType, At, FormOf, Saving, Request
<1>2. Moves(s, q) /\ saved' = saved /\ damaged' = damaged /\ routing' = routing
  BY DEF SetType, At, Moves, history
<1>3. \A b \in SubIds \ {r.new} : templates'[b] = templates[b]
  BY DEF SetType, RowsInv, StartInv, TypesInv, TypeOK
<1>4. q.kind = r.kind /\ q.new = r.new /\ q.choice = r.choice /\ q.pc \in {"types", "routing"}
  BY <1>1 DEF Request
<1>5. \/ r.next \in 1..Len(ClientTypes) /\ q.pc = "types" /\ q.next = r.next + 1
      \/ r.next = Len(ClientTypes) + 1 /\ q.pc = "routing" /\ templates' = templates
  <2>1. CASE r.next <= Len(ClientTypes)
    BY <1>1, <2>1, Lengths DEF Request
  <2>2. CASE ~(r.next <= Len(ClientTypes))
    BY <1>1, <2>2, Lengths DEF Request, SetType
  <2> QED BY <2>1, <2>2
<1>6. r.next \in 1..Len(ClientTypes) =>
        templates' = [templates EXCEPT ![r.new][ClientTypes[r.next]] = r.choice.profile[ClientTypes[r.next]]]
  BY Lengths DEF SetType, RowFor
<1> HIDE DEF q
<1>7. Saving(q) /\ Risk(q) = Risk(r) /\ Risk(r) = {r.new}
  BY <1>1, <1>4 DEF Saving, Risk
<1>8. SaveOfNext(s, q)
  <2>1. CASE Lost(r.new)
    BY <1>2, <1>4, <2>1 DEF Lost, SaveOfNext
  <2>2. CASE ~Lost(r.new)
    <3>1. saved[r.new] = r.choice /\ Written(r) /\ \A x \in Sessions \ {s} : r.new \notin Risk(session[x])
      BY <1>1, <2>2, OneRequest DEF SaveOf
    <3>2. ASSUME NEW i \in 1..Len(ClientTypes), q.pc = "routing" \/ i < q.next
          PROVE  templates'[r.new][ClientTypes[i]] = r.choice.profile[ClientTypes[i]]
      <4>1. i < r.next => templates[r.new][ClientTypes[i]] = r.choice.profile[ClientTypes[i]]
        BY <1>1, <3>1 DEF Written
      <4>2. CASE q.pc = "routing"
        BY <1>5, <4>1, <4>2, Lengths
      <4>3. CASE q.pc = "types"
        <5>1. i < r.next \/ i = r.next
          BY <1>5, <3>2, <4>3, Lengths
        <5>2. templates \in [SubIds -> [Types -> Profiles \cup {NoRow}]]
          BY DEF RowsInv, StartInv, TypesInv, TypeOK
        <5>3. r.next \in 1..Len(ClientTypes)
          BY <1>5, <4>3
        <5>4. ClientTypes[i] \in Types /\ ClientTypes[r.next] \in Types
          BY <5>3, TypeOfClient
        <5>5. i < r.next => ClientTypes[i] # ClientTypes[r.next]
          BY <5>3, Lengths, SubscriberRowsAssumption
        <5>6. templates'[r.new][ClientTypes[r.next]] = r.choice.profile[ClientTypes[r.next]]
          BY <1>1, <1>6, <5>2, <5>3, <5>4
        <5>7. i < r.next => templates'[r.new][ClientTypes[i]] = templates[r.new][ClientTypes[i]]
          BY <1>1, <1>6, <5>2, <5>3, <5>4, <5>5
        <5> QED BY <4>1, <5>1, <5>6, <5>7
      <4> QED BY <1>4, <4>2, <4>3
    <3>3. \A x \in Sessions \ {s} : r.new \notin Risk(session'[x])
      BY <1>2, <3>1, Moved
    <3> QED BY <1>2, <1>4, <3>1, <3>2, <3>3 DEF SaveOfNext
  <2> QED BY <2>1, <2>2
<1>9. SaveInv'
  BY <1>1, <1>2, <1>3, <1>7, <1>8, OwnRows, SaveStep
<1>10. ASSUME NEW b \in SubIds PROVE Excused(b)' \/ Correct(b)'
  <2>1. CASE b = r.new
    BY <1>2, <1>7, <2>1, RiskExcuses
  <2>2. CASE b # r.new
    BY <1>2, <1>3, <1>7, <2>2, Untouched
  <2> QED BY <2>1, <2>2
<1> QED BY <1>9, <1>10 DEF ServedParts, ServedInv

LEMMA SetRoutingServed ==
  ASSUME RowsInv, NEW s \in Sessions, SetRouting(s)
  PROVE  ServedParts'
<1> DEFINE r == session[s]
<1>1. r.pc = "routing" /\ Saving(r) /\ r.choice \in Choice /\ r.new \in SubIds
  BY OneRequest DEF SetRouting, At, FormOf, Saving
<1>2. PICK a \in SubIds : a = r.new
  BY <1>1
<1>3. Moves(s, Idle) /\ saved' = saved /\ damaged' = damaged /\ templates' = templates
  BY DEF SetRouting, At, Finish, Moves, history
<1>4. /\ \A b \in SubIds \ {a} : routing'[b] = routing[b]
      /\ routing'[a] = [b64 |-> r.choice.code, config |-> IF routing[a] = NoRow THEN Blank ELSE routing[a].config]
  BY <1>2 DEF SetRouting, RowsInv, StartInv, TypesInv, TypeOK
<1>5. SaveInv'
  BY <1>1, <1>3, EndedRequest, OwnRows, SaveStep DEF SaveOfNext
<1>6. ASSUME NEW b \in SubIds PROVE Excused(b)' \/ Correct(b)'
  <2>1. Risk(r) = {a}
    BY <1>1, <1>2 DEF Risk
  <2>2. CASE b # a
    BY <1>3, <1>4, <2>1, <2>2, Untouched
  <2>3. CASE b = a /\ Lost(a)
    BY <1>3, <2>3 DEF Excused, Lost
  <2>4. CASE b = a /\ ~Lost(a)
    <3>1. saved[a] = r.choice /\ Written(r)
      BY <1>1, <1>2, <2>4, OneRequest DEF SaveOf
    <3>2. ASSUME NEW t \in Types PROVE ProfileDue(a, t)' = saved'[a].profile[t]
      <4>1. PICK i \in 1..Len(ClientTypes) : t = ClientTypes[i]
        BY DEF Types
      <4>2. templates[a][t] = r.choice.profile[t] /\ r.choice.profile[t] \in Profiles
        BY <1>1, <1>2, <3>1, <4>1, ChoiceParts DEF Written
      <4>3. legacy'[a] = NoRow
        BY <1>3, ServiceIsProc DEF RowsInv, StartInv, LegacyInv, HasLegacy, Moves
      <4> QED BY <1>3, <3>1, <4>2, <4>3, SubscriberRowsAssumption DEF ProfileDue, Resolve
    <3>3. RoutingGet(a)' = saved'[a].code
      <4>1. r.choice.code \in Code
        BY <1>1, ChoiceParts
      <4>2. routing'[a] \in [b64 : Code, config : Config]
        BY <1>4, <4>1 DEF RowsInv, StartInv, TypesInv, TypeOK, Config
      <4>3. routing'[a] # NoRow
        BY <4>2, SubscriberRowsAssumption
      <4> QED BY <1>3, <1>4, <3>1, <4>3 DEF RoutingGet
    <3> QED BY <2>4, <3>2, <3>3 DEF Correct
  <2> QED BY <2>2, <2>3, <2>4
<1> QED BY <1>5, <1>6 DEF ServedParts, ServedInv

LEMMA RemoveServed ==
  ASSUME RowsInv, NEW s \in Sessions, Remove(s)
  PROVE  ServedParts'
<1>1. Moves(s, Idle) /\ templates' = templates /\ routing' = routing /\ damaged' = damaged
  BY DEF Remove, At, Finish, Moves, tables
<1>2. Risk(session[s]) = {}
  BY DEF Remove, At, Risk, Saving
<1>3. \A b \in SubIds : saved'[b] = saved[b] \/ saved'[b] = Anything
  BY DEF Remove, RowsInv, StartInv, TypesInv, TypeOK
<1> QED BY <1>1, <1>2, <1>3, EndedRequest, QuietServed

LEMMA CallFailsServed ==
  ASSUME RowsInv, NEW s \in Sessions, CallFails(s)
  PROVE  ServedParts'
<1> DEFINE r == session[s]
<1>1. r \in Request /\ FormOf(r) /\ SaveOf(s)
  BY OneRequest
<1>2. /\ proc[Service] = "up" /\ templates' = templates /\ routing' = routing /\ saved' = saved
      /\ damaged \subseteq damaged'
      /\ r.pc \in {"types", "routing"} => Risk(r) \subseteq damaged'
  BY RiskIsAtRisk DEF CallFails, tables
<1>3. CASE r.pc \in {"drop", "dropRouting"}
  <2> DEFINE q == [r EXCEPT !.pc = IF r.pc = "drop" THEN "dropRouting" ELSE AfterDrop(s)]
  <2>1. Moves(s, q)
    BY <1>2, <1>3 DEF CallFails, Moves, tables
  <2>2. q.kind = r.kind /\ q.new = r.new /\ q.choice = r.choice /\ q.next = r.next
        /\ q.pc = (IF r.pc = "drop" THEN "dropRouting" ELSE AfterDrop(s))
    BY <1>1 DEF Request
  <2> HIDE DEF q
  <2>3. Risk(q) = Risk(r) /\ (Saving(q) <=> Saving(r)) /\ q.pc # "routing" /\ q.next = 1
    BY <1>1, <1>3, <2>2 DEF Risk, Saving, AfterDrop, FormOf
  <2>4. SaveOfNext(s, q)
    <3>1. \A i \in 1..Len(ClientTypes) : ~(i < 1)
      BY Lengths
    <3>2. \A x \in Sessions \ {s} : session'[x] = session[x]
      BY <2>1, Moved
    <3> QED BY <1>1, <1>2, <2>2, <2>3, <3>1, <3>2 DEF SaveOfNext, SaveOf, Lost
  <2>5. \A x \in Sessions \ {s} : Saving(session[x]) => Undisturbed(session[x].new, r, q)
    BY <1>2, <2>3 DEF Undisturbed
  <2>6. ServedInv'
    BY <1>2, <2>1, <2>3, Untouched DEF ServedInv
  <2> QED BY <2>1, <2>4, <2>5, <2>6, SaveStep DEF ServedParts
<1>4. CASE r.pc = "types"
  <2> DEFINE q == [r EXCEPT !.pc = "routing"]
  <2>1. Moves(s, q)
    BY <1>2, <1>4 DEF CallFails, Moves, tables
  <2>2. q.kind = r.kind /\ q.new = r.new /\ q.choice = r.choice /\ q.pc = "routing" /\ r.kind = "save"
    BY <1>1, <1>4 DEF Request, FormOf
  <2> HIDE DEF q
  <2>3. Risk(q) = Risk(r) /\ Risk(r) = {r.new}
    BY <1>4, <2>2 DEF Risk, Saving
  <2>4. SaveOfNext(s, q)
    BY <1>2, <1>4, <2>2, <2>3 DEF SaveOfNext
  <2>5. \A x \in Sessions \ {s} : Saving(session[x]) => Undisturbed(session[x].new, r, q)
    BY <1>2, <2>3 DEF Undisturbed
  <2>6. ServedInv'
    BY <1>2, <2>1, <2>3, Untouched DEF ServedInv
  <2> QED BY <2>1, <2>4, <2>5, <2>6, SaveStep DEF ServedParts
<1>5. CASE r.pc \notin {"drop", "dropRouting", "types"}
  <2>1. Moves(s, Idle)
    BY <1>2, <1>5 DEF CallFails, Finish, Moves, tables
  <2>2. \A b \in SubIds : b \in Risk(r) => b \in damaged'
    BY <1>2, <1>5 DEF Risk, Saving
  <2> QED BY <1>2, <2>1, <2>2, EndedRequest, QuietServed
<1> QED BY <1>3, <1>4, <1>5

LEMMA HandleServed ==
  ASSUME RowsInv, NEW s \in Sessions, Handle(s)
  PROVE  ServedParts'
<1>1. ASSUME NEW u \in Users, Get(s, u, "save", "write") \/ Get(s, u, "delete", "drop") \/ Get(s, u, "none", "remove")
      PROVE  ServedParts'
  BY <1>1, GetServed
<1> QED BY <1>1, CreateServed, UpdateServed, DropServed, SetTypeServed, SetRoutingServed,
           RemoveServed, CallFailsServed DEF Handle

-----------------------------------------------------------------------------
(* The migrations and the end of a process.                                *)

\* A step that leaves the requests and what is saved alone, and the profiles
\* unless no request is under way.
LEMMA OutsideSaves ==
  ASSUME RowsInv, session' = session, saved' = saved, subOf' = subOf, damaged \subseteq damaged',
         templates' = templates \/ \A s \in Sessions : session[s].pc = "idle"
  PROVE  FreedInv' /\ SaveInv' /\ \A a \in SubIds : Excused(a) => Excused(a)'
<1>1. FreedInv'
  BY DEF RowsInv, FreedInv, Free, Owned
<1>2. SaveInv'
  <2>1. CASE templates' = templates
    BY <2>1 DEF RowsInv, SaveInv, SaveOf, Lost, Written
  <2>2. CASE \A s \in Sessions : session[s].pc = "idle"
    BY <2>2 DEF SaveInv, SaveOf, Saving
  <2> QED BY <2>1, <2>2
<1> QED BY <1>1, <1>2 DEF Excused, Lost, AtWork

LEMMA AssignmentsServed ==
  ASSUME RowsInv, NEW m \in Procs, MigrateAssignments(m)
  PROVE  FreedInv' /\ ServedParts'
<1> USE DEF RowsInv, StartInv, TypesInv, TypeOK
<1>1. session' = session /\ saved' = saved /\ subOf' = subOf /\ damaged' = damaged
      /\ routing' = routing /\ todo' = todo
  BY DEF MigrateAssignments, history
<1>2. \/ templates' = templates /\ legacy' = legacy
      \/ /\ HasLegacy /\ legacy' = [a \in SubIds |-> NoRow]
         /\ templates' = [a \in SubIds |->
              IF legacy[a] = NoRow THEN templates[a] ELSE [t \in Types |-> legacy[a]]]
  BY DEF MigrateAssignments, Dropped
<1>3. HasLegacy => \A s \in Sessions : session[s].pc = "idle"
  BY ServiceIsProc DEF LegacyInv, BusyInv
<1>4. FreedInv' /\ SaveInv' /\ \A a \in SubIds : Excused(a) => Excused(a)'
  BY <1>1, <1>2, <1>3, OutsideSaves
<1>5. ASSUME NEW a \in SubIds, Correct(a) PROVE Correct(a)'
  <2>1. \A t \in Types : ProfileDue(a, t)' = ProfileDue(a, t)
    BY <1>2, SubscriberRowsAssumption DEF ProfileDue, Resolve
  <2>2. proc'[Service] = proc[Service] \/ (proc[Service] = "migrating" /\ proc'[Service] \in {"listing", "down"})
    BY ServiceIsProc DEF MigrateAssignments, Goto
  <2>3. Awaited(a) => Awaited(a)'
    BY <1>1, <2>2 DEF Awaited, Pending
  <2> QED BY <1>1, <1>5, <2>1, <2>3 DEF Correct, RoutingGet, Resurrected
<1> QED BY <1>4, <1>5 DEF ServedParts, ServedInv

\* A listed row is filled, or overwritten.
LEMMA FillServed ==
  ASSUME RowsInv, NEW m \in Procs, NEW b \in SubIds, Fill(m, b)
  PROVE  FreedInv' /\ ServedParts'
<1> USE DEF RowsInv, StartInv, TypesInv, TypeOK
<1>1. session' = session /\ saved' = saved /\ subOf' = subOf /\ damaged \subseteq damaged'
      /\ templates' = templates /\ legacy' = legacy /\ proc' = proc
  BY DEF Fill
<1>2. FreedInv' /\ SaveInv' /\ \A a \in SubIds : Excused(a) => Excused(a)'
  BY <1>1, OutsideSaves
<1>3. \A a \in SubIds, t \in Types : ProfileDue(a, t)' = ProfileDue(a, t)
  BY <1>1 DEF ProfileDue, Resolve
<1>4. ASSUME NEW a \in SubIds \ {b}, Correct(a) PROVE Correct(a)'
  <2>1. routing'[a] = routing[a] /\ todo'[Service][a] = todo[Service][a]
    BY ServiceIsProc DEF Fill
  <2> QED BY <1>1, <1>3, <1>4, <2>1 DEF Correct, RoutingGet, Resurrected, Awaited, Pending
<1>5. ASSUME Correct(b) PROVE Excused(b)' \/ Correct(b)'
  <2>1. CASE b \notin Pending /\ routing'[b] = routing[b]
    BY <1>1, <1>3, <1>5, <2>1 DEF Correct, RoutingGet, Resurrected, Awaited
  <2>2. CASE b \in Pending
    <3>1. routing[b] \in [b64 : Code, config : Config] /\ routing[b].b64 = Blank /\ routing[b].config # Blank
      BY <2>2 DEF Pending
    <3>2. todo[m][b] = routing[b].config
      BY <2>2 DEF Fill, TodoInv, Pending
    <3>3. routing'[b] = [routing[b] EXCEPT !.b64 = Encode[routing[b].config]]
      BY <2>2, <3>2 DEF Fill, Pending, Encoded
    <3>4. Encode[routing[b].config] \in Code
      BY <3>1, SubscriberRowsAssumption DEF Code, Config
    <3>5. routing'[b] \in [b64 : Code, config : Config] /\ routing'[b].config = routing[b].config
          /\ routing'[b].b64 = Encode[routing[b].config]
      BY <3>1, <3>3, <3>4
    <3>6. routing'[b] # NoRow /\ routing[b] # NoRow
      BY <3>1, <3>5, SubscriberRowsAssumption
    <3>7. RoutingGet(b) = Blank /\ RoutingGet(b)' = Encode[routing[b].config]
      BY <3>1, <3>5, <3>6 DEF RoutingGet
    <3>8. saved[b].code \in {Blank, Encode[routing[b].config]}
      BY <1>5, <3>1, <3>7 DEF Correct, Resurrected, Awaited
    <3> QED BY <1>1, <1>3, <1>5, <3>1, <3>5, <3>6, <3>7, <3>8 DEF Correct, Resurrected
  <2>3. CASE b \notin Pending /\ Overwrites(m, b)
    BY <2>3 DEF Fill, Excused, Lost
  <2>4. CASE b \notin Pending /\ ~Overwrites(m, b)
    <3>1. CASE \E s \in Sessions : b \in AtRisk(s)
      <4>1. AtWork(b)
        BY <3>1, RiskIsAtRisk DEF AtWork
      <4> QED BY <1>2, <4>1 DEF Excused
    <3>2. CASE routing[b] = NoRow
      BY <2>1, <2>4, <3>2 DEF Fill
    <3>3. CASE routing[b] # NoRow /\ routing[b].b64 = Encoded(m, b)
      <4>1. routing'[b] = [routing[b] EXCEPT !.b64 = routing[b].b64]
        BY <3>3 DEF Fill
      <4>2. routing[b] \in [b64 : Code, config : Config]
        BY <3>3
      <4>3. routing'[b] = routing[b]
        BY <4>1, <4>2
      <4> QED BY <2>1, <2>4, <4>3
    <3> QED BY <2>4, <3>1, <3>2, <3>3 DEF Overwrites
  <2> QED BY <2>2, <2>3, <2>4
<1>6. ASSUME NEW a \in SubIds PROVE Excused(a)' \/ Correct(a)'
  <2>1. CASE a = b
    BY <1>2, <1>5, <2>1 DEF ServedInv
  <2>2. CASE a # b
    BY <1>2, <1>4, <2>2 DEF ServedInv
  <2> QED BY <2>1, <2>2
<1> QED BY <1>2, <1>6 DEF ServedParts, ServedInv

LEMMA MigrateServed ==
  ASSUME RowsInv, NEW m \in Procs, Migrate(m)
  PROVE  FreedInv' /\ ServedParts'
<1> USE DEF RowsInv, StartInv, TypesInv, TypeOK
<1>1. CASE Look(m) \/ ListPending(m) \/ Migrated(m)
  <2>1. session' = session /\ saved' = saved /\ subOf' = subOf /\ damaged' = damaged
        /\ templates' = templates /\ legacy' = legacy /\ routing' = routing
    BY <1>1 DEF Look, ListPending, Migrated, tables, history
  <2>2. FreedInv' /\ SaveInv' /\ \A a \in SubIds : Excused(a) => Excused(a)'
    BY <2>1, OutsideSaves
  <2>3. ASSUME NEW a \in SubIds, Awaited(a) PROVE Awaited(a)'
    <3>1. a \in Pending /\ routing[a].config # Blank
      BY <2>3 DEF Awaited, Pending
    <3>2. CASE Look(m)
      BY <2>1, <2>3, <3>2, ServiceIsProc DEF Look, Goto, Awaited, Pending
    <3>3. CASE ListPending(m)
      <4>1. \/ proc'[Service] = proc[Service] /\ todo'[Service] = todo[Service]
            \/ proc'[Service] = "filling" /\ todo'[Service][a] = routing[a].config
        BY <3>1, <3>3, ServiceIsProc DEF ListPending, Goto
      <4> QED BY <2>1, <2>3, <3>1, <4>1 DEF Awaited, Pending
    <3>4. CASE Migrated(m)
      <4>1. todo' = todo /\ (m # Service => proc'[Service] = proc[Service])
        BY <3>4, ServiceIsProc DEF Migrated, Goto
      <4>2. m # Service
        BY <2>3, <3>4 DEF Migrated, NothingTodo, Awaited
      <4> QED BY <2>1, <2>3, <4>1, <4>2 DEF Awaited, Pending
    <3> QED BY <1>1, <3>2, <3>3, <3>4
  <2>4. ASSUME NEW a \in SubIds, Correct(a) PROVE Correct(a)'
    BY <2>1, <2>3, <2>4 DEF Correct, ProfileDue, Resolve, RoutingGet, Resurrected
  <2> QED BY <2>2, <2>4 DEF ServedParts, ServedInv
<1> QED BY <1>1, AssignmentsServed, FillServed DEF Migrate

LEMMA CrashServed ==
  ASSUME RowsInv, NEW m \in Procs, Crash(m)
  PROVE  FreedInv' /\ ServedParts'
<1> USE DEF RowsInv, StartInv, TypesInv, TypeOK
<1>1. saved' = saved /\ subOf' = subOf /\ templates' = templates /\ legacy' = legacy /\ routing' = routing
      /\ damaged \subseteq damaged'
  BY DEF Crash, tables
<1>2. FreedInv' /\ SaveInv' /\ \A a \in SubIds : Excused(a) => Excused(a)'
  <2>1. CASE m = Service
    <3>1. \A s \in Sessions : session'[s].pc = "idle"
      BY <2>1 DEF Crash, Idle
    <3>2. FreedInv' /\ SaveInv'
      BY <3>1 DEF FreedInv, SaveInv, SaveOf, Saving
    <3>3. \A a \in SubIds : AtWork(a) => a \in damaged'
      BY <2>1, RiskIsAtRisk DEF AtWork, Crash
    <3> QED BY <1>1, <3>2, <3>3 DEF Excused, Lost
  <2>2. CASE m # Service
    BY <1>1, <2>2, OutsideSaves DEF Crash
  <2> QED BY <2>1, <2>2
<1>3. ASSUME NEW a \in SubIds, Correct(a) PROVE Correct(a)'
  <2>1. \/ proc'[Service] = "down"
        \/ proc'[Service] = proc[Service] /\ todo'[Service] = todo[Service]
    BY ServiceIsProc DEF Crash, Goto
  <2>2. Awaited(a) => Awaited(a)'
    BY <1>1, <2>1 DEF Awaited, Pending
  <2> QED BY <1>1, <1>3, <2>2 DEF Correct, ProfileDue, Resolve, RoutingGet, Resurrected
<1> QED BY <1>2, <1>3 DEF ServedParts, ServedInv

LEMMA NextRows == RowsInv /\ [Next]_vars => RowsInv'
<1> SUFFICES ASSUME RowsInv, [Next]_vars PROVE RowsInv'
  OBVIOUS
<1>1. StartInv'
  BY NextTypes, NextLegacy, NextTodo DEF RowsInv, StartInv
<1>2. FreedInv' /\ ServedParts'
  <2>1. CASE UNCHANGED vars
    BY <2>1 DEF vars, tables, history, RowsInv, ServedParts, FreedInv, Free, Owned, SaveInv, SaveOf, Written,
                ServedInv, Excused, Lost, AtWork, Correct, ProfileDue, Resolve, RoutingGet, Resurrected,
                Awaited, Pending
  <2> QED BY <2>1, MigrateServed, CrashServed, HandleServed, HandleFreed DEF Next
<1> QED BY <1>1, <1>2 DEF RowsInv, ServedParts

\* A subscriber is served what the admin last saved for its id, whatever the
\* order in which any number of requests, for one user or for several, write
\* the tables, and through every failing call, restart and migration of any
\* number of processes that ServedAsSaved does not name as an exception.
THEOREM SavedIsServed == Spec => []ServedAsSaved
<1>1. RowsInv => ServedAsSaved
  <2> SUFFICES ASSUME RowsInv, proc[Service] = "up", NEW a \in SubIds
               PROVE  \/ saved[a] = Anything
                      \/ a \in damaged
                      \/ \E s \in Sessions : a \in AtRisk(s)
                      \/ /\ \A t \in Types : Resolve(a, t) = saved[a].profile[t]
                         /\ RoutingGet(a) = saved[a].code \/ Resurrected(a)
    BY DEF ServedAsSaved
  <2>1. AtWork(a) => \E s \in Sessions : a \in AtRisk(s)
    BY RiskIsAtRisk DEF AtWork
  <2>2. legacy[a] = NoRow /\ ~Awaited(a)
    BY ServiceIsProc DEF RowsInv, StartInv, LegacyInv, HasLegacy, Awaited
  <2> QED BY <2>1, <2>2 DEF RowsInv, ServedInv, Excused, Lost, Correct, ProfileDue
<1> QED BY <1>1, RowsInit, NextRows, PTL DEF Spec
=============================================================================
