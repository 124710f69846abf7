--------------------------- MODULE PanelSyncProofs ---------------------------
(***************************************************************************)
(* What is proved of the outbox alone (SyncJobsProofs) holds of it in the  *)
(* whole write path: PanelSync takes no step with the outbox that SyncJobs *)
(* does not have.  For that the handlers must be known to enqueue only     *)
(* rows of the right shape, which is AdminInv.                             *)
(*                                                                         *)
(* The second half proves that the whole does its work (RestsInSync).  The *)
(* inductive invariant SyncInv says of every moment, and not only of rest, *)
(* what the jobs enqueued for a name come to (DbInv: the assignments and   *)
(* the content of its user, but for what a request under way has still to  *)
(* enqueue) and what the panel has made of those pushed so far             *)
(* (ClientsInv).                                                           *)
(***************************************************************************)
EXTENDS PanelSync, SyncJobsProofs

\* The types of the database and of the requests; and a request under way has
\* read its user and has a version of its own.
AdminInv ==
  /\ user \in [Users -> Content \cup {Unborn, Gone}]
  /\ assigned \in [Users -> SUBSET Inbounds]
  /\ renamed \in SUBSET Emails
  /\ session \in [Sessions -> Session]
  /\ ops \in 0..MaxOps
  /\ \A s \in Sessions : session[s].pc # "idle" =>
       session[s].seen \in Content /\ session[s].num \in 1..MaxOps

SessionsOK ==
  /\ session \in [Sessions -> Session]
  /\ \A s \in Sessions : session[s].pc # "idle" =>
       session[s].seen \in Content /\ session[s].num \in 1..MaxOps

-----------------------------------------------------------------------------
(* What the handlers' helpers do to the sessions.                          *)

LEMMA IdleTyped == Idle \in Session /\ Idle.pc = "idle"
  BY PanelSyncAssumption DEF Idle, Session

\* A row built for a request under way is one the outbox can hold.
LEMMA JobTyped ==
  ASSUME SessionsOK, NEW s \in Sessions, session[s].pc # "idle"
  PROVE  /\ \A op \in Ops \ {"delete"} : \A i \in Inbounds : Job(s, op, i) \in Rows
         /\ Job(s, "delete", 0) \in Rows
  BY PanelSyncAssumption DEF SessionsOK, Session, Job, JobRows

\* A request that ends leaves nothing behind.
LEMMA FinishTyped ==
  ASSUME SessionsOK, NEW s \in Sessions, Finish(s)
  PROVE  SessionsOK'
  BY IdleTyped DEF SessionsOK, Finish

\* A request that goes on keeps what it read.
LEMMA TodoTyped ==
  ASSUME SessionsOK, NEW s \in Sessions, session[s].pc # "idle",
         NEW T \in SUBSET Rows, Todo(s, T)
  PROVE  SessionsOK'
<1>1. CASE T = {} /\ session[s].kind # "delete"
  BY <1>1, FinishTyped DEF Todo
<1>2. CASE ~(T = {} /\ session[s].kind # "delete")
  <2>1. session' = [session EXCEPT ![s].todo = T,
                      ![s].pc = IF T = {} THEN "remove" ELSE "enqueue"]
    BY <1>2 DEF Todo
  <2> DEFINE next == IF T = {} THEN "remove" ELSE "enqueue"
             new == [session[s] EXCEPT !.todo = T, !.pc = next]
  <2>2. session[s] \in Session /\ session[s].seen \in Content /\ session[s].num \in 1..MaxOps
    BY DEF SessionsOK
  <2>3. next \in {"remove", "enqueue"}
    OBVIOUS
  <2> HIDE DEF next
  <2>4. new \in Session /\ new.seen \in Content /\ new.num \in 1..MaxOps
    BY <2>2, <2>3 DEF Session
  <2>5. session' = [session EXCEPT ![s] = new]
    BY <2>1 DEF next, SessionsOK
  <2> HIDE DEF new
  <2> QED
    BY <2>4, <2>5 DEF SessionsOK
<1> QED
  BY <1>1, <1>2

-----------------------------------------------------------------------------
LEMMA AdminInvariant == PanelSpec => []AdminInv
<1> USE DEF AdminInv
<1>1. PanelInit => AdminInv
  BY PanelSyncAssumption, IdleTyped DEF PanelInit
<1>2. AdminInv /\ [PanelNext]_vars => AdminInv'
  <2> SUFFICES ASSUME AdminInv, [PanelNext]_vars PROVE AdminInv'
    OBVIOUS
  <2>0. SessionsOK
    BY DEF SessionsOK
  <2>1. ASSUME NEW u \in Users, NEW e \in Emails, CreateUser(u, e) PROVE AdminInv'
    <3>1. [email |-> e, ver |-> ops + 1, on |-> TRUE] \in Content /\ ops' \in 0..MaxOps
      BY <2>1, PanelSyncAssumption DEF CreateUser, Content
    <3> QED
      BY <2>1, <3>1 DEF CreateUser
  <2>2. ASSUME NEW s \in Sessions, NEW k \in Kinds, NEW u \in Users, Begin(s, k, u)
        PROVE  AdminInv'
    <3>1. ops + 1 \in 1..MaxOps /\ ops' \in 0..MaxOps
      BY <2>2, PanelSyncAssumption DEF Begin
    <3>2. user[u] \in Content
      BY <2>2 DEF Begin, Exists
    <3> DEFINE first == IF k \in {"reset", "delete"} THEN "list" ELSE "write"
               num == ops + 1
               new == [Idle EXCEPT !.pc = first, !.kind = k, !.user = u,
                                   !.seen = user[u], !.num = num]
    <3>3. session' = [session EXCEPT ![s] = new]
      BY <2>2 DEF Begin
    <3>4. first \in {"list", "write"} /\ num \in 1..MaxOps /\ num \in 0..MaxOps
      BY <3>1
    <3> HIDE DEF first, num
    <3>5. new \in Session /\ new.seen \in Content /\ new.num \in 1..MaxOps
      BY <3>2, <3>4, IdleTyped DEF Session
    <3> HIDE DEF new
    <3> QED
      BY <2>2, <3>1, <3>3, <3>5 DEF Begin, db
  <2>3. ASSUME NEW s \in Sessions, Proceed(s) PROVE AdminInv'
    <3>1. ASSUME NEW e \in Emails, Update(s, e) PROVE AdminInv'
      <4> DEFINE u == session[s].user
      <4>1. u \in Users /\ session[s].num \in 1..MaxOps
        BY <3>1 DEF Update, At, Session
      <4>2. CASE Exists(u) /\ ~Taken(e, u)
        <5>1. [user[u] EXCEPT !.email = e, !.ver = session[s].num] \in Content
          BY <4>1, <4>2 DEF Exists, Content
        <5>2. user' = [user EXCEPT ![u].email = e, ![u].ver = session[s].num]
              /\ renamed' = renamed \cup Renames(u, e)
              /\ session' = [session EXCEPT ![s].pc = "reread"]
          BY <3>1, <4>2 DEF Update
        <5>3. user' \in [Users -> Content \cup {Unborn, Gone}]
          BY <4>1, <5>1, <5>2
        <5>4. renamed' \in SUBSET Emails
          BY <3>1, <4>2, <5>2 DEF Renames, Exists, Content
        <5> QED
          BY <3>1, <5>2, <5>3, <5>4 DEF Update, At, Session
      <4>3. CASE ~(Exists(u) /\ ~Taken(e, u))
        BY <2>0, <3>1, <4>3, FinishTyped DEF Update, SessionsOK
      <4> QED
        BY <4>2, <4>3
    <3>2. CASE Regenerate(s)
      <4> DEFINE u == session[s].user
      <4>1. u \in Users /\ session[s].num \in 1..MaxOps
        BY <3>2 DEF Regenerate, At, Session
      <4>2. CASE Exists(u)
        <5>1. [user[u] EXCEPT !.ver = session[s].num] \in Content
          BY <4>1, <4>2 DEF Exists, Content
        <5>2. user' = [user EXCEPT ![u].ver = session[s].num]
              /\ session' = [session EXCEPT ![s].pc = "reread"]
          BY <3>2, <4>2 DEF Regenerate
        <5>3. user' \in [Users -> Content \cup {Unborn, Gone}]
          BY <4>1, <5>1, <5>2
        <5> QED
          BY <3>2, <5>2, <5>3 DEF Regenerate, At, Session
      <4>3. CASE ~Exists(u)
        BY <2>0, <3>2, <4>3, FinishTyped DEF Regenerate, SessionsOK
      <4> QED
        BY <4>2, <4>3
    <3>3. CASE Reread(s)
      <4> DEFINE u == session[s].user
      <4>1. CASE Exists(u)
        <5>1. session' = [session EXCEPT ![s].seen = user[u], ![s].pc = "list"]
          BY <3>3, <4>1 DEF Reread, Seen
        <5> QED
          BY <3>3, <4>1, <5>1 DEF Reread, At, Exists, Session, db
      <4>2. CASE ~Exists(u)
        BY <2>0, <3>3, <4>2, FinishTyped DEF Reread, SessionsOK, db
      <4> QED
        BY <4>1, <4>2
    <3>4. ASSUME NEW on \in BOOLEAN, Switch(s, on) PROVE AdminInv'
      <4> DEFINE u == session[s].user
      <4>1. u \in Users /\ session[s].seen \in Content
        BY <3>4 DEF Switch, At, Session
      <4>2. CASE Exists(u)
        <5>1. [user[u] EXCEPT !.on = on] \in Content /\ [session[s].seen EXCEPT !.on = on] \in Content
          BY <4>1, <4>2 DEF Exists, Content
        <5>2. user' = [user EXCEPT ![u].on = on]
              /\ session' = [session EXCEPT ![s].seen.on = on, ![s].pc = "list"]
          BY <3>4, <4>2 DEF Switch
        <5>3. user' \in [Users -> Content \cup {Unborn, Gone}]
          BY <4>1, <5>1, <5>2
        <5> QED
          BY <3>4, <5>1, <5>2, <5>3 DEF Switch, At, Session
      <4>3. CASE ~Exists(u)
        BY <2>0, <3>4, <4>3, FinishTyped DEF Switch, SessionsOK
      <4> QED
        BY <4>2, <4>3
    <3>5. CASE List(s)
      <4> DEFINE mine == assigned[session[s].user]
      <4>1. mine \subseteq Inbounds /\ session[s].pc # "idle"
        BY <3>5 DEF List, At, Session
      <4>2. /\ \A op \in Ops \ {"delete"} : \A i \in Inbounds : Job(s, op, i) \in Rows
            /\ Job(s, "delete", 0) \in Rows
        BY <2>0, <4>1, JobTyped
      <4>3. JobsFor(s, mine) \in SUBSET Rows
        BY <4>1, <4>2 DEF JobsFor, Ops
      <4>4. SessionsOK'
        BY <2>0, <3>5, <4>1, <4>3, TodoTyped DEF List
      <4> QED
        BY <3>5, <4>4 DEF List, SessionsOK, db
    <3>6. CASE ReadCurrent(s)
      BY <3>6 DEF ReadCurrent, At, Session, db
    <3>7. ASSUME NEW desired \in SUBSET Inbounds, SetInbounds(s, desired) PROVE AdminInv'
      <4> DEFINE u == session[s].user
                 added == desired \ session[s].current
                 removed == session[s].current \ desired
                 T == {Job(s, "assign", i) : i \in added} \cup {Job(s, "unassign", i) : i \in removed}
      <4>1. u \in Users /\ session[s].pc # "idle" /\ added \subseteq Inbounds /\ removed \subseteq Inbounds
        BY <3>7 DEF SetInbounds, At, Session
      <4>2. CASE added # {} /\ (~Exists(u) \/ added \cap assigned[u] # {})
        BY <2>0, <3>7, <4>2, FinishTyped DEF SetInbounds, SessionsOK
      <4>3. CASE ~(added # {} /\ (~Exists(u) \/ added \cap assigned[u] # {}))
        <5>1. assigned' = [assigned EXCEPT ![u] = (@ \ removed) \cup added] /\ Todo(s, T)
          BY <3>7, <4>3 DEF SetInbounds
        <5>2. \A op \in Ops \ {"delete"} : \A i \in Inbounds : Job(s, op, i) \in Rows
          BY <2>0, <4>1, JobTyped
        <5>3. T \in SUBSET Rows
          BY <4>1, <5>2 DEF Ops
        <5>4. SessionsOK'
          BY <2>0, <4>1, <5>1, <5>3, TodoTyped
        <5>5. assigned' \in [Users -> SUBSET Inbounds]
          BY <4>1, <5>1
        <5> QED
          BY <3>7, <5>4, <5>5 DEF SetInbounds, SessionsOK
      <4> QED
        BY <4>2, <4>3
    <3>8. CASE RemoveUser(s)
      BY <2>0, <3>8, FinishTyped DEF RemoveUser, SessionsOK
    <3> QED
      BY <2>3, <3>1, <3>2, <3>3, <3>4, <3>5, <3>6, <3>7, <3>8 DEF Proceed
  <2>4. ASSUME NEW s \in Sessions, CallFails(s) PROVE AdminInv'
    BY <2>0, <2>4, FinishTyped DEF CallFails, SessionsOK, db
  <2>5. ASSUME NEW s \in Sessions, NEW r \in session[s].todo, EnqueueFails(s, r)
        PROVE  AdminInv'
    <3>1. session[s].todo \ {r} \in SUBSET Rows /\ session[s].pc # "idle"
      BY <2>5 DEF EnqueueFails, At, Session
    <3>2. SessionsOK'
      BY <2>0, <2>5, <3>1, TodoTyped, FinishTyped DEF EnqueueFails
    <3> QED
      BY <2>5, <3>2 DEF EnqueueFails, SessionsOK, db
  <2>6. ASSUME NEW s \in Sessions, EnqueueNext(s) PROVE AdminInv'
    <3>1. PICK r \in session[s].todo : At(s, "enqueue") /\ Todo(s, session[s].todo \ {r})
                                       /\ UNCHANGED <<db, ops>>
      BY <2>6 DEF EnqueueNext
    <3>2. session[s].todo \ {r} \in SUBSET Rows /\ session[s].pc # "idle"
      BY <3>1 DEF At, Session
    <3>3. SessionsOK'
      BY <2>0, <3>1, <3>2, TodoTyped
    <3> QED
      BY <3>1, <3>3 DEF SessionsOK, db
  <2>7. CASE PushAny
    BY <2>7 DEF PushAny, Push, db
  <2>8. CASE Elsewhere \/ UNCHANGED vars
    BY <2>8 DEF Elsewhere, vars, adminVars
  <2>9. CASE Dies
    BY <2>9, IdleTyped DEF Dies, DropSessions, db
  <2> QED
    BY <2>1, <2>2, <2>3, <2>4, <2>5, <2>6, <2>7, <2>8, <2>9 DEF PanelNext, Request
<1> QED
  BY <1>1, <1>2, PTL DEF PanelSpec

-----------------------------------------------------------------------------
\* The handlers and the Worker, with the panel behind them, use the outbox only
\* as SyncJobs says: every step of the whole is a step of it or leaves it alone.
THEOREM OutboxImplemented == PanelSpec => Spec
<1>1. PanelInit => Init
  BY DEF PanelInit
<1>2. AdminInv /\ [PanelNext]_vars => [Next]_jobVars
  <2> SUFFICES ASSUME AdminInv, [PanelNext]_vars PROVE [Next]_jobVars
    OBVIOUS
  <2>1. CASE Request
    BY <2>1 DEF Request
  <2>2. ASSUME NEW s \in Sessions, EnqueueNext(s) PROVE Next
    <3>1. PICK r \in session[s].todo : Enqueue(r)
      BY <2>2 DEF EnqueueNext
    <3>2. r \in Rows
      BY <3>1 DEF AdminInv, Session
    <3> QED
      BY <3>1, <3>2 DEF Next
  <2>3. CASE PushAny
    BY <2>3 DEF PushAny, Push, Next, Tick, DispatchAny
  <2>4. CASE Elsewhere
    BY <2>4 DEF Elsewhere, Next, Tick
  <2>5. CASE Dies
    BY <2>5 DEF Dies, Next
  <2>6. CASE UNCHANGED vars
    BY <2>6 DEF vars
  <2> QED
    BY <2>1, <2>2, <2>3, <2>4, <2>5, <2>6 DEF PanelNext
<1> QED
  BY <1>1, <1>2, AdminInvariant, PTL DEF PanelSpec, Spec

\* In the whole write path too, no job leaves the outbox undone: whatever the
\* handlers, the panel and the process do.
COROLLARY NothingLostInTheWhole == PanelSpec => []NothingLostUnpushed
  BY OutboxImplemented, NothingLost, PTL

-----------------------------------------------------------------------------
(* The panel.                                                              *)

\* Every id handed out has a row the handlers wrote.
RowsWritten == \A j \in 1..lastId : row[j] \in Rows

LEMMA RowsAreWritten == Spec => []RowsWritten
<1> USE DEF RowsWritten
<1>1. Init => RowsWritten
  BY DEF Init
<1>2. TypeOK /\ RowsWritten /\ [Next]_jobVars => RowsWritten'
  <2> SUFFICES ASSUME TypeOK, RowsWritten, [Next]_jobVars PROVE RowsWritten'
    OBVIOUS
  <2>1. ASSUME NEW r \in Rows, Enqueue(r) PROVE RowsWritten'
    <3>1. lastId \in Nat /\ 1..lastId \subseteq JobId
      BY SyncJobsAssumption DEF TypeOK, JobId
    <3>2. lastId + 1 \in JobId
      BY <2>1, NewId
    <3> QED
      BY <2>1, <3>1, <3>2 DEF Enqueue, TypeOK
  <2>2. CASE UNCHANGED <<lastId, row>>
    BY <2>2
  <2> QED
    BY <2>1, <2>2
       DEF Next, Tick, DispatchAny, MarkAny, Retry, Reap, Claim, Dispatch, Mark, Prune,
           Shutdown, Exit, Crash, Restart, TimePasses, table, jobVars
<1> QED
  BY <1>1, <1>2, TypeCorrect, PTL DEF Spec

\* A job the Worker holds has a row.
LEMMA ClaimedHasRow ==
  ASSUME TypeOK, BatchInv, RowsWritten, NEW j \in DOMAIN batch
  PROVE  j \in 1..lastId /\ row[j] \in Rows
<1>1. j \in JobId /\ j \in Nat /\ j >= 1 /\ lastId \in Nat
  BY SyncJobsAssumption DEF TypeOK, JobId
<1>2. ~(j > lastId)
  BY <1>1 DEF BatchInv, FreshIds, WorkerOwnsItsBatch
<1> QED
  BY <1>1, <1>2 DEF RowsWritten

ClientOf == [Emails -> Client \cup {NoClient}]

\* A job the panel carries out leaves a client or none.
LEMMA AfterTyped ==
  ASSUME panel \in ClientOf, NEW r \in Rows, ~Refuses(r)
  PROVE  After(r) \subseteq Client \cup {NoClient}
<1> DEFINE c == panel[r.payload.email]
           rest == c.inbounds \ {r.inbound}
<1>1. /\ r.payload.email \in Emails /\ r.payload.ver \in 1..MaxOps /\ r.payload.on \in BOOLEAN
      /\ r.op \in Ops /\ (r.op # "delete" => r.inbound \in Inbounds)
  BY PanelSyncAssumption DEF JobRows, Content, Ops
<1>2. c \in Client \cup {NoClient}
  BY <1>1 DEF ClientOf
<1>3. CASE c = NoClient
  <2>1. CASE r.op = "assign"
    BY <1>1, <1>3, <2>1 DEF After, Client
  <2>2. CASE r.op # "assign"
    BY <1>1, <1>3, <2>2 DEF After, Refuses, Ops
  <2> QED
    BY <2>1, <2>2
<1>4. CASE c # NoClient
  <2>0. c \in Client
    BY <1>2, <1>4
  <2>1. CASE r.op = "assign"
    <3>1. [c EXCEPT !.inbounds = @ \cup {r.inbound}] \in Client
      BY <1>1, <2>0, <2>1 DEF Client
    <3>2. After(r) = {[c EXCEPT !.inbounds = @ \cup {r.inbound}]}
      BY <1>4, <2>1 DEF After
    <3> QED
      BY <3>1, <3>2
  <2>2. CASE r.op = "update"
    <3>1. [c EXCEPT !.ver = r.payload.ver, !.on = r.payload.on] \in Client
      BY <1>1, <2>0 DEF Client
    <3>2. After(r) = {[c EXCEPT !.ver = r.payload.ver, !.on = r.payload.on]}
      BY <2>2 DEF After
    <3> QED
      BY <3>1, <3>2
  <2>3. CASE r.op = "delete"
    BY <2>3 DEF After
  <2>4. CASE r.op = "reset"
    <3>1. [c EXCEPT !.on = TRUE] \in Client
      BY <2>0 DEF Client
    <3>2. After(r) = {[c EXCEPT !.on = TRUE]}
      BY <1>4, <2>4 DEF After
    <3> QED
      BY <3>1, <3>2
  <2>5. CASE r.op = "unassign"
    <3>1. [c EXCEPT !.inbounds = rest] \in Client /\ [c EXCEPT !.inbounds = {}] \in Client
      BY <2>0 DEF Client
    <3>2. \/ After(r) = {[c EXCEPT !.inbounds = rest]}
          \/ After(r) \subseteq {NoClient, [c EXCEPT !.inbounds = {}]}
      BY <1>4, <2>5 DEF After
    <3> QED
      BY <3>1, <3>2
  <2> QED
    BY <1>1, <2>1, <2>2, <2>3, <2>4, <2>5 DEF Ops
<1> QED
  BY <1>3, <1>4

\* The panel and the history variables.
PanelInv ==
  /\ panel \in ClientOf
  /\ dbFaults \in 0..MaxDbFaults
  /\ missed \in BOOLEAN
  /\ lastPush \in [Emails -> 0..MaxJobs]
  /\ overtaken \in BOOLEAN
  /\ orphaned \in SUBSET Emails

LEMMA PanelInvariant == PanelSpec => []PanelInv
<1> USE PanelSyncAssumption, SyncJobsAssumption DEF PanelInv
<1>1. PanelInit => PanelInv
  <2> SUFFICES ASSUME PanelInit PROVE PanelInv
    OBVIOUS
  <2>1. missed \in BOOLEAN /\ overtaken \in BOOLEAN
    BY Zenon DEF PanelInit
  <2> QED
    BY <2>1 DEF PanelInit, ClientOf
<1>2. TypeOK /\ BatchInv /\ RowsWritten /\ PanelInv /\ [PanelNext]_vars => PanelInv'
  <2> SUFFICES ASSUME TypeOK, BatchInv, RowsWritten, PanelInv, [PanelNext]_vars PROVE PanelInv'
    OBVIOUS
  <2>1. CASE Request
    <3>1. UNCHANGED <<panel, lastPush, overtaken, orphaned>>
      BY <2>1 DEF Request, pushHistory
    <3>2. \/ UNCHANGED <<dbFaults, missed>>
          \/ \E s \in Sessions : DbFault(s)
      BY <2>1 DEF Request, CreateUser, Begin, Proceed, CallFails, EnqueueFails, Update,
                  Regenerate, Reread, Switch, List, ReadCurrent, SetInbounds, RemoveUser
    <3>3. dbFaults' \in 0..MaxDbFaults
      BY <3>2 DEF DbFault
    <3>4. missed' \in BOOLEAN
      BY <3>2, Zenon DEF DbFault
    <3> QED
      BY <3>1, <3>3, <3>4
  <2>2. ASSUME NEW s \in Sessions, EnqueueNext(s) PROVE PanelInv'
    BY <2>2 DEF EnqueueNext, pushHistory
  <2>3. ASSUME NEW j \in JobId, NEW answer \in Answer, Push(j, answer) PROVE PanelInv'
    <3>1. UNCHANGED <<dbFaults, missed>>
      BY <2>3 DEF Push
    <3>2. CASE answer = "err"
      BY <2>3, <3>1, <3>2 DEF Push, pushHistory
    <3>3. CASE answer # "err"
      <4> DEFINE e == row[j].payload.email
      <4>1. j \in DOMAIN batch /\ ~Refuses(row[j])
        BY <2>3, <3>3 DEF Push, Dispatch
      <4>2. row[j] \in Rows
        BY <4>1, ClaimedHasRow
      <4>3. e \in Emails
        BY <4>2 DEF JobRows, Content
      <4>4. PICK c \in After(row[j]) : /\ panel' = [panel EXCEPT ![e] = c]
                                      /\ orphaned' = Orphans(row[j], c)
        BY <2>3, <3>3 DEF Push
      <4>5. c \in Client \cup {NoClient}
        BY <4>1, <4>2, <4>4, AfterTyped
      <4>6. panel' \in ClientOf
        BY <4>3, <4>4, <4>5 DEF ClientOf
      <4>7. overtaken' \in BOOLEAN
        BY <2>3, <3>3 DEF Push
      <4>8. j \in 0..MaxJobs
        BY DEF JobId
      <4>9. lastPush' = [lastPush EXCEPT ![e] = IF j > @ THEN j ELSE @]
        BY <2>3, <3>3 DEF Push
      <4>10. lastPush' \in [Emails -> 0..MaxJobs]
        BY <4>3, <4>8, <4>9
      <4>11. orphaned' \in SUBSET Emails
        BY <4>3, <4>4 DEF Orphans
      <4> QED
        BY <3>1, <4>6, <4>7, <4>10, <4>11
    <3> QED
      BY <3>2, <3>3
  <2>4. CASE Elsewhere \/ UNCHANGED vars
    BY <2>4 DEF Elsewhere, vars, adminVars
  <2>5. CASE Dies
    BY <2>5 DEF Dies, DropSessions, pushHistory
  <2> QED
    BY <2>1, <2>2, <2>3, <2>4, <2>5 DEF PanelNext, PushAny
<1> QED
  BY <1>1, <1>2, OutboxImplemented, TypeCorrect, BatchInvariant, RowsAreWritten, PTL
     DEF PanelSpec

\* The database, the requests, the panel and the outbox keep their types; in
\* particular a handler only enqueues jobs that dispatch knows, and the panel's
\* clients only ever get inbounds and versions that exist.
THEOREM PanelTypeCorrect == PanelSpec => []PanelTypeOK
<1>1. TypeOK /\ AdminInv /\ PanelInv => PanelTypeOK
  BY DEF AdminInv, PanelInv, PanelTypeOK, ClientOf
<1> QED
  BY <1>1, OutboxImplemented, TypeCorrect, AdminInvariant, PanelInvariant, PTL
-----------------------------------------------------------------------------
(* What the jobs of a name come to.  R is the content of the outbox by id  *)
(* and its first n jobs are what counts.                                   *)

Names(q, e) == q.payload.email = e
Assigns(q, e, i) == Names(q, e) /\ q.op = "assign" /\ q.inbound = i
Cancels(q, e, i) == Names(q, e) /\ (q.op = "delete" \/ (q.op = "unassign" /\ q.inbound = i))
Updates(q, e) == Names(q, e) /\ q.op = "update"

\* Carried out in their order, they leave inbound i assigned to e.
Held(R, e, i, n) ==
  \E a \in 1..n : Assigns(R[a], e, i) /\ \A m \in (a + 1)..n : ~Cancels(R[m], e, i)

Lives(R, e, n) == \E i \in Inbounds : Held(R, e, i, n)

\* They leave no older content than c: a job that carries one is followed by
\* an update, or by a moment without any inbound.
Fresh(R, n, c) ==
  \A j \in 1..n : Names(R[j], c.email) /\ R[j].op \in {"assign", "update"} =>
    \/ R[j].payload = c
    \/ \E k \in (j + 1)..n : Updates(R[k], c.email)
    \/ \E k \in j..n : ~Lives(R, c.email, k)

\* They agree with the assignments A, but for the inbounds in I.
Agree(R, n, e, A, I) == \A i \in Inbounds \ I : i \in A <=> Held(R, e, i, n)

\* Only the first n jobs count.
LEMMA HeldSame ==
  ASSUME NEW R, NEW Q, NEW e, NEW i, NEW n \in Nat, \A m \in 1..n : R[m] = Q[m]
  PROVE  Held(R, e, i, n) <=> Held(Q, e, i, n)
<1>1. \A a \in 1..n : \A m \in (a + 1)..n : m \in 1..n
  OBVIOUS
<1> QED
  BY <1>1 DEF Held

LEMMA LivesSame ==
  ASSUME NEW R, NEW Q, NEW e, NEW n \in Nat, \A m \in 1..n : R[m] = Q[m]
  PROVE  Lives(R, e, n) <=> Lives(Q, e, n)
BY HeldSame DEF Lives

\* One more job, with jobs of other names before it.
LEMMA HeldNext ==
  ASSUME NEW R, NEW e, NEW i, NEW m \in Nat, NEW n \in Nat, m < n,
         \A k \in (m + 1)..(n - 1) : ~Names(R[k], e)
  PROVE  Held(R, e, i, n) <=> Assigns(R[n], e, i) \/ (Held(R, e, i, m) /\ ~Cancels(R[n], e, i))
<1>1. ASSUME Held(R, e, i, n), ~Assigns(R[n], e, i)
      PROVE  Held(R, e, i, m) /\ ~Cancels(R[n], e, i)
  <2>1. PICK a \in 1..n : Assigns(R[a], e, i) /\ \A k \in (a + 1)..n : ~Cancels(R[k], e, i)
    BY <1>1 DEF Held
  <2>2. a # n
    BY <1>1, <2>1
  <2>3. a \notin (m + 1)..(n - 1)
    BY <2>1 DEF Assigns
  <2>4. a \in 1..m /\ n \in (a + 1)..n
    BY <2>2, <2>3
  <2>5. \A k \in (a + 1)..m : k \in (a + 1)..n
    BY <2>4
  <2> QED
    BY <2>1, <2>4, <2>5 DEF Held
<1>2. ASSUME Assigns(R[n], e, i) PROVE Held(R, e, i, n)
  <2>1. n \in 1..n /\ \A k \in (n + 1)..n : FALSE
    OBVIOUS
  <2> QED
    BY <1>2, <2>1 DEF Held
<1>3. ASSUME Held(R, e, i, m), ~Cancels(R[n], e, i) PROVE Held(R, e, i, n)
  <2>1. PICK a \in 1..m : Assigns(R[a], e, i) /\ \A k \in (a + 1)..m : ~Cancels(R[k], e, i)
    BY <1>3 DEF Held
  <2>2. \A k \in (a + 1)..n : k \in (a + 1)..m \/ k \in (m + 1)..(n - 1) \/ k = n
    OBVIOUS
  <2>3. \A k \in (a + 1)..n : ~Cancels(R[k], e, i)
    BY <1>3, <2>1, <2>2 DEF Cancels
  <2> QED
    BY <2>1, <2>3 DEF Held
<1> QED
  BY <1>1, <1>2, <1>3

\* Jobs of other names make no difference.
LEMMA HeldGap ==
  ASSUME NEW R, NEW e, NEW i, NEW m \in Nat, NEW n \in Nat, m <= n,
         \A k \in (m + 1)..n : ~Names(R[k], e)
  PROVE  Held(R, e, i, n) <=> Held(R, e, i, m)
<1>1. CASE m = n
  BY <1>1
<1>2. CASE m < n
  <2>1. (\A k \in (m + 1)..(n - 1) : ~Names(R[k], e)) /\ n \in (m + 1)..n
    BY <1>2
  <2> QED
    BY <1>2, <2>1, HeldNext DEF Assigns, Cancels
<1> QED
  BY <1>1, <1>2

LEMMA LivesGap ==
  ASSUME NEW R, NEW e, NEW m \in Nat, NEW n \in Nat, m <= n,
         \A k \in (m + 1)..n : ~Names(R[k], e)
  PROVE  Lives(R, e, n) <=> Lives(R, e, m)
BY HeldGap DEF Lives

\* A client that has lost its last inbound has no old content to come back to.
LEMMA EmptyIsFresh ==
  ASSUME NEW R, NEW n \in Nat, NEW c, ~Lives(R, c.email, n)
  PROVE  Fresh(R, n, c)
BY DEF Fresh

\* A job of another name, or with the content c itself.
LEMMA FreshNext ==
  ASSUME NEW R, NEW Q, NEW n \in Nat, NEW c, \A m \in 1..n : R[m] = Q[m], Fresh(R, n, c),
         ~Names(Q[n + 1], c.email) \/ Q[n + 1].payload = c
  PROVE  Fresh(Q, n + 1, c)
<1> SUFFICES ASSUME NEW j \in 1..(n + 1), Names(Q[j], c.email), Q[j].op \in {"assign", "update"}
             PROVE  \/ Q[j].payload = c
                    \/ \E k \in (j + 1)..(n + 1) : Updates(Q[k], c.email)
                    \/ \E k \in j..(n + 1) : ~Lives(Q, c.email, k)
  BY DEF Fresh
<1>1. CASE j = n + 1
  BY <1>1
<1>2. CASE j \in 1..n
  <2>1. \/ R[j].payload = c
        \/ \E k \in (j + 1)..n : Updates(R[k], c.email)
        \/ \E k \in j..n : ~Lives(R, c.email, k)
    BY <1>2 DEF Fresh
  <2>2. \A k \in j..n : k \in Nat /\ k \in 1..n /\ k \in j..(n + 1) /\ \A m \in 1..k : m \in 1..n
    BY <1>2
  <2>3. \A k \in j..n : Lives(R, c.email, k) <=> Lives(Q, c.email, k)
    BY <2>2, LivesSame
  <2>4. \A k \in (j + 1)..n : k \in 1..n /\ k \in (j + 1)..(n + 1)
    BY <1>2
  <2> QED
    BY <1>2, <2>1, <2>2, <2>3, <2>4
<1>3. j = n + 1 \/ j \in 1..n
  OBVIOUS
<1> QED
  BY <1>1, <1>2, <1>3

\* An update with the content c.
LEMMA FreshUpdate ==
  ASSUME NEW Q, NEW n \in Nat, NEW c, Updates(Q[n + 1], c.email), Q[n + 1].payload = c
  PROVE  Fresh(Q, n + 1, c)
<1>1. \A j \in 1..(n + 1) : j = n + 1 \/ n + 1 \in (j + 1)..(n + 1)
  OBVIOUS
<1> QED
  BY <1>1 DEF Fresh

-----------------------------------------------------------------------------
(* The requests under way.                                                 *)

Busy(r) == r.pc # "idle"
Rewrites == {"update", "regenerate", "switch"}

\* A job a request has still to enqueue: it carries what the request last read,
\* and what it does to an inbound has been written to the database.
JobOf(r, q) ==
  /\ q.payload = r.seen
  /\ r.kind = "setInbounds" =>
       \/ q.op = "assign" /\ q.inbound \in assigned[r.user]
       \/ q.op = "unassign" /\ q.inbound \notin assigned[r.user]
  /\ r.kind = "delete" => q.op = "delete" /\ r.todo = {q}
  /\ r.kind = "reset" => q.op = "reset"
  /\ r.kind \in Rewrites => q.op = "update" /\ q.inbound \in assigned[r.user]

\* What a request under way knows of its user, nobody else being at work on it.
UnderWay(r) ==
  /\ r.user \in Users /\ Exists(r.user)
  /\ r.kind \in AllKinds
  /\ r.pc # "reread" => r.seen = user[r.user]
  /\ r.pc = "reread" => r.kind \in {"update", "regenerate"}
  /\ r.pc = "commit" => r.kind = "setInbounds" /\ r.current = assigned[r.user]
  /\ r.pc = "list" => r.kind # "setInbounds"
  /\ r.pc = "remove" => r.kind = "delete"
  /\ r.pc # "enqueue" => r.todo = {}
  /\ r.pc = "enqueue" => r.todo # {} /\ \A q \in r.todo : JobOf(r, q)

ShapeInv ==
  /\ \A u \in Users : ~Exists(u) => assigned[u] = {}
  /\ \A u, v \in Users : Exists(u) /\ Exists(v) /\ user[u].email = user[v].email => u = v
  /\ \A s \in Sessions : Busy(session[s]) => UnderWay(session[s])
  /\ \A s, t \in Sessions :
       Busy(session[s]) /\ Busy(session[t]) /\ session[s].user = session[t].user => s = t

-----------------------------------------------------------------------------
(* The database and the outbox.                                            *)

\* The inbounds a request is about to enqueue an assign or an unassign for.
Between(r) == {q.inbound : q \in {x \in r.todo : x.op \in {"assign", "unassign"}}}

\* The request has changed the content and not enqueued all its updates.
CatchingUp(r) == r.kind \in Rewrites /\ r.pc \in {"reread", "list", "enqueue"}

\* A user nobody is at work on: the jobs of its name come to its assignments
\* and its content.
Settled(u) ==
  /\ Agree(row, lastId, user[u].email, assigned[u], {})
  /\ Fresh(row, lastId, user[u])

\* A user that request r is at work on.
Working(r) ==
  /\ r.pc = "remove" => ~Lives(row, user[r.user].email, lastId)
  /\ r.pc # "remove" => Agree(row, lastId, user[r.user].email, assigned[r.user], Between(r))
  /\ ~CatchingUp(r) => Fresh(row, lastId, user[r.user])

Free(e) == \A u \in Users : Exists(u) => user[u].email # e
Left(u) == \A s \in Sessions : Busy(session[s]) => session[s].user # u

\* The jobs of the names that no user with inbounds was renamed from or to.
DbInv ==
  /\ \A e \in Emails \ renamed : Free(e) => ~Lives(row, e, lastId)
  /\ \A u \in Users : Exists(u) /\ Left(u) /\ user[u].email \notin renamed => Settled(u)
  /\ \A s \in Sessions :
       Busy(session[s]) /\ user[session[s].user].email \notin renamed => Working(session[s])
  /\ \A j \in 1..lastId : \A e \in Emails \ renamed : Updates(row[j], e) => Lives(row, e, j)

\* What is known of every state by now.
Base == TypeOK /\ BatchInv /\ RowsWritten /\ AdminInv /\ PanelInv /\ ShapeInv

\* The types in it.
LEMMA BaseTypes ==
  ASSUME Base
  PROVE  /\ user \in [Users -> Content \cup {Unborn, Gone}] /\ assigned \in [Users -> SUBSET Inbounds]
         /\ session \in [Sessions -> Session] /\ renamed \in SUBSET Emails
         /\ lastId \in Nat /\ \A j \in 1..lastId : row[j] \in JobRows
BY SyncJobsAssumption, PanelSyncAssumption DEF Base, AdminInv, TypeOK, RowsWritten

\* A step of session s, at work on user u.
Moves(s, u, q) ==
  /\ session' = [session EXCEPT ![s] = q]
  /\ Busy(session[s]) => session[s].user = u
  /\ Busy(q) => q.user = u
  /\ \A t \in Sessions : t # s /\ Busy(session[t]) => session[t].user # u
  /\ \A v \in Users \ {u} : user'[v] = user[v] /\ assigned'[v] = assigned[v]
  /\ renamed \subseteq renamed'

\* Nobody else moves with it.
LEMMA Moved ==
  ASSUME Base, NEW s \in Sessions, NEW u, NEW q, Moves(s, u, q)
  PROVE  session'[s] = q /\ \A t \in Sessions : t # s => session'[t] = session[t]
BY BaseTypes DEF Moves

\* What its new record has to say for ShapeInv to stay.
LEMMA ShapeStep ==
  ASSUME Base, NEW s \in Sessions, NEW u \in Users, NEW q, Moves(s, u, q),
         \A v \in Users \ {u} : Exists(u)' /\ Exists(v) => user[v].email # user'[u].email,
         ~Exists(u)' => assigned'[u] = {},
         Busy(q) => UnderWay(q)'
  PROVE  ShapeInv'
<1>0. \A v \in Users : ~Exists(v)' => assigned'[v] = {}
  BY DEF Base, ShapeInv, Exists, Moves
<1>1. \A v, w \in Users : Exists(v)' /\ Exists(w)' /\ user'[v].email = user'[w].email => v = w
  BY DEF Base, ShapeInv, Exists, Moves
<1>2. ASSUME NEW t \in Sessions, NEW r, r = session'[t], Busy(r) PROVE UnderWay(r)'
  <2>1. CASE t = s
    BY <1>2, <2>1, Moved
  <2>2. CASE t # s
    <3>1. r = session[t]
      BY <1>2, <2>2, Moved
    <3>2. Busy(r) /\ UnderWay(r) /\ r.user # u
      BY <1>2, <2>2, <3>1, Moved DEF Base, ShapeInv, Moves
    <3>3. user'[r.user] = user[r.user] /\ assigned'[r.user] = assigned[r.user]
      BY <3>2 DEF Moves, UnderWay
    <3>4. \A x \in r.todo : JobOf(r, x) => JobOf(r, x)'
      BY <3>3 DEF JobOf
    <3> QED
      BY <3>2, <3>3, <3>4 DEF UnderWay, Exists
  <2> QED
    BY <2>1, <2>2
<1>3. \A t, x \in Sessions :
        Busy(session'[t]) /\ Busy(session'[x]) /\ session'[t].user = session'[x].user => t = x
  BY Moved DEF Base, ShapeInv, Moves
<1>4. \A t \in Sessions : Busy(session[t])' => UnderWay(session[t])'
  BY <1>2 DEF UnderWay, JobOf, Exists, Busy
<1> QED
  BY <1>0, <1>1, <1>3, <1>4 DEF ShapeInv, Exists, Busy

\* What has to hold of its user for DbInv to stay.
LEMMA DbStep ==
  ASSUME Base, DbInv, NEW s \in Sessions, NEW u \in Users, NEW q, Moves(s, u, q),
         UNCHANGED <<row, lastId>>,
         \A e \in Emails \ renamed' :
           Exists(u) /\ user[u].email = e /\ ~(Exists(u)' /\ user'[u].email = e) => ~Lives(row, e, lastId),
         ~Busy(q) /\ Exists(u)' /\ user'[u].email \notin renamed' => Settled(u)',
         Busy(q) /\ user'[u].email \notin renamed' => Working(q)'
  PROVE  DbInv'
<1>1. ASSUME NEW e \in Emails \ renamed', Free(e)' PROVE ~Lives(row', e, lastId')
  <2>1. CASE Exists(u) /\ user[u].email = e
    BY <1>1, <2>1 DEF Free, Moves
  <2>2. CASE ~(Exists(u) /\ user[u].email = e)
    <3>1. Free(e)
      BY <1>1, <2>2 DEF Free, Exists, Moves
    <3> QED
      BY <3>1 DEF DbInv, Moves
  <2> QED
    BY <2>1, <2>2
<1>2. ASSUME NEW v \in Users, Exists(v)', Left(v)', user'[v].email \notin renamed' PROVE Settled(v)'
  <2>1. CASE v = u
    <3>1. ~Busy(q)
      <4>0. session'[s] = q
        BY Moved
      <4>1. Busy(q) => q.user = u
        BY DEF Moves
      <4>2. Busy(session'[s]) => session'[s].user # u
        BY <1>2, <2>1 DEF Left, Busy
      <4> QED
        BY <4>0, <4>1, <4>2
    <3>2. Exists(u)' /\ user'[u].email \notin renamed'
      BY <1>2, <2>1 DEF Exists
    <3>3. Settled(u)'
      BY <3>1, <3>2
    <3> QED
      BY <2>1, <3>3 DEF Settled
  <2>2. CASE v # u
    <3>1. Left(v)
      BY <1>2, <2>2, Moved DEF Left, Moves
    <3>2. Exists(v) /\ user[v].email \notin renamed
      BY <1>2, <2>2 DEF Exists, Moves
    <3> QED
      BY <2>2, <3>1, <3>2 DEF DbInv, Settled, Moves
  <2> QED
    BY <2>1, <2>2
<1>3. ASSUME NEW t \in Sessions, NEW r, r = session'[t], Busy(r), user'[r.user].email \notin renamed'
      PROVE  Working(r)'
  <2>1. CASE t = s
    <3>1. r = q /\ q.user = u /\ Busy(q)
      <4>0. session'[s] = q
        BY Moved
      <4>1. Busy(q) => q.user = u
        BY DEF Moves
      <4> QED
        BY <1>3, <2>1, <4>0, <4>1
    <3>2. Working(q)'
      BY <1>3, <3>1
    <3> QED
      BY <3>1, <3>2 DEF Working
  <2>2. CASE t # s
    <3>1. r = session[t]
      BY <1>3, <2>2, Moved
    <3>2. r.user \in Users \ {u}
      BY <1>3, <2>2, <3>1 DEF Base, ShapeInv, UnderWay, Moves
    <3>3. user'[r.user] = user[r.user] /\ assigned'[r.user] = assigned[r.user]
      BY <3>2 DEF Moves
    <3>4. Working(r)
      BY <1>3, <3>1, <3>2, <3>3 DEF DbInv, Moves
    <3> QED
      BY <3>3, <3>4 DEF Working, Moves
  <2> QED
    BY <2>1, <2>2
<1>4. \A j \in 1..lastId' : \A e \in Emails \ renamed' : Updates(row'[j], e) => Lives(row', e, j)
  BY DEF DbInv, Moves
<1>5. \A t \in Sessions :
        Busy(session[t])' /\ user'[session'[t].user].email \notin renamed' => Working(session[t])'
  BY <1>3 DEF Working, Busy
<1> QED
  BY <1>1, <1>2, <1>4, <1>5 DEF DbInv, Busy

-----------------------------------------------------------------------------
(* The handlers.                                                           *)

\* What a request under way starts from.
LEMMA Started ==
  ASSUME Base, NEW s \in Sessions, NEW r, r = session[s], Busy(r)
  PROVE  /\ r \in Session /\ r.user \in Users /\ UnderWay(r)
         /\ user[r.user] \in Content /\ user[r.user].email \in Emails /\ assigned[r.user] \subseteq Inbounds
         /\ \A t \in Sessions : t # s /\ Busy(session[t]) => session[t].user # r.user
<1>1. UnderWay(r) /\ r \in Session
  BY BaseTypes DEF Base, ShapeInv
<1>2. user[r.user] \in Content /\ assigned[r.user] \subseteq Inbounds
  BY <1>1, BaseTypes DEF UnderWay, Exists
<1>3. \A t \in Sessions : t # s /\ Busy(session[t]) => session[t].user # r.user
  BY DEF Base, ShapeInv
<1> QED
  BY <1>1, <1>2, <1>3 DEF UnderWay, Content

LEMMA IdleIsNotBusy == ~Busy(Idle) /\ Idle.todo = {}
BY DEF Busy, Idle

\* A request ends and leaves the database as it is.
LEMMA Quits ==
  ASSUME Base, NEW s \in Sessions, NEW r, r = session[s], Busy(r), Finish(s),
         UNCHANGED <<user, assigned, renamed, row, lastId>>
  PROVE  /\ ShapeInv'
         /\ DbInv /\ (user[r.user].email \notin renamed /\ Working(r) => Settled(r.user)) => DbInv'
<1>1. PICK u \in Users : u = r.user
  BY Started
<1>2. Moves(s, u, Idle)
  BY <1>1, Started, IdleIsNotBusy DEF Moves, Finish
<1>3. ShapeInv'
  <2>1. \A v \in Users \ {u} : Exists(u)' /\ Exists(v) => user[v].email # user'[u].email
    BY DEF Base, ShapeInv, Exists
  <2>2. ~Exists(u)' => assigned'[u] = {}
    BY DEF Base, ShapeInv, Exists
  <2> QED
    BY <1>2, <2>1, <2>2, IdleIsNotBusy, ShapeStep
<1>4. ASSUME DbInv, user[r.user].email \notin renamed /\ Working(r) => Settled(r.user)
      PROVE  DbInv'
  <2>1. user[u].email \notin renamed => Working(r)
    BY <1>1, <1>4 DEF DbInv, Working
  <2>2. Exists(u)' /\ user'[u].email \notin renamed' => Settled(u)'
    BY <1>1, <1>4, <2>1 DEF Settled
  <2>3. Exists(u)' /\ user'[u] = user[u]
    BY <1>1, Started DEF Exists
  <2> QED
    BY <1>2, <1>4, <2>2, <2>3, IdleIsNotBusy, DbStep
<1> QED
  BY <1>3, <1>4

\* Before the request has written anything, or when it has only read.
LEMMA QuitsEarly ==
  ASSUME Base, NEW s \in Sessions, NEW r, r = session[s], r.pc \in {"write", "commit"}, Finish(s),
         UNCHANGED <<user, assigned, renamed, row, lastId>>
  PROVE  ShapeInv' /\ (DbInv => DbInv')
<1>1. Busy(r) /\ UnderWay(r)
  BY Started DEF Busy
<1>2. Between(r) = {} /\ ~CatchingUp(r)
  BY <1>1 DEF UnderWay, Between, CatchingUp
<1>3. Working(r) => Settled(r.user)
  BY <1>2 DEF Working, Settled
<1> QED
  BY <1>1, <1>3, Quits

\* handleUserCreate: the name was free, so nothing of it is left in the outbox.
LEMMA CreateStep ==
  ASSUME Base, NEW u \in Users, NEW e \in Emails, CreateUser(u, e), UNCHANGED <<row, lastId>>
  PROVE  ShapeInv' /\ (DbInv => DbInv')
<1>1. PICK c : c = [email |-> e, ver |-> ops + 1, on |-> TRUE]
  OBVIOUS
<1>2. /\ ~Exists(u) /\ assigned[u] = {}
      /\ user'[u] = c /\ \A v \in Users \ {u} : user'[v] = user[v]
      /\ UNCHANGED <<assigned, renamed, session>>
  BY <1>1, BaseTypes, PanelSyncAssumption DEF CreateUser, Exists, Base, ShapeInv
<1>3. c \in Content /\ c.email = e
  BY <1>1, PanelSyncAssumption DEF CreateUser, Content, Base, AdminInv
<1>4. \A v \in Users \ {u} : Exists(v) => user[v].email # e
  BY DEF CreateUser, Taken
<1>5. \A t \in Sessions : Busy(session[t]) => session[t].user \in Users \ {u}
  BY <1>2 DEF Base, ShapeInv, UnderWay
<1>6. ShapeInv'
  <2>1. ASSUME NEW t \in Sessions, NEW r, r = session[t], Busy(r) PROVE UnderWay(r)'
    <3>1. UnderWay(r) /\ user'[r.user] = user[r.user]
      BY <1>2, <1>5, <2>1 DEF Base, ShapeInv
    <3>2. \A x \in r.todo : JobOf(r, x) => JobOf(r, x)'
      BY <1>2 DEF JobOf
    <3> QED
      BY <1>2, <3>1, <3>2 DEF UnderWay, Exists
  <2>2. \A t \in Sessions : Busy(session[t])' => UnderWay(session[t])'
    BY <1>2, <2>1 DEF UnderWay, JobOf, Exists, Busy
  <2>3. /\ \A v \in Users : ~Exists(v)' => assigned'[v] = {}
        /\ \A v, w \in Users : Exists(v)' /\ Exists(w)' /\ user'[v].email = user'[w].email => v = w
    BY <1>2, <1>3, <1>4 DEF Base, ShapeInv, Exists
  <2>4. \A t, x \in Sessions :
          Busy(session'[t]) /\ Busy(session'[x]) /\ session'[t].user = session'[x].user => t = x
    BY <1>2 DEF Base, ShapeInv
  <2> QED
    BY <2>2, <2>3, <2>4 DEF ShapeInv, Exists, Busy
<1>7. ASSUME DbInv PROVE DbInv'
  <2>1. \A d \in Emails \ renamed' : Free(d)' => ~Lives(row', d, lastId')
    <3>1. \A d \in Emails : Free(d)' => Free(d)
      BY <1>2 DEF Free, Exists
    <3> QED
      BY <1>2, <1>7, <3>1 DEF DbInv
  <2>2. ASSUME e \notin renamed PROVE Agree(row, lastId, e, {}, {}) /\ Fresh(row, lastId, c)
    <3>1. Free(e)
      BY <1>2, <1>4 DEF Free
    <3>2. ~Lives(row, e, lastId)
      BY <1>7, <2>2, <3>1 DEF DbInv
    <3> QED
      BY <1>3, <3>2, EmptyIsFresh, BaseTypes DEF Agree, Lives
  <2>3. ASSUME NEW v \in Users, Exists(v)', Left(v)', user'[v].email \notin renamed' PROVE Settled(v)'
    <3>1. CASE v = u
      BY <1>2, <1>3, <2>2, <2>3, <3>1 DEF Settled
    <3>2. CASE v # u
      BY <1>2, <1>7, <2>3, <3>2 DEF Settled, Exists, Left, Busy, DbInv
    <3> QED
      BY <3>1, <3>2
  <2>4. ASSUME NEW t \in Sessions, NEW r, r = session[t], Busy(r), user'[r.user].email \notin renamed'
        PROVE  Working(r)'
    BY <1>2, <1>5, <1>7, <2>4 DEF DbInv, Working
  <2>5. \A t \in Sessions :
          Busy(session[t])' /\ user'[session'[t].user].email \notin renamed' => Working(session[t])'
    BY <1>2, <2>4 DEF Working, Busy
  <2>6. \A j \in 1..lastId' : \A d \in Emails \ renamed' : Updates(row'[j], d) => Lives(row', d, j)
    BY <1>2, <1>7 DEF DbInv
  <2> QED
    BY <2>1, <2>3, <2>5, <2>6 DEF DbInv, Busy
<1> QED
  BY <1>6, <1>7

\* A request arrives, and nobody is at work on its user.
LEMMA BeginStep ==
  ASSUME Base, Exclusive, NEW s \in Sessions, NEW k \in Kinds, NEW u \in Users, Begin(s, k, u),
         UNCHANGED <<row, lastId>>
  PROVE  ShapeInv' /\ (DbInv => DbInv')
<1>1. PICK q : q = [Idle EXCEPT !.pc = IF k \in {"reset", "delete"} THEN "list" ELSE "write",
                                !.kind = k, !.user = u, !.seen = user[u], !.num = ops + 1]
  OBVIOUS
<1>2. /\ q.kind = k /\ q.user = u /\ q.seen = user[u] /\ q.todo = {}
      /\ q.pc \in {"write", "list"} /\ (q.pc = "list" => k \in {"reset", "delete"})
  BY <1>1 DEF Idle
<1>3. session' = [session EXCEPT ![s] = q] /\ UNCHANGED <<user, assigned, renamed>> /\ Exists(u)
  BY <1>1 DEF Begin, db
<1>4. ~Busy(session[s]) /\ \A t \in Sessions : Busy(session[t]) => session[t].user # u
  BY DEF Begin, Busy
<1>5. Moves(s, u, q)
  BY <1>2, <1>3, <1>4 DEF Moves
<1>6. ShapeInv'
  <2>1. UnderWay(q)'
    BY <1>2, <1>3, PanelSyncAssumption DEF UnderWay, Exists
  <2>2. \A v \in Users \ {u} : Exists(u)' /\ Exists(v) => user[v].email # user'[u].email
    BY <1>3 DEF Base, ShapeInv, Exists
  <2> QED
    BY <1>3, <1>5, <2>1, <2>2, ShapeStep DEF Exists
<1>7. ASSUME DbInv PROVE DbInv'
  <2>1. user[u].email \notin renamed => Settled(u)
    BY <1>3, <1>4, <1>7 DEF DbInv, Left
  <2>2. Between(q) = {} /\ ~CatchingUp(q) /\ q.pc # "remove"
    BY <1>2 DEF Between, CatchingUp, Rewrites
  <2>3. user'[u].email \notin renamed' => Working(q)'
    BY <1>2, <1>3, <2>1, <2>2 DEF Working, Settled
  <2>4. Busy(q) /\ Exists(u)' /\ user'[u] = user[u]
    BY <1>2, <1>3 DEF Busy, Exists
  <2> QED
    BY <1>5, <1>7, <2>3, <2>4, DbStep
<1> QED
  BY <1>6, <1>7

\* Store.Update: a name given up or taken along with inbounds counts as renamed,
\* and any other is without inbounds.
LEMMA UpdateStep ==
  ASSUME Base, NEW s \in Sessions, NEW e \in Emails, Update(s, e), UNCHANGED <<row, lastId>>
  PROVE  ShapeInv' /\ (DbInv => DbInv')
<1>1. PICK r : r = session[s]
  OBVIOUS
<1>2. r.pc = "write" /\ r.kind = "update" /\ Busy(r)
  BY <1>1 DEF Update, At, Busy
<1>3. PICK u \in Users : u = r.user
  BY <1>1, <1>2, Started
<1>4. CASE Exists(u) /\ ~Taken(e, u)
  <2>1. PICK q : q = [r EXCEPT !.pc = "reread"]
    OBVIOUS
  <2>2. PICK c : c = [user[u] EXCEPT !.email = e, !.ver = r.num]
    OBVIOUS
  <2>3. r \in Session /\ user[u] \in Content /\ r.num \in 1..MaxOps /\ UnderWay(r)
    BY <1>1, <1>2, <1>3, Started DEF Busy, Base, AdminInv
  <2>4. c \in Content /\ c.email = e
    BY <2>2, <2>3 DEF Content
  <2>5. /\ session' = [session EXCEPT ![s] = q] /\ renamed' = renamed \cup Renames(u, e)
        /\ user'[u] = c /\ (\A v \in Users \ {u} : user'[v] = user[v]) /\ assigned' = assigned
    BY <1>1, <1>3, <1>4, <2>1, <2>2, BaseTypes DEF Update
  <2>6. q.pc = "reread" /\ q.kind = "update" /\ q.user = u /\ q.todo = {}
    BY <1>2, <1>3, <2>1, <2>3 DEF Session, UnderWay
  <2>7. Moves(s, u, q)
    BY <1>1, <1>2, <1>3, <2>5, <2>6, Started DEF Moves
  <2>8. ShapeInv'
    <3>1. UnderWay(q)'
      BY <2>4, <2>5, <2>6 DEF UnderWay, Exists, AllKinds
    <3>2. \A v \in Users \ {u} : Exists(u)' /\ Exists(v) => user[v].email # user'[u].email
      BY <1>4, <2>4, <2>5 DEF Taken
    <3>3. Exists(u)'
      BY <2>4, <2>5 DEF Exists
    <3> QED
      BY <2>7, <3>1, <3>2, <3>3, ShapeStep
  <2>9. ASSUME DbInv PROVE DbInv'
    <3>1. PICK d : d = user[u].email
      OBVIOUS
    <3>2. d \notin renamed => Agree(row, lastId, d, assigned[u], {})
      <4>1. Between(r) = {} /\ r.pc # "remove"
        BY <1>2, <2>3 DEF UnderWay, Between
      <4> QED
        BY <1>1, <1>2, <1>3, <2>9, <3>1, <4>1 DEF DbInv, Working
    <3>3. d # e /\ assigned[u] # {} => d \in renamed' /\ e \in renamed'
      BY <2>5, <3>1 DEF Renames
    <3>4. ASSUME d # e, d \notin renamed' PROVE ~Lives(row, d, lastId)
      BY <2>5, <3>2, <3>3, <3>4 DEF Agree, Lives
    <3>5. ASSUME e \notin renamed' PROVE Agree(row, lastId, e, assigned[u], {})
      <4>1. CASE d = e
        BY <2>5, <3>2, <3>5, <4>1
      <4>2. CASE d # e
        <5>1. Free(e)
          BY <1>4, <3>1, <4>2 DEF Free, Taken
        <5>2. ~Lives(row, e, lastId) /\ assigned[u] = {}
          BY <2>5, <2>9, <3>3, <3>5, <4>2, <5>1 DEF DbInv
        <5> QED
          BY <5>2 DEF Agree, Lives
      <4> QED
        BY <4>1, <4>2
    <3>6. Between(q) = {} /\ CatchingUp(q) /\ Busy(q)
      BY <2>6 DEF Between, CatchingUp, Rewrites, Busy
    <3>7. user'[u].email \notin renamed' => Working(q)'
      BY <2>4, <2>5, <2>6, <3>5, <3>6 DEF Working
    <3>8. \A x \in Emails \ renamed' :
            Exists(u) /\ user[u].email = x /\ ~(Exists(u)' /\ user'[u].email = x) => ~Lives(row, x, lastId)
      BY <2>4, <2>5, <3>1, <3>4 DEF Exists
    <3> QED
      BY <2>7, <2>9, <3>6, <3>7, <3>8, DbStep
  <2> QED
    BY <2>8, <2>9
<1>5. CASE ~(Exists(u) /\ ~Taken(e, u))
  BY <1>1, <1>2, <1>3, <1>5, QuitsEarly DEF Update
<1> QED
  BY <1>4, <1>5

\* A change of the content alone, or none: what the request knows of the
\* inbounds stays, and the updates are still to come.
LEMMA RewriteStep ==
  ASSUME Base, NEW s \in Sessions, NEW r, r = session[s], Busy(r), Working(r) => Between(r) = {},
         r.pc # "remove", NEW c \in Content, c.email = user[r.user].email,
         NEW q, UnderWay(q)', q.user = r.user, Busy(q), CatchingUp(q), Between(q) = {},
         session' = [session EXCEPT ![s] = q], user' = [user EXCEPT ![r.user] = c],
         UNCHANGED <<assigned, renamed, row, lastId>>
  PROVE  ShapeInv' /\ (DbInv => DbInv')
<1>1. PICK u \in Users : u = r.user
  BY Started
<1>2. user'[u] = c /\ \A v \in Users \ {u} : user'[v] = user[v]
  BY <1>1, BaseTypes
<1>3. Moves(s, u, q)
  BY <1>1, <1>2, Started DEF Moves
<1>4. Exists(u) /\ Exists(u)'
  BY <1>1, <1>2, Started DEF Exists, UnderWay
<1>5. ShapeInv'
  <2>1. \A v \in Users \ {u} : Exists(u)' /\ Exists(v) => user[v].email # user'[u].email
    BY <1>1, <1>2, <1>4 DEF Base, ShapeInv
  <2> QED
    BY <1>3, <1>4, <2>1, ShapeStep
<1>6. ASSUME DbInv PROVE DbInv'
  <2>1. user[u].email \notin renamed => Agree(row, lastId, user[u].email, assigned[u], {})
    BY <1>1, <1>6 DEF DbInv, Working
  <2>2. q.pc # "remove"
    BY DEF CatchingUp
  <2>3. user'[u].email \notin renamed' => Working(q)'
    BY <1>1, <1>2, <2>1, <2>2 DEF Working
  <2>4. \A e \in Emails \ renamed' :
          Exists(u) /\ user[u].email = e /\ ~(Exists(u)' /\ user'[u].email = e) => ~Lives(row, e, lastId)
    BY <1>1, <1>2, <1>4
  <2> QED
    BY <1>3, <1>6, <2>3, <2>4, DbStep
<1> QED
  BY <1>5, <1>6

\* Store.RegenerateCredentials.
LEMMA RegenerateStep ==
  ASSUME Base, NEW s \in Sessions, Regenerate(s), UNCHANGED <<row, lastId>>
  PROVE  ShapeInv' /\ (DbInv => DbInv')
<1>1. PICK r : r = session[s]
  OBVIOUS
<1>2. r.pc = "write" /\ r.kind = "regenerate" /\ Busy(r)
  BY <1>1 DEF Regenerate, At, Busy
<1>3. /\ r \in Session /\ r.user \in Users /\ UnderWay(r) /\ Exists(r.user)
      /\ user[r.user] \in Content /\ r.num \in 1..MaxOps
  BY <1>1, <1>2, Started DEF Busy, Base, AdminInv, UnderWay
<1>4. PICK q : q = [r EXCEPT !.pc = "reread"]
  OBVIOUS
<1>5. PICK c : c = [user[r.user] EXCEPT !.ver = r.num]
  OBVIOUS
<1>6. c \in Content /\ c.email = user[r.user].email
  BY <1>3, <1>5 DEF Content
<1>7. q.pc = "reread" /\ q.kind = "regenerate" /\ q.user = r.user /\ q.todo = {} /\ r.todo = {}
  BY <1>2, <1>3, <1>4 DEF Session, UnderWay
<1>8. /\ session' = [session EXCEPT ![s] = q] /\ user' = [user EXCEPT ![r.user] = c]
      /\ UNCHANGED <<assigned, renamed>>
  BY <1>1, <1>3, <1>4, <1>5, BaseTypes DEF Regenerate
<1>9. UnderWay(q)'
  BY <1>3, <1>6, <1>7, <1>8, BaseTypes DEF UnderWay, Exists, AllKinds
<1>10. Busy(q) /\ CatchingUp(q) /\ Between(q) = {} /\ Between(r) = {}
  BY <1>7 DEF Busy, CatchingUp, Rewrites, Between
<1> QED
  BY <1>1, <1>2, <1>6, <1>7, <1>8, <1>9, <1>10, RewriteStep

\* Store.SetEnabled.
LEMMA SwitchStep ==
  ASSUME Base, NEW s \in Sessions, NEW on \in BOOLEAN, Switch(s, on), UNCHANGED <<row, lastId>>
  PROVE  ShapeInv' /\ (DbInv => DbInv')
<1>1. PICK r : r = session[s]
  OBVIOUS
<1>2. r.pc = "write" /\ r.kind = "switch" /\ Busy(r)
  BY <1>1 DEF Switch, At, Busy
<1>3. /\ r \in Session /\ r.user \in Users /\ UnderWay(r) /\ Exists(r.user)
      /\ user[r.user] \in Content
  BY <1>1, <1>2, Started DEF Busy, UnderWay
<1>4. r.seen = user[r.user]
  BY <1>2, <1>3 DEF UnderWay
<1>5. PICK c : c = [user[r.user] EXCEPT !.on = on]
  OBVIOUS
<1>6. PICK q : q = [r EXCEPT !.seen = c, !.pc = "list"]
  OBVIOUS
<1>7. c \in Content /\ c.email = user[r.user].email
  BY <1>3, <1>5 DEF Content
<1>8. q.pc = "list" /\ q.kind = "switch" /\ q.user = r.user /\ q.seen = c /\ q.todo = {} /\ r.todo = {}
  BY <1>2, <1>3, <1>6 DEF Session, UnderWay
<1>9. /\ session' = [session EXCEPT ![s] = q] /\ user' = [user EXCEPT ![r.user] = c]
      /\ UNCHANGED <<assigned, renamed>>
  BY <1>1, <1>3, <1>4, <1>5, <1>6, BaseTypes DEF Switch
<1>10. UnderWay(q)'
  BY <1>3, <1>7, <1>8, <1>9, BaseTypes DEF UnderWay, Exists, AllKinds
<1>11. Busy(q) /\ CatchingUp(q) /\ Between(q) = {} /\ Between(r) = {}
  BY <1>8 DEF Busy, CatchingUp, Rewrites, Between
<1> QED
  BY <1>1, <1>2, <1>7, <1>8, <1>9, <1>10, <1>11, RewriteStep

\* The Get after the write.
LEMMA RereadStep ==
  ASSUME Base, NEW s \in Sessions, Reread(s), UNCHANGED <<row, lastId>>
  PROVE  ShapeInv' /\ (DbInv => DbInv')
<1>1. PICK r : r = session[s]
  OBVIOUS
<1>2. r.pc = "reread" /\ Busy(r)
  BY <1>1 DEF Reread, At, Busy
<1>3. /\ r \in Session /\ r.user \in Users /\ UnderWay(r) /\ Exists(r.user)
      /\ user[r.user] \in Content
  BY <1>1, <1>2, Started DEF Busy, UnderWay
<1>4. PICK c : c = user[r.user]
  OBVIOUS
<1>5. PICK q : q = [r EXCEPT !.seen = c, !.pc = "list"]
  OBVIOUS
<1>6. /\ q.pc = "list" /\ q.kind = r.kind /\ q.kind \in {"update", "regenerate"} /\ q.user = r.user
      /\ q.seen = c /\ q.todo = {} /\ r.todo = {}
  BY <1>2, <1>3, <1>5 DEF Session, UnderWay
<1>7. /\ session' = [session EXCEPT ![s] = q] /\ user' = [user EXCEPT ![r.user] = c]
      /\ UNCHANGED <<assigned, renamed>>
  BY <1>1, <1>3, <1>4, <1>5, BaseTypes DEF Reread, Seen, db
<1>8. UnderWay(q)'
  BY <1>3, <1>4, <1>6, <1>7, BaseTypes DEF UnderWay, Exists, AllKinds
<1>9. Busy(q) /\ CatchingUp(q) /\ Between(q) = {} /\ Between(r) = {}
  BY <1>6 DEF Busy, CatchingUp, Rewrites, Between
<1> QED
  BY <1>1, <1>2, <1>3, <1>4, <1>6, <1>7, <1>8, <1>9, RewriteStep

\* Store.SetInbounds, its first read.
LEMMA ReadCurrentStep ==
  ASSUME Base, NEW s \in Sessions, ReadCurrent(s), UNCHANGED <<row, lastId>>
  PROVE  ShapeInv' /\ (DbInv => DbInv')
<1>1. PICK r : r = session[s]
  OBVIOUS
<1>2. r.pc = "write" /\ r.kind = "setInbounds" /\ Busy(r)
  BY <1>1 DEF ReadCurrent, At, Busy
<1>3. PICK u \in Users : u = r.user
  BY <1>1, <1>2, Started
<1>4. r \in Session /\ UnderWay(r) /\ Exists(u)
  BY <1>1, <1>2, <1>3, Started DEF UnderWay
<1>5. PICK q : q = [r EXCEPT !.current = assigned[u], !.pc = "commit"]
  OBVIOUS
<1>6. /\ q.pc = "commit" /\ q.kind = "setInbounds" /\ q.user = u /\ q.seen = r.seen /\ q.todo = {}
      /\ q.current = assigned[u] /\ r.todo = {} /\ r.seen = user[u]
  BY <1>2, <1>3, <1>4, <1>5 DEF Session, UnderWay
<1>7. session' = [session EXCEPT ![s] = q] /\ UNCHANGED <<user, assigned, renamed>>
  BY <1>1, <1>3, <1>5, BaseTypes DEF ReadCurrent, db
<1>8. Moves(s, u, q)
  BY <1>1, <1>2, <1>3, <1>6, <1>7, Started DEF Moves
<1>9. ShapeInv'
  <2>1. UnderWay(q)'
    BY <1>4, <1>6, <1>7 DEF UnderWay, Exists, AllKinds
  <2>2. \A v \in Users \ {u} : Exists(u)' /\ Exists(v) => user[v].email # user'[u].email
    BY <1>4, <1>7 DEF Base, ShapeInv
  <2> QED
    BY <1>4, <1>7, <1>8, <2>1, <2>2, ShapeStep DEF Exists
<1>10. ASSUME DbInv PROVE DbInv'
  <2>1. /\ Between(r) = {} /\ ~CatchingUp(r) /\ r.pc # "remove"
        /\ Between(q) = {} /\ ~CatchingUp(q) /\ q.pc # "remove" /\ Busy(q)
    BY <1>2, <1>6 DEF Between, CatchingUp, Rewrites, Busy
  <2>2. user[u].email \notin renamed => Working(r)
    BY <1>1, <1>2, <1>3, <1>10 DEF DbInv, Working
  <2>3. user'[u].email \notin renamed' => Working(q)'
    BY <1>3, <1>6, <1>7, <2>1, <2>2 DEF Working
  <2>4. Exists(u)' /\ user'[u] = user[u]
    BY <1>4, <1>7 DEF Exists
  <2> QED
    BY <1>8, <1>10, <2>1, <2>3, <2>4, DbStep
<1> QED
  BY <1>9, <1>10

\* What is left to enqueue, when something is.
LEMMA Goes ==
  ASSUME Base, NEW s \in Sessions, NEW r, r = session[s], Busy(r), NEW T, Todo(s, T),
         T # {} \/ r.kind = "delete"
  PROVE  \E q : /\ session' = [session EXCEPT ![s] = q]
                /\ q.pc = (IF T = {} THEN "remove" ELSE "enqueue") /\ q.todo = T
                /\ q.kind = r.kind /\ q.user = r.user /\ q.seen = r.seen
                /\ Busy(q)
<1>0. PICK q : q = [r EXCEPT !.todo = T, !.pc = IF T = {} THEN "remove" ELSE "enqueue"]
  OBVIOUS
<1>1. r \in Session
  BY Started
<1>2. session' = [session EXCEPT ![s].todo = T, ![s].pc = IF T = {} THEN "remove" ELSE "enqueue"]
  BY DEF Todo
<1>3. session' = [session EXCEPT ![s] = q]
  BY <1>0, <1>2, BaseTypes
<1>4. /\ q.pc = (IF T = {} THEN "remove" ELSE "enqueue") /\ q.todo = T
      /\ q.kind = r.kind /\ q.user = r.user /\ q.seen = r.seen
  BY <1>0, <1>1 DEF Session
<1>5. Busy(q)
  BY <1>4 DEF Busy
<1> QED
  BY <1>3, <1>4, <1>5

\* Store.Inbounds: without an inbound there is nothing to tell the panel.
LEMMA ListStep ==
  ASSUME Base, NEW s \in Sessions, List(s), UNCHANGED <<row, lastId>>
  PROVE  ShapeInv' /\ (DbInv => DbInv')
<1>1. PICK r : r = session[s]
  OBVIOUS
<1>2. r.pc = "list" /\ Busy(r)
  BY <1>1 DEF List, At, Busy
<1>3. PICK u \in Users : u = r.user
  BY <1>1, <1>2, Started
<1>4. PICK T : T = JobsFor(s, assigned[u])
  OBVIOUS
<1>5. Todo(s, T) /\ UNCHANGED <<user, assigned, renamed>>
  BY <1>1, <1>3, <1>4 DEF List, db
<1>6. r \in Session /\ UnderWay(r) /\ Exists(u) /\ r.kind \in AllKinds \ {"setInbounds"} /\ r.seen = user[u] /\ r.todo = {}
  BY <1>1, <1>2, <1>3, Started DEF UnderWay
<1>7. /\ T = {} <=> assigned[u] = {}
      /\ \A x \in T : x.payload = user[u] /\ x.op \notin {"assign", "unassign"}
      /\ r.kind = "delete" => \A x \in T : x.op = "delete" /\ T = {x}
      /\ r.kind = "reset" => \A x \in T : x.op = "reset"
      /\ r.kind \in Rewrites => \A x \in T : x.op = "update" /\ x.inbound \in assigned[u]
  <2>0. \A op, i : /\ Job(s, op, i).payload = user[u]
                   /\ Job(s, op, i).op = op /\ Job(s, op, i).inbound = i
    BY <1>1, <1>6 DEF Job
  <2>1. CASE r.kind = "delete"
    <3>1. T = IF assigned[u] = {} THEN {} ELSE {Job(s, "delete", 0)}
      BY <1>1, <1>4, <2>1 DEF JobsFor
    <3> QED
      BY <2>0, <2>1, <3>1 DEF Rewrites
  <2>2. CASE r.kind = "reset"
    <3>1. T = {Job(s, "reset", i) : i \in assigned[u]}
      BY <1>1, <1>4, <2>2 DEF JobsFor
    <3> QED
      BY <2>0, <2>2, <3>1 DEF Rewrites
  <2>3. CASE r.kind \in Rewrites
    <3>1. T = {Job(s, "update", i) : i \in assigned[u]}
      BY <1>1, <1>4, <2>3 DEF JobsFor, Rewrites
    <3> QED
      BY <2>0, <2>3, <3>1 DEF Rewrites
  <2> QED
    BY <1>6, <2>1, <2>2, <2>3 DEF AllKinds, Rewrites
<1>8. user[u].email \notin renamed /\ Working(r) => Agree(row, lastId, user[u].email, assigned[u], {})
  BY <1>2, <1>3, <1>6 DEF Working, Between
<1>9. Agree(row, lastId, user[u].email, {}, {}) =>
        ~Lives(row, user[u].email, lastId) /\ Fresh(row, lastId, user[u])
  BY EmptyIsFresh, BaseTypes DEF Agree, Lives
<1>10. CASE T = {} /\ r.kind # "delete"
  <2>1. Finish(s)
    BY <1>1, <1>5, <1>10 DEF Todo
  <2>2. user[r.user].email \notin renamed /\ Working(r) => Settled(r.user)
    BY <1>3, <1>7, <1>8, <1>9, <1>10 DEF Settled
  <2> QED
    BY <1>1, <1>2, <1>5, <2>1, <2>2, Quits
<1>11. CASE T # {} \/ r.kind = "delete"
  <2>1. PICK q : /\ session' = [session EXCEPT ![s] = q]
                 /\ q.pc = (IF T = {} THEN "remove" ELSE "enqueue") /\ q.todo = T
                 /\ q.kind = r.kind /\ q.user = r.user /\ q.seen = r.seen /\ Busy(q)
    BY <1>1, <1>2, <1>5, <1>11, Goes
  <2>2. /\ session' = [session EXCEPT ![s] = q]
        /\ q.pc = (IF T = {} THEN "remove" ELSE "enqueue") /\ q.todo = T
        /\ q.kind = r.kind /\ q.user = u /\ q.seen = user[u] /\ Busy(q)
    BY <1>3, <1>6, <1>11, <2>1
  <2>3. Moves(s, u, q)
    BY <1>1, <1>2, <1>3, <1>5, <2>2, Started DEF Moves
  <2>4. ShapeInv'
    <3>1. \A x \in T : JobOf(q, x)'
      BY <1>3, <1>5, <1>6, <1>7, <2>2 DEF JobOf
    <3>2. UnderWay(q)'
      BY <1>3, <1>5, <1>6, <1>11, <2>2, <3>1 DEF UnderWay, Exists
    <3>3. \A v \in Users \ {u} : Exists(u)' /\ Exists(v) => user[v].email # user'[u].email
      BY <1>5, <1>6 DEF Base, ShapeInv
    <3> QED
      BY <1>5, <1>6, <2>3, <3>2, <3>3, ShapeStep DEF Exists
  <2>5. ASSUME DbInv PROVE DbInv'
    <3>1. user[u].email \notin renamed => Working(r)
      BY <1>1, <1>2, <1>3, <2>5 DEF DbInv, Working
    <3>2. Between(q) = {} /\ (CatchingUp(q) => CatchingUp(r) /\ T # {})
      BY <1>2, <1>7, <2>2 DEF Between, CatchingUp
    <3>3. ASSUME user'[u].email \notin renamed' PROVE Working(q)'
      <4>1. user[u].email \notin renamed /\ Working(r) /\ Agree(row, lastId, user[u].email, assigned[u], {})
        BY <1>5, <1>8, <3>1, <3>3
      <4>2. T = {} => ~Lives(row, user[u].email, lastId) /\ Fresh(row, lastId, user[u])
        BY <1>7, <1>9, <4>1
      <4>3. T # {} /\ ~CatchingUp(q) => Fresh(row, lastId, user[u])
        BY <1>2, <1>3, <2>2, <4>1 DEF Working, CatchingUp
      <4> QED
        BY <1>5, <2>2, <3>2, <4>1, <4>2, <4>3 DEF Working
    <3>4. Exists(u)' /\ user'[u] = user[u]
      BY <1>5, <1>6 DEF Exists
    <3> QED
      BY <2>2, <2>3, <2>5, <3>3, <3>4, DbStep
  <2> QED
    BY <2>4, <2>5
<1> QED
  BY <1>10, <1>11

\* Store.SetInbounds: what it changes and the jobs that tell of it are the same.
LEMMA SetInboundsStep ==
  ASSUME Base, NEW s \in Sessions, NEW desired \in SUBSET Inbounds, SetInbounds(s, desired),
         UNCHANGED <<row, lastId>>
  PROVE  ShapeInv' /\ (DbInv => DbInv')
<1>1. PICK r : r = session[s]
  OBVIOUS
<1>2. r.pc = "commit" /\ Busy(r)
  BY <1>1 DEF SetInbounds, At, Busy
<1>3. PICK u \in Users : u = r.user
  BY <1>1, <1>2, Started
<1>4. /\ r \in Session /\ UnderWay(r) /\ Exists(u) /\ r.kind = "setInbounds" /\ r.seen = user[u]
      /\ r.todo = {} /\ r.current = assigned[u] /\ assigned[u] \subseteq Inbounds
  BY <1>1, <1>2, <1>3, Started DEF UnderWay
<1>5. PICK added : added = desired \ assigned[u]
  OBVIOUS
<1>6. PICK removed : removed = assigned[u] \ desired
  OBVIOUS
<1>7. PICK T : T = {Job(s, "assign", i) : i \in added} \cup {Job(s, "unassign", i) : i \in removed}
  OBVIOUS
<1>8. Todo(s, T) /\ assigned' = [assigned EXCEPT ![u] = desired] /\ UNCHANGED <<user, renamed>>
  <2>1. ~(added # {} /\ (~Exists(u) \/ added \cap assigned[u] # {}))
    BY <1>4, <1>5
  <2>2. (assigned[u] \ removed) \cup added = desired
    BY <1>5, <1>6
  <2> QED
    BY <1>1, <1>3, <1>4, <1>5, <1>6, <1>7, <2>1, <2>2, BaseTypes DEF SetInbounds
<1>9. assigned'[u] = desired /\ \A v \in Users \ {u} : assigned'[v] = assigned[v]
  BY <1>8, BaseTypes
<1>10. CASE T = {}
  <2>1. Finish(s) /\ assigned' = assigned
    <3>1. added = {} /\ removed = {}
      BY <1>7, <1>10
    <3> QED
      BY <1>1, <1>4, <1>5, <1>6, <1>8, <1>10, <3>1, BaseTypes DEF Todo
  <2> QED
    BY <1>1, <1>2, <1>8, <2>1, QuitsEarly
<1>11. CASE T # {}
  <2>1. PICK q : /\ session' = [session EXCEPT ![s] = q]
                 /\ q.pc = (IF T = {} THEN "remove" ELSE "enqueue") /\ q.todo = T
                 /\ q.kind = r.kind /\ q.user = r.user /\ q.seen = r.seen /\ Busy(q)
    BY <1>1, <1>2, <1>8, <1>11, Goes
  <2>2. /\ session' = [session EXCEPT ![s] = q] /\ q.pc = "enqueue" /\ q.todo = T
        /\ q.kind = "setInbounds" /\ q.user = u /\ q.seen = user[u] /\ Busy(q)
    BY <1>3, <1>4, <1>11, <2>1
  <2>3. Moves(s, u, q)
    BY <1>1, <1>2, <1>3, <1>8, <1>9, <2>2, Started DEF Moves
  <2>4. ShapeInv'
    <3>1. \A x \in T : JobOf(q, x)'
      <4>1. \A x \in T : /\ x.payload = user[u]
                         /\ \/ x.op = "assign" /\ x.inbound \in desired
                            \/ x.op = "unassign" /\ x.inbound \notin desired
        BY <1>1, <1>4, <1>5, <1>6, <1>7 DEF Job
      <4> QED
        BY <1>9, <2>2, <4>1 DEF JobOf, Rewrites
    <3>2. UnderWay(q)'
      BY <1>4, <1>8, <1>11, <2>2, <3>1 DEF UnderWay, Exists, AllKinds
    <3>3. \A v \in Users \ {u} : Exists(u)' /\ Exists(v) => user[v].email # user'[u].email
      BY <1>4, <1>8 DEF Base, ShapeInv
    <3> QED
      BY <1>4, <1>8, <2>3, <3>2, <3>3, ShapeStep DEF Exists
  <2>5. ASSUME DbInv PROVE DbInv'
    <3>1. user[u].email \notin renamed => Working(r)
      BY <1>1, <1>2, <1>3, <2>5 DEF DbInv, Working
    <3>2. Between(r) = {} /\ ~CatchingUp(r)
      BY <1>2, <1>4 DEF Between, CatchingUp
    <3>3. added \cup removed \subseteq Between(q)
      <4>1. ASSUME NEW i \in added PROVE i \in Between(q)
        <5>1. Job(s, "assign", i) \in T /\ Job(s, "assign", i).op = "assign" /\ Job(s, "assign", i).inbound = i
          BY <1>7, <4>1 DEF Job
        <5> QED
          BY <2>2, <5>1 DEF Between
      <4>2. ASSUME NEW i \in removed PROVE i \in Between(q)
        <5>1. Job(s, "unassign", i) \in T /\ Job(s, "unassign", i).op = "unassign" /\ Job(s, "unassign", i).inbound = i
          BY <1>7, <4>2 DEF Job
        <5> QED
          BY <2>2, <5>1 DEF Between
      <4> QED
        BY <4>1, <4>2
    <3>4. ASSUME user'[u].email \notin renamed' PROVE Working(q)'
      <4>1. Agree(row, lastId, user[u].email, assigned[u], {}) /\ Fresh(row, lastId, user[u])
        BY <1>2, <1>3, <1>8, <3>1, <3>2, <3>4 DEF Working
      <4>2. Agree(row, lastId, user[u].email, desired, Between(q))
        BY <1>5, <1>6, <3>3, <4>1 DEF Agree
      <4> QED
        BY <1>8, <1>9, <2>2, <4>1, <4>2 DEF Working
    <3>5. Exists(u)' /\ user'[u] = user[u]
      BY <1>4, <1>8 DEF Exists
    <3> QED
      BY <2>2, <2>3, <2>5, <3>4, <3>5, DbStep
  <2> QED
    BY <2>4, <2>5
<1> QED
  BY <1>10, <1>11

\* Store.Delete: after its job, or without an inbound, the name leaves nothing.
LEMMA RemoveStep ==
  ASSUME Base, NEW s \in Sessions, RemoveUser(s), UNCHANGED <<row, lastId>>
  PROVE  ShapeInv' /\ (DbInv => DbInv')
<1>1. PICK r : r = session[s]
  OBVIOUS
<1>2. r.pc = "remove" /\ Busy(r)
  BY <1>1 DEF RemoveUser, At, Busy
<1>3. PICK u \in Users : u = r.user
  BY <1>1, <1>2, Started
<1>4. /\ session' = [session EXCEPT ![s] = Idle] /\ renamed' = renamed
      /\ user'[u] = Gone /\ assigned'[u] = {}
      /\ \A v \in Users \ {u} : user'[v] = user[v] /\ assigned'[v] = assigned[v]
  BY <1>1, <1>3, BaseTypes DEF RemoveUser, Finish
<1>5. Moves(s, u, Idle)
  BY <1>1, <1>2, <1>3, <1>4, Started, IdleIsNotBusy DEF Moves
<1>6. ~Exists(u)'
  BY <1>4, PanelSyncAssumption DEF Exists
<1>7. ShapeInv'
  BY <1>4, <1>5, <1>6, IdleIsNotBusy, ShapeStep
<1>8. ASSUME DbInv PROVE DbInv'
  <2>1. user[u].email \notin renamed => ~Lives(row, user[u].email, lastId)
    BY <1>1, <1>2, <1>3, <1>8 DEF DbInv, Working
  <2> QED
    BY <1>4, <1>5, <1>6, <1>8, <2>1, IdleIsNotBusy, DbStep
<1> QED
  BY <1>7, <1>8

\* A failing call ends the request; it is missed if there was more to do.
LEMMA FailStep ==
  ASSUME Base, NEW s \in Sessions, CallFails(s), UNCHANGED <<row, lastId>>
  PROVE  ShapeInv' /\ (missed' \/ (DbInv => DbInv'))
<1>1. PICK r : r = session[s]
  OBVIOUS
<1>2. Busy(r) /\ Finish(s) /\ UNCHANGED <<user, assigned, renamed>>
  BY <1>1 DEF CallFails, Busy, db
<1>3. CASE r.pc \in {"write", "commit"}
  BY <1>1, <1>2, <1>3, QuitsEarly
<1>4. CASE r.pc \notin {"write", "commit"}
  <2>1. missed'
    BY <1>1, <1>4 DEF CallFails, DbFault, HalfDone
  <2> QED
    BY <1>1, <1>2, <2>1, Quits
<1> QED
  BY <1>3, <1>4

\* A failing Enqueue is always missed.
LEMMA EnqueueFailStep ==
  ASSUME Base, NEW s \in Sessions, NEW x \in session[s].todo, EnqueueFails(s, x),
         UNCHANGED <<row, lastId>>
  PROVE  ShapeInv' /\ missed'
<1>1. PICK r : r = session[s]
  OBVIOUS
<1>2. r.pc = "enqueue" /\ Busy(r)
  BY <1>1 DEF EnqueueFails, At, Busy
<1>3. missed'
  BY <1>1, <1>2 DEF EnqueueFails, DbFault, HalfDone
<1>4. PICK u \in Users : u = r.user
  BY <1>1, <1>2, Started
<1>5. PICK T : T = r.todo \ {x}
  OBVIOUS
<1>6. UNCHANGED <<user, assigned, renamed>> /\ (Finish(s) \/ Todo(s, T))
  BY <1>1, <1>5 DEF EnqueueFails, db
<1>7. /\ r \in Session /\ UnderWay(r) /\ Exists(u) /\ r.kind \in AllKinds /\ r.seen = user[u]
      /\ \A y \in r.todo : JobOf(r, y)
  BY <1>1, <1>2, <1>4, Started DEF UnderWay
<1>8. CASE Finish(s)
  BY <1>1, <1>2, <1>3, <1>6, <1>8, Quits
<1>9. CASE ~Finish(s)
  <2>1. Todo(s, T) /\ (T # {} \/ r.kind = "delete")
    BY <1>1, <1>6, <1>9 DEF Todo
  <2>2. PICK q : /\ session' = [session EXCEPT ![s] = q]
                 /\ q.pc = (IF T = {} THEN "remove" ELSE "enqueue") /\ q.todo = T
                 /\ q.kind = r.kind /\ q.user = r.user /\ q.seen = r.seen /\ Busy(q)
    BY <1>1, <1>2, <2>1, Goes
  <2>3. /\ session' = [session EXCEPT ![s] = q]
        /\ q.pc = (IF T = {} THEN "remove" ELSE "enqueue") /\ q.todo = T
        /\ q.kind = r.kind /\ q.user = u /\ q.seen = user[u] /\ Busy(q)
    BY <1>4, <1>7, <2>2
  <2>4. Moves(s, u, q)
    BY <1>1, <1>2, <1>4, <1>6, <2>3, Started DEF Moves
  <2>5. \A y \in T : JobOf(q, y)'
    <3>1. r.kind = "delete" => T = {}
      BY <1>1, <1>5, <1>7 DEF JobOf
    <3> QED
      BY <1>4, <1>5, <1>6, <1>7, <2>3, <3>1 DEF JobOf
  <2>6. UnderWay(q)'
    BY <1>6, <1>7, <2>1, <2>3, <2>5, <1>2, <1>4 DEF UnderWay, Exists
  <2>7. \A v \in Users \ {u} : Exists(u)' /\ Exists(v) => user[v].email # user'[u].email
    BY <1>6, <1>7 DEF Base, ShapeInv
  <2> QED
    BY <1>3, <1>6, <1>7, <2>4, <2>6, <2>7, ShapeStep DEF Exists
<1> QED
  BY <1>8, <1>9

\* The process ends, and every request under way with it.
LEMMA DropStep ==
  ASSUME Base, DropSessions, UNCHANGED <<user, assigned, renamed, row, lastId>>
  PROVE  ShapeInv' /\ (missed' \/ (DbInv => DbInv'))
<1>1. \A s \in Sessions : ~Busy(session'[s])
  BY IdleIsNotBusy DEF DropSessions
<1>2. ShapeInv'
  BY <1>1 DEF Base, ShapeInv, Exists, Busy
<1>3. ASSUME DbInv, ~missed' PROVE DbInv'
  <2>1. ASSUME NEW v \in Users, Exists(v), user[v].email \notin renamed PROVE Settled(v)
    <3>1. CASE Left(v)
      BY <1>3, <2>1, <3>1 DEF DbInv
    <3>2. ASSUME NEW s \in Sessions, NEW r, r = session[s], Busy(r), r.user = v PROVE Settled(v)
      <4>1. r.pc \in {"write", "commit"}
        BY <1>3, <3>2, BaseTypes DEF DropSessions, HalfDone, Busy, Session
      <4>2. Between(r) = {} /\ ~CatchingUp(r) /\ r.pc # "remove"
        BY <3>2, <4>1, Started DEF UnderWay, Between, CatchingUp
      <4>3. Working(r)
        BY <1>3, <2>1, <3>2 DEF DbInv, Working
      <4> QED
        BY <3>2, <4>2, <4>3 DEF Working, Settled
    <3> QED
      BY <3>1, <3>2 DEF Left
  <2>2. ASSUME NEW v \in Users, Exists(v)', user'[v].email \notin renamed' PROVE Settled(v)'
    BY <2>1, <2>2 DEF Settled, Exists
  <2> QED
    BY <1>1, <1>3, <2>2 DEF DbInv, Free, Exists, Busy
<1> QED
  BY <1>2, <1>3

\* One more job that does not name e, or that does.
LEMMA Grown ==
  ASSUME NEW R, NEW Q, NEW n \in Nat, \A m \in 1..n : R[m] = Q[m], NEW e, ~Names(Q[n + 1], e)
  PROVE  /\ Lives(Q, e, n + 1) <=> Lives(R, e, n)
         /\ \A A, I : Agree(R, n, e, A, I) => Agree(Q, n + 1, e, A, I)
<1>1. ASSUME NEW i PROVE Held(Q, e, i, n + 1) <=> Held(R, e, i, n)
  <2>1. Held(Q, e, i, n + 1) <=> Held(Q, e, i, n)
    <3>1. \A k \in (n + 1)..(n + 1) : ~Names(Q[k], e)
      OBVIOUS
    <3>2. n + 1 \in Nat /\ n <= n + 1
      OBVIOUS
    <3> QED
      BY <3>1, <3>2, HeldGap
  <2> QED
    BY <2>1, HeldSame
<1> QED
  BY <1>1 DEF Lives, Agree

\* One more job of any name.
LEMMA GrownBy ==
  ASSUME NEW R, NEW Q, NEW n \in Nat, \A m \in 1..n : R[m] = Q[m], NEW e, NEW i
  PROVE  Held(Q, e, i, n + 1) <=> Assigns(Q[n + 1], e, i) \/ (Held(R, e, i, n) /\ ~Cancels(Q[n + 1], e, i))
<1>1. PICK p \in Nat : p = n + 1
  OBVIOUS
<1>2. Held(Q, e, i, p) <=> Assigns(Q[p], e, i) \/ (Held(Q, e, i, n) /\ ~Cancels(Q[p], e, i))
  <2>1. n < p /\ \A k \in (n + 1)..(p - 1) : ~Names(Q[k], e)
    BY <1>1
  <2> QED
    BY <2>1, HeldNext
<1>3. Held(R, e, i, n) <=> Held(Q, e, i, n)
  BY HeldSame
<1> QED
  BY <1>1, <1>2, <1>3

\* A handler enqueues one of its jobs.
LEMMA EnqueueStep ==
  ASSUME Base, NEW s \in Sessions, EnqueueNext(s)
  PROVE  ShapeInv' /\ (DbInv => DbInv')
<1>1. PICK r : r = session[s]
  OBVIOUS
<1>2. PICK x \in r.todo : /\ At(s, "enqueue") /\ Enqueue(x) /\ Todo(s, r.todo \ {x})
                          /\ UNCHANGED <<user, assigned, renamed>>
  BY <1>1 DEF EnqueueNext, db
<1>3. r.pc = "enqueue" /\ Busy(r)
  BY <1>1, <1>2 DEF At, Busy
<1>4. PICK u \in Users : u = r.user
  BY <1>1, <1>3, Started
<1>5. /\ r \in Session /\ UnderWay(r) /\ Exists(u) /\ r.kind \in AllKinds /\ r.seen = user[u]
      /\ user[u] \in Content /\ assigned[u] \subseteq Inbounds /\ \A y \in r.todo : JobOf(r, y)
  BY <1>1, <1>3, <1>4, Started DEF UnderWay
<1>6. PICK T : T = r.todo \ {x}
  OBVIOUS
<1>7. PICK q : /\ session' = [session EXCEPT ![s] = q]
               /\ Busy(q) => /\ q.pc = (IF T = {} THEN "remove" ELSE "enqueue") /\ q.todo = T
                             /\ q.kind = r.kind /\ q.user = u /\ q.seen = user[u]
               /\ Busy(q) <=> (T # {} \/ r.kind = "delete")
  <2>1. CASE T = {} /\ r.kind # "delete"
    <3>1. session' = [session EXCEPT ![s] = Idle]
      BY <1>1, <1>2, <1>6, <2>1 DEF Todo, Finish
    <3> QED
      BY <2>1, <3>1, IdleIsNotBusy
  <2>2. CASE T # {} \/ r.kind = "delete"
    <3>1. Todo(s, T)
      BY <1>2, <1>6
    <3>2. PICK q : /\ session' = [session EXCEPT ![s] = q]
                   /\ q.pc = (IF T = {} THEN "remove" ELSE "enqueue") /\ q.todo = T
                   /\ q.kind = r.kind /\ q.user = r.user /\ q.seen = r.seen /\ Busy(q)
      BY <1>1, <1>3, <2>2, <3>1, Goes
    <3> QED
      BY <1>4, <1>5, <2>2, <3>2
  <2> QED
    BY <2>1, <2>2
<1>8. Moves(s, u, q)
  BY <1>1, <1>2, <1>3, <1>4, <1>7, Started DEF Moves
<1>9. ShapeInv'
  <2>1. ASSUME Busy(q) PROVE UnderWay(q)'
    <3>1. r.kind = "delete" => T = {}
      BY <1>5, <1>6 DEF JobOf
    <3>2. \A y \in T : JobOf(q, y)'
      BY <1>2, <1>4, <1>5, <1>6, <1>7, <2>1, <3>1 DEF JobOf
    <3> QED
      BY <1>2, <1>3, <1>4, <1>5, <1>7, <2>1, <3>1, <3>2 DEF UnderWay, Exists
  <2>2. \A v \in Users \ {u} : Exists(u)' /\ Exists(v) => user[v].email # user'[u].email
    BY <1>2, <1>5 DEF Base, ShapeInv
  <2> QED
    BY <1>2, <1>5, <1>8, <2>1, <2>2, ShapeStep DEF Exists
<1>10. ASSUME DbInv PROVE DbInv'
  <2>1. PICK n \in Nat : n = lastId
    BY BaseTypes
  <2>2. PICK Q : Q = row'
    OBVIOUS
  <2>3. lastId' = n + 1 /\ Q[n + 1] = x /\ \A m \in 1..n : row[m] = Q[m]
    <3>1. lastId + 1 \in JobId /\ row \in [JobId -> Rows \cup {NoRow}]
      BY <1>2, NewId DEF Enqueue, Base, TypeOK
    <3>2. \A m \in 1..n : m # n + 1
      OBVIOUS
    <3>3. row' = [row EXCEPT ![lastId + 1] = x] /\ lastId' = lastId + 1
      BY <1>2 DEF Enqueue
    <3> QED
      BY <2>1, <2>2, <3>1, <3>2, <3>3
  <2>4. PICK d : d = user[u].email
    OBVIOUS
  <2>5. JobOf(r, x) /\ Names(x, d) /\ \A e : e # d => ~Names(x, e)
    BY <1>2, <1>5, <2>4 DEF JobOf, Names
  <2>6. \A e : e # d => /\ Lives(Q, e, n + 1) <=> Lives(row, e, n)
                        /\ \A A, I : Agree(row, n, e, A, I) => Agree(Q, n + 1, e, A, I)
    BY <2>3, <2>5, Grown
  <2>7. ASSUME NEW c, c.email # d, Fresh(row, n, c) PROVE Fresh(Q, n + 1, c)
    BY <2>3, <2>5, <2>7, FreshNext
  <2>8. d \notin renamed => Working(r)
    BY <1>1, <1>3, <1>4, <1>10, <2>4 DEF DbInv, Working
  <2>9. PICK I : I = {y.inbound : y \in {z \in T : z.op \in {"assign", "unassign"}}}
    OBVIOUS
  <2>10. ASSUME d \notin renamed, r.kind # "delete" PROVE Agree(Q, n + 1, d, assigned[u], I)
    <3>1. Agree(row, n, d, assigned[u], Between(r))
      BY <1>3, <1>4, <2>1, <2>4, <2>8, <2>10 DEF Working
    <3> SUFFICES ASSUME NEW i \in Inbounds \ I PROVE i \in assigned[u] <=> Held(Q, d, i, n + 1)
      BY DEF Agree
    <3>2. Held(Q, d, i, n + 1) <=> Assigns(x, d, i) \/ (Held(row, d, i, n) /\ ~Cancels(x, d, i))
      BY <2>3, GrownBy
    <3>3. x.op # "delete"
      BY <1>5, <2>5, <2>10 DEF JobOf, AllKinds, Rewrites
    <3>4. CASE x.op \in {"assign", "unassign"} /\ x.inbound = i
      <4>1. r.kind = "setInbounds"
        BY <1>5, <2>5, <3>4 DEF JobOf, AllKinds, Rewrites
      <4>2. (x.op = "assign" /\ i \in assigned[u]) \/ (x.op = "unassign" /\ i \notin assigned[u])
        BY <1>4, <2>5, <3>4, <4>1 DEF JobOf
      <4> QED
        BY <2>5, <3>2, <3>4, <4>2 DEF Assigns, Cancels
    <3>5. CASE ~(x.op \in {"assign", "unassign"} /\ x.inbound = i)
      <4>1. i \notin Between(r)
        BY <1>6, <2>9, <3>5 DEF Between
      <4>2. i \in assigned[u] <=> Held(row, d, i, n)
        BY <3>1, <4>1 DEF Agree
      <4> QED
        BY <3>2, <3>3, <3>5, <4>2 DEF Assigns, Cancels
    <3> QED
      BY <3>4, <3>5
  <2>11. ASSUME d \notin renamed, Fresh(row, n, user[u]) \/ x.op = "update" PROVE Fresh(Q, n + 1, user[u])
    <3>1. x.payload = user[u]
      BY <1>5, <2>5 DEF JobOf
    <3>2. CASE x.op = "update"
      BY <2>3, <2>4, <2>5, <3>1, <3>2, FreshUpdate DEF Updates
    <3>3. CASE Fresh(row, n, user[u])
      BY <2>3, <3>1, <3>3, FreshNext
    <3> QED
      BY <2>11, <3>2, <3>3
  <2>12. ASSUME d \notin renamed, ~CatchingUp(r) \/ r.kind \in Rewrites PROVE Fresh(Q, n + 1, user[u])
    <3>1. CASE r.kind \in Rewrites
      BY <2>5, <2>11, <2>12, <3>1 DEF JobOf
    <3>2. CASE ~CatchingUp(r)
      BY <1>4, <2>1, <2>8, <2>11, <2>12, <3>2 DEF Working
    <3> QED
      BY <2>12, <3>1, <3>2
  <2>13. d \notin renamed => Fresh(Q, n + 1, user[u])
    BY <2>12 DEF CatchingUp
  <2>14. ASSUME NEW e \in Emails \ renamed', Free(e)' PROVE ~Lives(row', e, lastId')
    <3>1. Free(e) /\ e # d
      BY <1>2, <1>5, <2>4, <2>14 DEF Free, Exists
    <3> QED
      BY <1>2, <1>10, <2>1, <2>2, <2>3, <2>6, <3>1 DEF DbInv
  <2>15. ASSUME NEW v \in Users, Exists(v)', Left(v)', user'[v].email \notin renamed' PROVE Settled(v)'
    <3>1. CASE v = u
      <4>1. session'[s] = q
        BY <1>8, Moved
      <4>2. ~Busy(q)
        BY <1>7, <2>15, <3>1, <4>1 DEF Left, Busy
      <4>3. T = {} /\ r.kind # "delete" /\ I = {} /\ d \notin renamed
        BY <1>2, <1>7, <2>4, <2>9, <2>15, <3>1, <4>2
      <4>4. Agree(Q, n + 1, d, assigned[u], {}) /\ Fresh(Q, n + 1, user[u])
        BY <2>10, <2>13, <4>3
      <4>5. Settled(u)'
        BY <1>2, <2>2, <2>3, <2>4, <4>4 DEF Settled
      <4> QED
        BY <3>1, <4>5 DEF Settled
    <3>2. CASE v # u
      <4>1. Exists(v) /\ Left(v) /\ user[v].email \notin renamed /\ user[v].email # d
        <5>1. Left(v)
          BY <1>4, <1>8, <2>15, <3>2, Moved, <1>1 DEF Left, Moves
        <5> QED
          BY <1>2, <1>5, <2>4, <2>15, <3>2, <5>1 DEF Exists, Base, ShapeInv
      <4>2. Settled(v)
        BY <1>10, <4>1 DEF DbInv
      <4>3. Agree(Q, n + 1, user[v].email, assigned[v], {}) /\ Fresh(Q, n + 1, user[v])
        BY <2>1, <2>6, <2>7, <4>1, <4>2 DEF Settled
      <4> QED
        BY <1>2, <2>2, <2>3, <4>3 DEF Settled
    <3> QED
      BY <3>1, <3>2
  <2>16. ASSUME NEW t \in Sessions, NEW p, p = session'[t], Busy(p), user'[p.user].email \notin renamed'
         PROVE  Working(p)'
    <3>1. CASE t = s
      <4>1. p = q /\ p.user = u /\ d \notin renamed
        <5>1. session'[s] = q
          BY <1>8, Moved
        <5> QED
          BY <1>2, <1>7, <2>4, <2>16, <3>1, <5>1
      <4>2. Between(p) = I /\ p.pc = (IF T = {} THEN "remove" ELSE "enqueue") /\ (T = {} => r.kind = "delete")
        BY <1>7, <2>9, <2>16, <4>1 DEF Between
      <4>3. r.kind = "delete" => T = {} /\ ~Lives(Q, d, n + 1)
        <5>1. ASSUME r.kind = "delete" PROVE T = {} /\ x.op = "delete"
          BY <1>6, <2>5, <5>1 DEF JobOf
        <5>2. ASSUME r.kind = "delete", NEW i PROVE ~Held(Q, d, i, n + 1)
          BY <2>3, <2>5, <5>1, <5>2, GrownBy DEF Assigns, Cancels
        <5> QED
          BY <5>1, <5>2 DEF Lives
      <4> QED
        BY <1>2, <2>2, <2>3, <2>4, <2>10, <2>13, <4>1, <4>2, <4>3 DEF Working
    <3>2. CASE t # s
      <4>1. p = session[t] /\ p.user # u
        BY <1>1, <1>4, <1>8, <2>16, <3>2, Moved DEF Moves
      <4>2. user[p.user].email \notin renamed /\ user[p.user].email # d
        BY <1>2, <1>5, <2>4, <2>16, <4>1 DEF Base, ShapeInv, UnderWay
      <4>3. Working(p)
        BY <1>10, <2>16, <4>1, <4>2 DEF DbInv
      <4>4. /\ p.pc = "remove" => ~Lives(Q, user[p.user].email, n + 1)
            /\ p.pc # "remove" => Agree(Q, n + 1, user[p.user].email, assigned[p.user], Between(p))
            /\ ~CatchingUp(p) => Fresh(Q, n + 1, user[p.user])
        BY <2>1, <2>6, <2>7, <4>2, <4>3 DEF Working
      <4> QED
        BY <1>2, <2>2, <2>3, <4>4 DEF Working
    <3> QED
      BY <3>1, <3>2
  <2>17. ASSUME NEW j \in 1..(n + 1), NEW e \in Emails \ renamed, Updates(Q[j], e) PROVE Lives(Q, e, j)
    <3>1. CASE j \in 1..n
      <4>1. Lives(row, e, j)
        BY <1>10, <2>1, <2>3, <2>17, <3>1 DEF DbInv
      <4>2. j \in Nat /\ \A m \in 1..j : m \in 1..n
        BY <3>1
      <4> QED
        BY <2>3, <4>1, <4>2, LivesSame
    <3>2. CASE j = n + 1
      <4>1. x.op = "update" /\ e = d
        BY <2>3, <2>5, <2>17, <3>2 DEF Updates
      <4>2. r.kind \in Rewrites /\ x.inbound \in assigned[u]
        BY <1>4, <1>5, <2>5, <4>1 DEF JobOf, AllKinds, Rewrites
      <4>3. x.inbound \notin I /\ x.inbound \in Inbounds
        <5>1. \A y \in T : y.op = "update"
          BY <1>5, <1>6, <4>2 DEF JobOf
        <5> QED
          BY <1>5, <2>9, <4>2, <5>1
      <4>4. Held(Q, d, x.inbound, n + 1)
        BY <2>10, <2>17, <4>1, <4>2, <4>3 DEF Agree, Rewrites
      <4> QED
        BY <3>2, <4>1, <4>3, <4>4 DEF Lives
    <3>3. j \in 1..n \/ j = n + 1
      OBVIOUS
    <3> QED
      BY <3>1, <3>2, <3>3
  <2>18. \A t \in Sessions :
           Busy(session[t])' /\ user'[session'[t].user].email \notin renamed' => Working(session[t])'
    BY <2>16 DEF Working, Busy
  <2>19. \A j \in 1..lastId' : \A e \in Emails \ renamed' : Updates(row'[j], e) => Lives(row', e, j)
    BY <1>2, <2>2, <2>3, <2>17
  <2> QED
    BY <2>14, <2>15, <2>18, <2>19 DEF DbInv, Busy
<1> QED
  BY <1>9, <1>10

-----------------------------------------------------------------------------
(* The panel.                                                              *)

\* The last job of a name to take effect is where lastPush says.
PushedInv ==
  /\ \A j \in 1..lastId : pushes[j] > 0 => j <= lastPush[row[j].payload.email]
  /\ \A e \in Emails : lastPush[e] > 0 =>
       lastPush[e] <= lastId /\ Names(row[lastPush[e]], e) /\ pushes[lastPush[e]] > 0

\* No job of e has been left out so far.
Gapless(e) == \A j \in 1..lastPush[e] : Names(row[j], e) => pushes[j] > 0

\* Client c of e has the inbounds that the first n jobs come to.
Carries(R, e, n, c) ==
  /\ c = NoClient => ~Lives(R, e, n)
  /\ c # NoClient => \A i \in Inbounds : i \in c.inbounds <=> Held(R, e, i, n)

\* Its content is that of the job j, the last to bring one; a reset (w) may have
\* enabled it since.
BroughtBy(R, e, n, c, w, j) ==
  /\ Names(R[j], e) /\ R[j].op \in {"assign", "update"}
  /\ c.ver = R[j].payload.ver
  /\ c.on = R[j].payload.on \/ (w /\ c.on = TRUE)
  /\ \A k \in (j + 1)..n : ~Updates(R[k], e)
  /\ \A k \in j..n : Lives(R, e, k)

Brought(R, e, n, c, w) == \E j \in 1..n : BroughtBy(R, e, n, c, w, j)

ClientsInv ==
  \A e \in Emails \ renamed : Gapless(e) =>
    /\ Carries(row, e, lastPush[e], panel[e])
    /\ e \in orphaned => panel[e] # NoClient
    /\ panel[e] # NoClient /\ e \notin orphaned =>
         Brought(row, e, lastPush[e], panel[e], WasReset(e))

\* Only the first n jobs count, and whether there was a reset.
LEMMA BroughtSame ==
  ASSUME NEW R, NEW Q, NEW e, NEW n \in Nat, NEW c, NEW v, NEW w, v => w,
         \A m \in 1..n : R[m] = Q[m], Brought(R, e, n, c, v)
  PROVE  Brought(Q, e, n, c, w)
<1>1. PICK j \in 1..n : BroughtBy(R, e, n, c, v, j)
  BY DEF Brought
<1>2. \A k \in j..n : k \in Nat /\ k \in 1..n /\ \A m \in 1..k : m \in 1..n
  OBVIOUS
<1>3. \A k \in j..n : Lives(R, e, k) <=> Lives(Q, e, k)
  BY <1>2, LivesSame
<1>4. \A k \in (j + 1)..n : k \in 1..n
  OBVIOUS
<1>5. BroughtBy(Q, e, n, c, w, j)
  BY <1>1, <1>2, <1>3, <1>4 DEF BroughtBy
<1> QED
  BY <1>5 DEF Brought

LEMMA CarriesSame ==
  ASSUME NEW R, NEW Q, NEW e, NEW n \in Nat, NEW c, \A m \in 1..n : R[m] = Q[m], Carries(R, e, n, c)
  PROVE  Carries(Q, e, n, c)
BY HeldSame, LivesSame DEF Carries

\* The types of the history of the pushes.
LEMMA PushTypes ==
  ASSUME Base
  PROVE  /\ lastPush \in [Emails -> Nat] /\ pushes \in [JobId -> Nat] /\ 1..lastId \subseteq JobId
         /\ \A j \in 1..lastId : row[j].payload.email \in Emails
<1>1. \A j \in 1..lastId : row[j].payload.email \in Emails
  BY BaseTypes DEF JobRows, Content
<1>2. lastPush \in [Emails -> Nat]
  BY SyncJobsAssumption DEF Base, PanelInv
<1>3. pushes \in [JobId -> Nat] /\ 1..lastId \subseteq JobId
  BY SyncJobsAssumption DEF Base, TypeOK, JobId
<1> QED
  BY <1>1, <1>2, <1>3

\* Nothing takes effect on the panel: the outbox may have a row more.
LEMMA PanelLeft ==
  ASSUME Base, PushedInv, lastId' \in Nat, lastId <= lastId',
         \A k \in 1..lastId : row'[k] = row[k] /\ pushes'[k] = pushes[k],
         \A k \in 1..lastId' : k > lastId => pushes'[k] = 0,
         UNCHANGED <<panel, lastPush, orphaned>>, renamed \subseteq renamed'
  PROVE  PushedInv' /\ (ClientsInv => ClientsInv')
<1>0. \A e \in Emails : lastPush[e] \in Nat /\ lastPush[e] <= lastId
  <2>1. \A e \in Emails : lastPush[e] \in Nat /\ (lastPush[e] > 0 => lastPush[e] <= lastId)
    BY PushTypes DEF PushedInv
  <2> QED
    BY <2>1, BaseTypes
<1>1. PushedInv'
  <2>1. \A j \in 1..lastId' : pushes'[j] > 0 => j <= lastPush'[row'[j].payload.email]
    <3>1. \A j \in 1..lastId' : j \in 1..lastId \/ j > lastId
      BY BaseTypes
    <3> QED
      BY <3>1 DEF PushedInv
  <2>2. ASSUME NEW e \in Emails, lastPush'[e] > 0
        PROVE  lastPush'[e] <= lastId' /\ Names(row'[lastPush'[e]], e) /\ pushes'[lastPush'[e]] > 0
    <3>1. lastPush[e] \in 1..lastId /\ lastPush'[e] = lastPush[e]
      BY <1>0, <2>2, BaseTypes
    <3> QED
      BY <2>2, <3>1, BaseTypes DEF PushedInv
  <2> QED
    BY <2>1, <2>2 DEF PushedInv
<1>2. ASSUME ClientsInv, NEW e \in Emails \ renamed', Gapless(e)'
      PROVE  /\ Carries(row', e, lastPush'[e], panel'[e])
             /\ e \in orphaned' => panel'[e] # NoClient
             /\ panel'[e] # NoClient /\ e \notin orphaned' =>
                  Brought(row', e, lastPush'[e], panel'[e], WasReset(e)')
  <2>1. PICK n \in Nat : n = lastPush[e] /\ n <= lastId /\ lastPush'[e] = n
    BY <1>0
  <2>2. \A m \in 1..n : m \in 1..lastId /\ row[m] = row'[m]
    BY <2>1, BaseTypes
  <2>3. Gapless(e)
    BY <1>2, <2>1, <2>2 DEF Gapless
  <2>4. WasReset(e) => WasReset(e)'
    <3>1. \A j \in 1..lastId : j \in 1..lastId'
      BY BaseTypes
    <3> QED
      BY <3>1 DEF WasReset
  <2>5. /\ Carries(row, e, n, panel[e])
        /\ e \in orphaned => panel[e] # NoClient
        /\ panel[e] # NoClient /\ e \notin orphaned => Brought(row, e, n, panel[e], WasReset(e))
    BY <1>2, <2>1, <2>3 DEF ClientsInv
  <2>6. Carries(row', e, n, panel[e])
    BY <2>2, <2>5, CarriesSame
  <2>7. panel[e] # NoClient /\ e \notin orphaned => Brought(row', e, n, panel[e], WasReset(e)')
    BY <2>2, <2>4, <2>5, BroughtSame
  <2> QED
    BY <2>1, <2>5, <2>6, <2>7
<1> QED
  BY <1>1, <1>2 DEF ClientsInv

\* The last job counted, pushed for the first time or once more.
LEMMA HeldPush ==
  ASSUME NEW R, NEW e, NEW i, NEW n \in Nat, NEW j \in Nat, j >= 1, n <= j,
         \A k \in (n + 1)..(j - 1) : ~Names(R[k], e)
  PROVE  Held(R, e, i, j) <=> Assigns(R[j], e, i) \/ (Held(R, e, i, n) /\ ~Cancels(R[j], e, i))
<1>1. CASE n < j
  BY <1>1, HeldNext
<1>2. CASE n = j
  <2>1. PICK m \in Nat : m = j - 1
    OBVIOUS
  <2>2. m < j /\ \A k \in (m + 1)..(j - 1) : ~Names(R[k], e)
    BY <2>1
  <2>3. Held(R, e, i, j) <=> Assigns(R[j], e, i) \/ (Held(R, e, i, m) /\ ~Cancels(R[j], e, i))
    BY <2>2, HeldNext
  <2> QED
    BY <1>2, <2>3
<1> QED
  BY <1>1, <1>2

\* What keeps its inbounds keeps its content, but for an update.
LEMMA StillBrought ==
  ASSUME NEW R, NEW e, NEW n \in Nat, NEW j \in Nat, n <= j,
         \A k \in (n + 1)..(j - 1) : ~Names(R[k], e),
         ~Updates(R[j], e), Lives(R, e, j),
         NEW c, NEW d, NEW v, NEW w, v => w, d.ver = c.ver, d.on = c.on \/ (w /\ d.on = TRUE),
         Brought(R, e, n, c, v)
  PROVE  Brought(R, e, j, d, w)
<1>1. PICK m \in 1..n : BroughtBy(R, e, n, c, v, m)
  BY DEF Brought
<1>2. m \in 1..j /\ \A k \in (m + 1)..j : k \in (m + 1)..n \/ k \in (n + 1)..(j - 1) \/ k = j
  BY <1>1
<1>3. \A k \in (m + 1)..j : ~Updates(R[k], e)
  BY <1>1, <1>2 DEF BroughtBy, Updates
<1>4. ASSUME NEW k \in m..j PROVE Lives(R, e, k)
  <2>1. k \in m..n \/ k = j \/ (k \in Nat /\ n <= k /\ k < j)
    BY <1>4
  <2>2. CASE k \in m..n \/ k = j
    BY <1>1, <2>2 DEF BroughtBy
  <2>3. CASE k \in Nat /\ n <= k /\ k < j
    <3>1. \A x \in (n + 1)..k : ~Names(R[x], e)
      BY <2>3
    <3>2. Lives(R, e, n)
      BY <1>1 DEF BroughtBy
    <3> QED
      BY <2>3, <3>1, <3>2, LivesGap
  <2> QED
    BY <2>1, <2>2, <2>3
<1>5. BroughtBy(R, e, j, d, w, m)
  BY <1>1, <1>3, <1>4 DEF BroughtBy
<1> QED
  BY <1>2, <1>5 DEF Brought

\* The content a job brings.
LEMMA JustBrought ==
  ASSUME NEW R, NEW e, NEW j \in Nat, j >= 1, Names(R[j], e), R[j].op \in {"assign", "update"},
         Lives(R, e, j), NEW d, d.ver = R[j].payload.ver, d.on = R[j].payload.on, NEW w
  PROVE  Brought(R, e, j, d, w)
<1>1. j \in 1..j /\ (\A k \in (j + 1)..j : FALSE) /\ \A k \in j..j : k = j
  OBVIOUS
<1>2. BroughtBy(R, e, j, d, w, j)
  BY <1>1 DEF BroughtBy
<1> QED
  BY <1>1, <1>2 DEF Brought

\* The panel carries out job j of e, the last of its name so far: of the client
\* c it makes d.
LEMMA CarryOut ==
  ASSUME Base, NEW j \in 1..lastId, NEW e \in Emails, Names(row[j], e), ~Refuses(row[j]),
         NEW n \in Nat, n <= j, \A k \in (n + 1)..(j - 1) : ~Names(row[k], e),
         Updates(row[j], e) => Lives(row, e, j),
         NEW c, c = panel[e], Carries(row, e, n, c), e \in orphaned => c # NoClient,
         NEW v, NEW w, v => w, row[j].op = "reset" => w,
         c # NoClient /\ e \notin orphaned => Brought(row, e, n, c, v),
         NEW d \in After(row[j])
  PROVE  /\ Carries(row, e, j, d)
         /\ e \in Orphans(row[j], d) => d # NoClient
         /\ d # NoClient /\ e \notin Orphans(row[j], d) => Brought(row, e, j, d, w)
<1>1. PICK r : r = row[j]
  OBVIOUS
<1>2. /\ r \in JobRows /\ r.op \in Ops /\ (r.op # "delete" => r.inbound \in Inbounds)
      /\ r.payload.email = e
  BY <1>1, BaseTypes DEF JobRows, Ops, Names
<1>3. j \in Nat /\ j >= 1
  BY BaseTypes
<1>4. c \in Client \cup {NoClient}
  BY DEF Base, PanelInv, ClientOf
<1>5. \A i \in Inbounds : Held(row, e, i, j) <=> Assigns(r, e, i) \/ (Held(row, e, i, n) /\ ~Cancels(r, e, i))
  BY <1>1, <1>3, HeldPush
<1>6. c = NoClient => \A i \in Inbounds : ~Held(row, e, i, n)
  BY DEF Carries, Lives
<1>7. c # NoClient => c.inbounds \subseteq Inbounds /\ \A i \in Inbounds : i \in c.inbounds <=> Held(row, e, i, n)
  BY <1>4 DEF Carries, Client
<1>8. ASSUME d # NoClient, d.ver = c.ver, d.on = c.on \/ (w /\ d.on = TRUE), d.inbounds # {},
             d.inbounds \subseteq Inbounds, Carries(row, e, j, d), r.op # "update", c # NoClient, e \notin orphaned
      PROVE  Brought(row, e, j, d, w)
  <2>1. Lives(row, e, j)
    BY <1>8 DEF Carries, Lives
  <2>2. ~Updates(row[j], e)
    BY <1>1, <1>8 DEF Updates
  <2> QED
    BY <1>3, <1>8, <2>1, <2>2, StillBrought
<1>9. CASE r.op = "assign"
  <2>1. \A i \in Inbounds : Held(row, e, i, j) <=> i = r.inbound \/ Held(row, e, i, n)
    BY <1>2, <1>5, <1>9 DEF Assigns, Cancels, Names
  <2>2. Lives(row, e, j)
    BY <1>2, <1>9, <2>1 DEF Lives
  <2>3. CASE c = NoClient
    <3>1. d = [ver |-> r.payload.ver, on |-> r.payload.on, inbounds |-> {r.inbound}]
      BY <1>1, <1>2, <1>9, <2>3 DEF After
    <3>2. d.ver = r.payload.ver /\ d.on = r.payload.on /\ d.inbounds = {r.inbound}
      BY <3>1
    <3>3. d # NoClient
      <4>1. d \in Client
        BY <1>2, <1>9, <3>1 DEF Client, JobRows, Content
      <4> QED
        BY <4>1, PanelSyncAssumption
    <3>4. Carries(row, e, j, d)
      BY <1>6, <2>1, <2>3, <3>2, <3>3 DEF Carries
    <3>5. Brought(row, e, j, d, w)
      BY <1>1, <1>3, <1>9, <2>2, <3>2, JustBrought
    <3> QED
      BY <3>3, <3>4, <3>5
  <2>4. CASE c # NoClient
    <3>1. d = [c EXCEPT !.inbounds = @ \cup {r.inbound}] /\ c \in Client
      BY <1>1, <1>2, <1>4, <1>9, <2>4 DEF After
    <3>2. d.ver = c.ver /\ d.on = c.on /\ d.inbounds = c.inbounds \cup {r.inbound} /\ d \in Client
      BY <1>2, <1>9, <3>1 DEF Client
    <3>3. d # NoClient /\ d.inbounds # {} /\ d.inbounds \subseteq Inbounds
      BY <1>2, <1>7, <1>9, <2>4, <3>2, PanelSyncAssumption
    <3>4. Carries(row, e, j, d)
      BY <1>7, <2>1, <2>4, <3>2, <3>3 DEF Carries
    <3>5. Orphans(row[j], d) = orphaned
      BY <1>1, <1>9, <3>3 DEF Orphans
    <3> QED
      BY <1>8, <1>9, <2>4, <3>2, <3>3, <3>4, <3>5
  <2> QED
    BY <2>3, <2>4
<1>10. CASE r.op = "update"
  <2>1. c # NoClient /\ c \in Client
    BY <1>1, <1>2, <1>4, <1>10 DEF Refuses
  <2>2. d = [c EXCEPT !.ver = r.payload.ver, !.on = r.payload.on]
    BY <1>1, <1>2, <1>10 DEF After
  <2>3. d.ver = r.payload.ver /\ d.on = r.payload.on /\ d.inbounds = c.inbounds /\ d \in Client
    BY <1>2, <2>1, <2>2 DEF Client, JobRows, Content
  <2>4. d # NoClient
    BY <2>3, PanelSyncAssumption
  <2>5. \A i \in Inbounds : Held(row, e, i, j) <=> Held(row, e, i, n)
    BY <1>5, <1>10 DEF Assigns, Cancels
  <2>6. Carries(row, e, j, d)
    BY <1>7, <2>1, <2>3, <2>4, <2>5 DEF Carries
  <2>7. Lives(row, e, j)
    BY <1>1, <1>10 DEF Updates
  <2>8. Brought(row, e, j, d, w)
    BY <1>1, <1>3, <1>10, <2>3, <2>7, JustBrought
  <2> QED
    BY <2>4, <2>6, <2>8
<1>11. CASE r.op = "delete"
  <2>1. d = NoClient
    BY <1>1, <1>11 DEF After
  <2>2. \A i \in Inbounds : ~Held(row, e, i, j)
    BY <1>2, <1>5, <1>11 DEF Assigns, Cancels, Names
  <2> QED
    BY <1>1, <1>2, <2>1, <2>2 DEF Carries, Lives, Orphans
<1>12. CASE r.op = "reset"
  <2>1. \A i \in Inbounds : Held(row, e, i, j) <=> Held(row, e, i, n)
    BY <1>5, <1>12 DEF Assigns, Cancels
  <2>2. CASE c = NoClient
    <3>1. d = NoClient
      BY <1>1, <1>2, <1>12, <2>2 DEF After
    <3> QED
      BY <1>1, <1>2, <1>6, <2>1, <2>2, <3>1 DEF Carries, Lives, Orphans
  <2>3. CASE c # NoClient
    <3>1. d = [c EXCEPT !.on = TRUE] /\ c \in Client
      BY <1>1, <1>2, <1>4, <1>12, <2>3 DEF After
    <3>2. d.ver = c.ver /\ d.on = TRUE /\ w /\ d.inbounds = c.inbounds /\ d \in Client
      BY <1>1, <1>12, <3>1 DEF Client
    <3>3. d # NoClient
      BY <3>2, PanelSyncAssumption
    <3>4. Carries(row, e, j, d)
      BY <1>7, <2>1, <2>3, <3>2, <3>3 DEF Carries
    <3>5. Orphans(row[j], d) = IF d.inbounds = {} THEN orphaned \cup {e} ELSE orphaned
      BY <1>1, <1>2, <1>12, <3>3 DEF Orphans
    <3> QED
      BY <1>7, <1>8, <1>12, <2>3, <3>2, <3>3, <3>4, <3>5
  <2> QED
    BY <2>2, <2>3
<1>13. CASE r.op = "unassign"
  <2>1. \A i \in Inbounds : Held(row, e, i, j) <=> i # r.inbound /\ Held(row, e, i, n)
    BY <1>2, <1>5, <1>13 DEF Assigns, Cancels, Names
  <2>2. CASE c = NoClient
    <3>1. d = NoClient
      BY <1>1, <1>2, <1>13, <2>2 DEF After
    <3> QED
      BY <1>1, <1>2, <1>6, <2>1, <2>2, <3>1 DEF Carries, Lives, Orphans
  <2>3. CASE c # NoClient
    <3>1. PICK rest : rest = c.inbounds \ {r.inbound}
      OBVIOUS
    <3>2. \A i \in Inbounds : i \in rest <=> Held(row, e, i, j)
      BY <1>7, <2>1, <2>3, <3>1
    <3>3. c \in Client
      BY <1>4, <2>3
    <3>4. CASE d = NoClient
      <4>1. rest = {}
        <5>1. ASSUME rest # {} PROVE FALSE
          <6>1. d = [c EXCEPT !.inbounds = rest]
            BY <1>1, <1>2, <1>13, <2>3, <3>1, <5>1 DEF After
          <6>2. d \in Client
            BY <3>1, <3>3, <6>1 DEF Client
          <6> QED
            BY <3>4, <6>2, PanelSyncAssumption
        <5> QED
          BY <5>1
      <4> QED
        BY <1>1, <1>2, <3>2, <3>4, <4>1 DEF Carries, Lives, Orphans
    <3>5. CASE d # NoClient
      <4>1. d = [c EXCEPT !.inbounds = rest]
        <5>1. CASE rest # {}
          BY <1>1, <1>2, <1>13, <2>3, <3>1, <5>1 DEF After
        <5>2. CASE rest = {}
          BY <1>1, <1>2, <1>13, <2>3, <3>1, <3>5, <5>2 DEF After
        <5> QED
          BY <5>1, <5>2
      <4>2. d.ver = c.ver /\ d.on = c.on /\ d.inbounds = rest /\ rest \subseteq Inbounds
        BY <1>7, <2>3, <3>1, <3>3, <4>1 DEF Client
      <4>3. Carries(row, e, j, d)
        BY <3>2, <3>5, <4>2 DEF Carries
      <4>4. Orphans(row[j], d) = IF d.inbounds = {} THEN orphaned \cup {e} ELSE orphaned
        BY <1>1, <1>2, <1>13, <3>5 DEF Orphans
      <4> QED
        BY <1>8, <1>13, <2>3, <3>5, <4>2, <4>3, <4>4
    <3> QED
      BY <3>4, <3>5
  <2> QED
    BY <2>2, <2>3
<1> QED
  BY <1>2, <1>9, <1>10, <1>11, <1>12, <1>13 DEF Ops

\* A dispatch, refused or carried out.
LEMMA PushStep ==
  ASSUME Base, PushedInv, NEW j \in JobId, NEW answer \in Answer, Push(j, answer)
  PROVE  PushedInv' /\ (overtaken' \/ (DbInv /\ ClientsInv => ClientsInv'))
<1>1. j \in DOMAIN batch /\ UNCHANGED <<row, lastId, user, assigned, renamed, session, missed>>
  BY DEF Push, Dispatch, table, db
<1>2. j \in 1..lastId /\ row[j] \in Rows /\ lastId \in Nat
  BY <1>1, ClaimedHasRow, BaseTypes DEF Base
<1>3. CASE answer = "err"
  <2>1. UNCHANGED <<panel, lastPush, orphaned>>
    BY <1>3 DEF Push, pushHistory
  <2>2. \A k \in 1..lastId : row'[k] = row[k] /\ pushes'[k] = pushes[k]
    BY <1>1, <1>3, PushTypes DEF Push, Dispatch
  <2>3. lastId' \in Nat /\ lastId <= lastId' /\ \A k \in 1..lastId' : k > lastId => pushes'[k] = 0
    BY <1>1, <1>2
  <2> QED
    BY <1>1, <2>1, <2>2, <2>3, PanelLeft
<1>4. CASE answer # "err"
  <2>1. PICK e \in Emails : e = row[j].payload.email
    BY <1>2, PushTypes
  <2>2. PICK n \in Nat : n = lastPush[e]
    BY PushTypes
  <2>3. PICK d \in After(row[j]) : panel' = [panel EXCEPT ![e] = d] /\ orphaned' = Orphans(row[j], d)
    BY <1>4, <2>1 DEF Push
  <2>4. /\ overtaken' = (overtaken \/ j < n)
        /\ lastPush'[e] = (IF j > n THEN j ELSE n)
        /\ \A x \in Emails \ {e} : lastPush'[x] = lastPush[x]
    BY <1>4, <2>1, <2>2, PushTypes DEF Push
  <2>5. panel'[e] = d /\ \A x \in Emails \ {e} : panel'[x] = panel[x]
    BY <2>3 DEF Base, PanelInv, ClientOf
  <2>6. \A x \in Emails \ {e} : x \in orphaned' <=> x \in orphaned
    BY <2>1, <2>3 DEF Orphans
  <2>7. pushes'[j] > 0 /\ \A k \in 1..lastId : k # j => pushes'[k] = pushes[k]
    BY <1>2, <1>4, PushTypes DEF Push, Dispatch
  <2>8. Names(row[j], e) /\ ~Refuses(row[j])
    BY <1>4, <2>1 DEF Names, Push
  <2>9. n <= lastId
    BY <1>2, <2>2 DEF PushedInv
  <2>10. PushedInv'
    <3>1. ASSUME NEW k \in 1..lastId, pushes'[k] > 0 PROVE k <= lastPush'[row[k].payload.email]
      <4>1. CASE k = j
        BY <1>2, <2>1, <2>2, <2>4, <4>1
      <4>2. CASE k # j
        <5>1. k <= lastPush[row[k].payload.email] /\ row[k].payload.email \in Emails
          BY <2>7, <3>1, <4>2, PushTypes DEF PushedInv
        <5> QED
          BY <1>2, <2>2, <2>4, <5>1
      <4> QED
        BY <4>1, <4>2
    <3>2. ASSUME NEW x \in Emails, lastPush'[x] > 0
          PROVE  lastPush'[x] <= lastId /\ Names(row[lastPush'[x]], x) /\ pushes'[lastPush'[x]] > 0
      <4>1. CASE lastPush'[x] = j /\ x = e
        BY <1>2, <2>7, <2>8, <4>1
      <4>2. CASE ~(lastPush'[x] = j /\ x = e)
        <5>1. lastPush'[x] = lastPush[x] /\ lastPush[x] \in Nat
          BY <2>2, <2>4, <4>2, PushTypes
        <5>2. lastPush[x] \in 1..lastId /\ Names(row[lastPush[x]], x) /\ pushes[lastPush[x]] > 0
          BY <1>2, <3>2, <5>1 DEF PushedInv
        <5> QED
          BY <1>2, <2>7, <5>1, <5>2
      <4> QED
        BY <4>1, <4>2
    <3> QED
      BY <1>1, <3>1, <3>2 DEF PushedInv
  <2>11. ASSUME NEW x, WasReset(x) PROVE WasReset(x)'
    BY <1>1, <1>2, <2>7, <2>11 DEF WasReset
  <2>12. ASSUME ~overtaken', DbInv, ClientsInv, NEW x \in Emails \ renamed', Gapless(x)'
         PROVE  /\ Carries(row', x, lastPush'[x], panel'[x])
                /\ x \in orphaned' => panel'[x] # NoClient
                /\ panel'[x] # NoClient /\ x \notin orphaned' =>
                     Brought(row', x, lastPush'[x], panel'[x], WasReset(x)')
    <3>1. CASE x = e
      <4>1. n <= j /\ lastPush'[e] = j
        <5>1. ~(j < n)
          BY <2>4, <2>12, Zenon
        <5> QED
          BY <1>2, <2>4, <5>1
      <4>2. \A k \in (n + 1)..(j - 1) : ~Names(row[k], e)
        <5> SUFFICES ASSUME NEW k \in (n + 1)..(j - 1), Names(row[k], e) PROVE FALSE
          OBVIOUS
        <5>1. k \in 1..lastId /\ k # j /\ k \in 1..j
          BY <1>2
        <5>2. pushes[k] > 0
          BY <1>1, <2>7, <2>12, <3>1, <4>1, <5>1 DEF Gapless
        <5> QED
          BY <2>2, <5>1, <5>2 DEF PushedInv, Names
      <4>3. Gapless(e)
        <5> SUFFICES ASSUME NEW k \in 1..n, Names(row[k], e) PROVE pushes[k] > 0
          BY <2>2 DEF Gapless
        <5>1. CASE k = j
          BY <1>2, <2>2, <4>1, <5>1 DEF PushedInv
        <5>2. CASE k # j
          <6>1. k \in 1..lastId /\ k \in 1..j
            BY <1>2, <4>1
          <6> QED
            BY <1>1, <2>7, <2>12, <3>1, <4>1, <5>2, <6>1 DEF Gapless
        <5> QED
          BY <5>1, <5>2
      <4>4. PICK c : c = panel[e]
        OBVIOUS
      <4>5. /\ Carries(row, e, n, c)
            /\ e \in orphaned => c # NoClient
            /\ c # NoClient /\ e \notin orphaned => Brought(row, e, n, c, WasReset(e))
        BY <1>1, <2>2, <2>12, <3>1, <4>3, <4>4 DEF ClientsInv
      <4>6. Updates(row[j], e) => Lives(row, e, j)
        BY <1>1, <1>2, <2>12, <3>1 DEF DbInv
      <4>7. WasReset(e) => WasReset(e)'
        BY <2>11
      <4>8. row[j].op = "reset" => WasReset(e)'
        BY <1>1, <1>2, <2>7, <2>8 DEF WasReset, Names
      <4>9. /\ Carries(row, e, j, d)
            /\ e \in Orphans(row[j], d) => d # NoClient
            /\ d # NoClient /\ e \notin Orphans(row[j], d) => Brought(row, e, j, d, WasReset(e)')
        <5>1. PICK v \in BOOLEAN : v = WasReset(e)
          BY DEF WasReset
        <5>2. PICK w \in BOOLEAN : w = WasReset(e)'
          BY DEF WasReset
        <5>3. (v => w) /\ (row[j].op = "reset" => w)
          BY <4>7, <4>8, <5>1, <5>2
        <5>4. /\ Carries(row, e, n, c)
              /\ e \in orphaned => c # NoClient
              /\ c # NoClient /\ e \notin orphaned => Brought(row, e, n, c, v)
          BY <4>5, <5>1
        <5>5. /\ Carries(row, e, j, d)
              /\ e \in Orphans(row[j], d) => d # NoClient
              /\ d # NoClient /\ e \notin Orphans(row[j], d) => Brought(row, e, j, d, w)
          BY <1>2, <2>8, <4>1, <4>2, <4>4, <4>6, <5>3, <5>4, CarryOut
        <5> QED
          BY <5>2, <5>5
      <4> QED
        BY <1>1, <2>3, <2>5, <3>1, <4>1, <4>9
    <3>2. CASE x # e
      <4>1. lastPush'[x] = lastPush[x] /\ panel'[x] = panel[x] /\ (x \in orphaned' <=> x \in orphaned)
        BY <2>4, <2>5, <2>6, <3>2
      <4>2. lastPush[x] \in Nat /\ \A k \in 1..lastPush[x] : k \in 1..lastId
        BY <1>2, PushTypes DEF PushedInv
      <4>3. Gapless(x)
        <5> SUFFICES ASSUME NEW k \in 1..lastPush[x], Names(row[k], x) PROVE pushes[k] > 0
          BY DEF Gapless
        <5>1. k # j /\ k \in 1..lastId
          BY <2>8, <3>2, <4>2 DEF Names
        <5> QED
          BY <1>1, <2>7, <2>12, <4>1, <5>1 DEF Gapless
      <4>4. /\ Carries(row, x, lastPush[x], panel[x])
            /\ x \in orphaned => panel[x] # NoClient
            /\ panel[x] # NoClient /\ x \notin orphaned =>
                 Brought(row, x, lastPush[x], panel[x], WasReset(x))
        BY <1>1, <2>12, <4>3 DEF ClientsInv
      <4>5. panel[x] # NoClient /\ x \notin orphaned =>
              Brought(row, x, lastPush[x], panel[x], WasReset(x)')
        BY <2>11, <4>2, <4>4, BroughtSame
      <4> QED
        BY <1>1, <4>1, <4>4, <4>5
    <3> QED
      BY <3>1, <3>2
  <2> QED
    BY <2>10, <2>12 DEF ClientsInv
<1> QED
  BY <1>3, <1>4

-----------------------------------------------------------------------------
(* The whole.                                                              *)

\* A step that enqueues nothing and pushes nothing.
LEMMA OutboxLeft ==
  ASSUME Base, PushedInv, UNCHANGED <<row, lastId, pushes, panel, lastPush, orphaned>>,
         renamed \subseteq renamed'
  PROVE  PushedInv' /\ (ClientsInv => ClientsInv')
<1>1. lastId' \in Nat /\ lastId <= lastId' /\ \A k \in 1..lastId' : k > lastId => pushes'[k] = 0
  BY BaseTypes
<1> QED
  BY <1>1, PanelLeft

\* An Enqueue: the new row has not been pushed.
LEMMA OutboxGrows ==
  ASSUME Base, PushedInv, NEW s \in Sessions, EnqueueNext(s)
  PROVE  PushedInv' /\ (ClientsInv => ClientsInv')
<1>1. PICK x \in session[s].todo : Enqueue(x) /\ UNCHANGED <<db, panel, pushHistory>>
  BY DEF EnqueueNext
<1>2. /\ lastId + 1 \in JobId /\ lastId \in Nat /\ row \in [JobId -> Rows \cup {NoRow}]
      /\ pushes \in [JobId -> Nat]
  BY <1>1, NewId, BaseTypes DEF Base, TypeOK
<1>3. lastId' = lastId + 1 /\ row' = [row EXCEPT ![lastId + 1] = x] /\ pushes' = pushes
  BY <1>1 DEF Enqueue
<1>4. pushes'[lastId + 1] = 0
  BY <1>2, <1>3 DEF Base, BatchInv, FreshIds
<1>5. \A k \in 1..lastId' : k > lastId => k = lastId + 1
  BY <1>2, <1>3
<1>6. \A k \in 1..lastId : row'[k] = row[k] /\ pushes'[k] = pushes[k]
  <2>1. \A k \in 1..lastId : k # lastId + 1 /\ k \in JobId
    BY <1>2, PushTypes
  <2> QED
    BY <1>2, <1>3, <2>1
<1>7. lastId' \in Nat /\ lastId <= lastId'
  BY <1>2, <1>3
<1>8. \A k \in 1..lastId' : k > lastId => pushes'[k] = 0
  BY <1>4, <1>5
<1>9. UNCHANGED <<panel, lastPush, orphaned>> /\ renamed \subseteq renamed'
  BY <1>1 DEF db, pushHistory
<1> QED
  BY <1>6, <1>7, <1>8, <1>9, PanelLeft

\* The inductive invariant: what the database, the outbox and the panel have to
\* do with one another while requests are under way and jobs are waiting.
SyncInv ==
  /\ ShapeInv
  /\ PushedInv
  /\ missed \/ DbInv
  /\ missed \/ overtaken \/ ClientsInv

\* A request's step keeps it.
LEMMA RequestKeeps ==
  ASSUME Base, SyncInv, Exclusive, Request
  PROVE  SyncInv'
<1>1. UNCHANGED <<row, lastId, pushes, panel, lastPush, overtaken, orphaned>>
  BY DEF Request, jobVars, pushHistory
<1>2. ShapeInv' /\ (missed' \/ (DbInv => DbInv')) /\ (missed => missed') /\ renamed \subseteq renamed'
  <2>1. ASSUME NEW u \in Users, NEW e \in Emails, CreateUser(u, e)
        PROVE  ShapeInv' /\ (DbInv => DbInv') /\ missed' = missed /\ renamed' = renamed
    <3>1. missed' = missed /\ renamed' = renamed
      BY <2>1 DEF CreateUser
    <3> QED
      BY <1>1, <2>1, <3>1, CreateStep
  <2>2. ASSUME NEW s \in Sessions, NEW k \in Kinds, NEW u \in Users, Begin(s, k, u)
        PROVE  ShapeInv' /\ (DbInv => DbInv') /\ missed' = missed /\ renamed' = renamed
    <3>1. missed' = missed /\ renamed' = renamed
      BY <2>2 DEF Begin, db
    <3> QED
      BY <1>1, <2>2, <3>1, BeginStep
  <2>3. ASSUME NEW s \in Sessions, Proceed(s)
        PROVE  ShapeInv' /\ (DbInv => DbInv') /\ missed' = missed /\ renamed \subseteq renamed'
    <3>1. missed' = missed /\ renamed \subseteq renamed'
      BY <2>3 DEF Proceed, Update, Regenerate, Reread, Switch, List, ReadCurrent, SetInbounds, RemoveUser, db
    <3>2. ShapeInv' /\ (DbInv => DbInv')
      BY <1>1, <2>3, UpdateStep, RegenerateStep, RereadStep, SwitchStep, ListStep, ReadCurrentStep,
         SetInboundsStep, RemoveStep DEF Proceed
    <3> QED
      BY <3>1, <3>2
  <2>4. ASSUME NEW s \in Sessions, CallFails(s)
        PROVE  ShapeInv' /\ (missed' \/ (DbInv => DbInv')) /\ (missed => missed') /\ renamed' = renamed
    <3>1. (missed => missed') /\ renamed' = renamed
      BY <2>4 DEF CallFails, DbFault, db
    <3> QED
      BY <1>1, <2>4, <3>1, FailStep
  <2>5. ASSUME NEW s \in Sessions, NEW x \in session[s].todo, EnqueueFails(s, x)
        PROVE  ShapeInv' /\ missed' /\ renamed' = renamed
    <3>1. renamed' = renamed
      BY <2>5 DEF EnqueueFails, db
    <3> QED
      BY <1>1, <2>5, <3>1, EnqueueFailStep
  <2> QED
    BY <2>1, <2>2, <2>3, <2>4, <2>5 DEF Request
<1>3. PushedInv' /\ (ClientsInv => ClientsInv')
  BY <1>1, <1>2, OutboxLeft DEF SyncInv
<1> QED
  BY <1>1, <1>2, <1>3 DEF SyncInv

\* Every step keeps it.
LEMMA StepKeeps ==
  ASSUME Base, SyncInv, Exclusive, [PanelNext]_vars
  PROVE  SyncInv'
<1>1. CASE Request
  BY <1>1, RequestKeeps
<1>2. ASSUME NEW s \in Sessions, EnqueueNext(s) PROVE SyncInv'
  <2>1. missed' = missed /\ overtaken' = overtaken
    BY <1>2 DEF EnqueueNext, pushHistory
  <2> QED
    BY <1>2, <2>1, EnqueueStep, OutboxGrows DEF SyncInv
<1>3. ASSUME NEW j \in JobId, NEW answer \in Answer, Push(j, answer) PROVE SyncInv'
  <2>1. UNCHANGED <<user, assigned, renamed, session, row, lastId, missed>> /\ (overtaken => overtaken')
    BY <1>3 DEF Push, Dispatch, table, db, pushHistory
  <2>2. ShapeInv' /\ (DbInv => DbInv')
    BY <2>1 DEF SyncInv, ShapeInv, UnderWay, JobOf, Exists, Busy, DbInv, Free, Left, Settled, Working
  <2>3. PushedInv' /\ (overtaken' \/ (DbInv /\ ClientsInv => ClientsInv'))
    BY <1>3, PushStep DEF SyncInv
  <2> QED
    BY <2>1, <2>2, <2>3 DEF SyncInv
<1>4. CASE Elsewhere \/ UNCHANGED vars
  <2>1. UNCHANGED <<user, assigned, renamed, session, row, lastId, pushes, panel, lastPush,
                    overtaken, orphaned, missed>>
    BY <1>4 DEF Elsewhere, vars, adminVars, jobVars, Retry, Reap, Claim, MarkAny, Mark, Prune, Shutdown,
                Restart, TimePasses, table, worker
  <2>2. ShapeInv' /\ (DbInv => DbInv')
    BY <2>1 DEF SyncInv, ShapeInv, UnderWay, JobOf, Exists, Busy, DbInv, Free, Left, Settled, Working
  <2>3. PushedInv' /\ (ClientsInv => ClientsInv')
    BY <2>1, OutboxLeft DEF SyncInv
  <2> QED
    BY <2>1, <2>2, <2>3 DEF SyncInv
<1>5. CASE Dies
  <2>1. /\ UNCHANGED <<user, assigned, renamed, row, lastId, pushes, panel, lastPush, overtaken, orphaned>>
        /\ DropSessions /\ (missed => missed')
    BY <1>5 DEF Dies, Crash, Exit, table, db, pushHistory, DropSessions
  <2>2. ShapeInv' /\ (missed' \/ (DbInv => DbInv'))
    BY <2>1, DropStep
  <2>3. PushedInv' /\ (ClientsInv => ClientsInv')
    BY <2>1, OutboxLeft DEF SyncInv
  <2> QED
    BY <2>1, <2>2, <2>3 DEF SyncInv
<1> QED
  BY <1>1, <1>2, <1>3, <1>4, <1>5 DEF PanelNext, PushAny

\* With everything enqueued and pushed, the panel holds what is wanted.
LEMMA AtRest ==
  ASSUME Base, SyncInv, NothingLostUnpushed
  PROVE  RestsInSync
<1> SUFFICES ASSUME Quiet, Successful, ~missed, ~overtaken, NEW e \in Emails \ renamed
             PROVE  \/ panel[e] = Wanted(e)
                    \/ Wanted(e) # NoClient /\ WasReset(e) /\ panel[e] = [Wanted(e) EXCEPT !.on = TRUE]
                    \/ e \in orphaned /\ panel[e].inbounds = IF Wanted(e) = NoClient THEN {} ELSE Wanted(e).inbounds
  BY DEF RestsInSync
<1>1. \A j \in 1..lastId : pushes[j] > 0
  BY DEF Successful, NothingLostUnpushed
<1>2. PICK N \in Nat : N = lastId
  BY BaseTypes
<1>3. PICK n \in Nat : n = lastPush[e] /\ n <= N
  <2>1. lastPush[e] \in Nat /\ lastPush[e] <= lastId
    BY <1>2, PushTypes DEF SyncInv, PushedInv
  <2> QED
    BY <1>2, <2>1
<1>4. \A k \in (n + 1)..N : ~Names(row[k], e)
  <2> SUFFICES ASSUME NEW k \in (n + 1)..N, Names(row[k], e) PROVE FALSE
    OBVIOUS
  <2>1. k \in 1..lastId /\ k > n
    BY <1>2
  <2>2. k <= lastPush[e]
    BY <1>1, <2>1 DEF SyncInv, PushedInv, Names
  <2> QED
    BY <1>3, <2>1, <2>2
<1>5. PICK c : c = panel[e]
  OBVIOUS
<1>6. /\ Carries(row, e, n, c)
      /\ c # NoClient /\ e \notin orphaned => Brought(row, e, n, c, WasReset(e))
  <2>1. Gapless(e)
    BY <1>1, <1>2, <1>3 DEF Gapless
  <2> QED
    BY <1>3, <1>5, <2>1 DEF SyncInv, ClientsInv
<1>7. c \in Client \cup {NoClient}
  BY <1>5 DEF Base, PanelInv, ClientOf
<1>8. \A i : Held(row, e, i, N) <=> Held(row, e, i, n)
  BY <1>3, <1>4, HeldGap
<1>9. DbInv /\ \A u \in Users : Left(u)
  BY DEF SyncInv, Quiet, Left, Busy
<1>10. PICK owners : owners = {u \in Users : Exists(u) /\ user[u].email = e /\ assigned[u] # {}}
  OBVIOUS
<1>11. CASE owners = {}
  <2>1. Wanted(e) = NoClient
    BY <1>10, <1>11 DEF Wanted
  <2>2. \A i \in Inbounds : ~Held(row, e, i, N)
    <3>1. CASE Free(e)
      BY <1>2, <1>9, <3>1 DEF DbInv, Lives
    <3>2. CASE ~Free(e)
      <4>1. PICK u \in Users : Exists(u) /\ user[u].email = e
        BY <3>2 DEF Free
      <4>2. assigned[u] = {} /\ Settled(u)
        BY <1>9, <1>10, <1>11, <4>1 DEF DbInv
      <4> QED
        BY <1>2, <4>1, <4>2 DEF Settled, Agree
    <3> QED
      BY <3>1, <3>2
  <2>3. CASE c = NoClient
    BY <1>5, <2>1, <2>3
  <2>4. CASE c # NoClient
    <3>1. c.inbounds = {}
      BY <1>6, <1>7, <1>8, <2>2, <2>4 DEF Carries, Client
    <3>2. ~Brought(row, e, n, c, WasReset(e))
      <4> SUFFICES ASSUME NEW j \in 1..n, BroughtBy(row, e, n, c, WasReset(e), j) PROVE FALSE
        BY DEF Brought
      <4>1. n \in j..n
        OBVIOUS
      <4> QED
        BY <1>8, <2>2, <4>1 DEF BroughtBy, Lives
    <3> QED
      BY <1>5, <1>6, <2>1, <2>4, <3>1, <3>2
  <2> QED
    BY <2>3, <2>4
<1>12. CASE owners # {}
  <2>1. PICK u \in Users : u = CHOOSE v \in owners : TRUE
    BY <1>10, <1>12
  <2>2. Exists(u) /\ user[u].email = e /\ assigned[u] # {} /\ assigned[u] \subseteq Inbounds
    BY <1>10, <1>12, <2>1, BaseTypes
  <2>3. PICK w : w = Wanted(e)
    OBVIOUS
  <2>4. w = [ver |-> user[u].ver, on |-> user[u].on, inbounds |-> assigned[u]]
    BY <1>10, <1>12, <2>1, <2>3 DEF Wanted
  <2>5. w \in Client /\ w # NoClient
    BY <2>2, <2>4, PanelSyncAssumption DEF Client, Exists, Content
  <2>6. Settled(u)
    BY <1>9, <2>2 DEF DbInv
  <2>7. \A i \in Inbounds : i \in assigned[u] <=> Held(row, e, i, n)
    BY <1>2, <1>8, <2>2, <2>6 DEF Settled, Agree
  <2>8. c # NoClient /\ c \in Client /\ c.inbounds = assigned[u]
    <3>1. c # NoClient
      BY <1>6, <2>2, <2>7 DEF Carries, Lives
    <3>2. c \in Client /\ c.inbounds \subseteq Inbounds
      BY <1>7, <3>1 DEF Client
    <3> QED
      BY <1>6, <2>2, <2>7, <3>1, <3>2 DEF Carries
  <2>9. CASE e \in orphaned
    BY <1>5, <2>3, <2>4, <2>5, <2>8, <2>9
  <2>10. CASE e \notin orphaned
    <3>1. PICK j \in 1..n : BroughtBy(row, e, n, c, WasReset(e), j)
      BY <1>6, <2>8, <2>10 DEF Brought
    <3>2. row[j].payload = user[u]
      <4>1. \/ row[j].payload = user[u]
            \/ \E k \in (j + 1)..N : Updates(row[k], e)
            \/ \E k \in j..N : ~Lives(row, e, k)
        <5>1. Names(row[j], e) /\ row[j].op \in {"assign", "update"} /\ j \in 1..N
          BY <1>3, <3>1 DEF BroughtBy
        <5> QED
          BY <1>2, <2>2, <2>6, <5>1 DEF Settled, Fresh
      <4>2. ASSUME NEW k \in (j + 1)..N PROVE ~Updates(row[k], e)
        <5>1. k \in (j + 1)..n \/ k \in (n + 1)..N
          BY <1>3
        <5> QED
          BY <1>4, <3>1, <5>1 DEF BroughtBy, Updates
      <4>3. ASSUME NEW k \in j..N PROVE Lives(row, e, k)
        <5>1. CASE k \in j..n
          BY <3>1, <5>1 DEF BroughtBy
        <5>2. CASE k \notin j..n
          <6>1. k \in Nat /\ n <= k /\ n \in j..n /\ \A m \in (n + 1)..k : m \in (n + 1)..N
            BY <5>2
          <6>2. Lives(row, e, n) /\ \A m \in (n + 1)..k : ~Names(row[m], e)
            BY <1>4, <3>1, <6>1 DEF BroughtBy
          <6> QED
            BY <6>1, <6>2, LivesGap
        <5> QED
          BY <5>1, <5>2
      <4> QED
        BY <4>1, <4>2, <4>3
    <3>3. c.ver = w.ver /\ (c.on = w.on \/ (WasReset(e) /\ c.on = TRUE)) /\ c.inbounds = w.inbounds
      BY <2>4, <2>8, <3>1, <3>2 DEF BroughtBy
    <3>4. c = w \/ (WasReset(e) /\ c = [w EXCEPT !.on = TRUE])
      BY <2>5, <2>8, <3>3 DEF Client
    <3> QED
      BY <1>5, <2>3, <2>5, <3>4
  <2> QED
    BY <2>9, <2>10
<1> QED
  BY <1>11, <1>12

\* The outbox does its work: once the service has come to rest after requests
\* that did not overlap on one user, and every job is a success, the panel holds
\* exactly what the database says, for any number of users, requests, jobs, failures,
\* repeated pushes and crashes, and with the exceptions that RestsInSync names.
THEOREM PanelComesToAgree ==
  ASSUME Exclusive
  PROVE  PanelSpec => []RestsInSync
<1>1. PanelInit => SyncInv
  <2> SUFFICES ASSUME PanelInit PROVE SyncInv
    OBVIOUS
  <2>1. /\ lastId = 0 /\ \A e \in Emails : lastPush[e] = 0 /\ panel[e] = NoClient
        /\ \A u \in Users : ~Exists(u) /\ assigned[u] = {}
        /\ \A s \in Sessions : ~Busy(session[s])
        /\ orphaned = {}
    BY PanelSyncAssumption, IdleIsNotBusy DEF PanelInit, Init, Exists
  <2>2. \A e : ~Lives(row, e, 0)
    BY DEF Lives, Held
  <2>3. ShapeInv /\ PushedInv
    BY <2>1 DEF ShapeInv, PushedInv
  <2>4. DbInv
    BY <2>1, <2>2 DEF DbInv
  <2>5. ClientsInv
    BY <2>1, <2>2 DEF ClientsInv, Carries
  <2> QED
    BY <2>3, <2>4, <2>5 DEF SyncInv
<1>2. TypeOK /\ BatchInv /\ RowsWritten /\ AdminInv /\ PanelInv /\ SyncInv /\ [PanelNext]_vars => SyncInv'
  BY StepKeeps DEF Base, SyncInv
<1>3. TypeOK /\ BatchInv /\ RowsWritten /\ AdminInv /\ PanelInv /\ SyncInv /\ NothingLostUnpushed => RestsInSync
  BY AtRest DEF Base, SyncInv
<1> QED
  BY <1>1, <1>2, <1>3, OutboxImplemented, NothingLostInTheWhole, TypeCorrect, BatchInvariant, RowsAreWritten,
     AdminInvariant, PanelInvariant, PTL DEF PanelSpec
=============================================================================
