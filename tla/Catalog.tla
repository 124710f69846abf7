------------------------------ MODULE Catalog ------------------------------
(***************************************************************************)
(* The catalog of client applications: internal/apps/apps.go, the admin    *)
(* pages that edit it and the import that replaces it.  A copy of the      *)
(* table is kept as long as MAX(updated_at) and the number of rows are     *)
(* those it was loaded under.                                              *)
(*                                                                         *)
(* A row is abstracted to the stamp of its last write, which stands for    *)
(* its content; an id may be used again, which AUTOINCREMENT never does,   *)
(* and which only adds behaviours.  List, FilterByPlatform, ListAll and    *)
(* Get differ by what they pick from the copy.  A failing query ends a     *)
(* call with an error and changes nothing; it is left out.                 *)
(*                                                                         *)
(* A stamp is taken before its statement commits, so of two writes that    *)
(* overlap the older one may commit last and move neither the maximum nor  *)
(* the count; what Spec promises is promised until that happens.           *)
(***************************************************************************)
EXTENDS HotReload, FiniteSets

CONSTANT Apps   \* ids of rows

Rows == [Apps -> Stamp]

CatalogAssumption ==
  /\ IsFiniteSet(Apps)
  /\ None \notin [rows : Rows, loadedAt : Stamp] \cup [{"list"} -> Rows]

\* An answer has one part, the list.
Shown(rows) == [p \in {"list"} |-> rows]

Present(rows) == {a \in Apps : rows[a] # 0}

\* COUNT(*) and MAX(updated_at), 0 for the NULL of an empty table.
Count(rows) == Cardinality(Present(rows))

Newest(rows) == {s \in Stamp :
  /\ \A a \in Apps : rows[a] <= s
  /\ s # 0 => \E a \in Apps : rows[a] = s}

TypeOK ==
  /\ now \in Stamp
  /\ writing \in [Writers -> Stamp \cup {None}]
  /\ table \in Rows
  /\ cache = None \/ cache \in [rows : Rows, loadedAt : Stamp]
  /\ lock = None
  /\ \A r \in Readers :
       /\ reader[r].pc \in {"idle", "queried", "copy", "done"}
       /\ reader[r].pc = "queried" => reader[r].stamp \in [newest : Stamp, count : Nat]
       /\ reader[r].pc = "done" => reader[r].answer \in [{"list"} -> Rows]
       /\ seen[r] \in [{"list"} -> SUBSET Rows]

Init ==
  /\ now = 1
  /\ table \in [Apps -> {0, 1}]
  /\ cache = None
  /\ Quiet({"list"})

-----------------------------------------------------------------------------
(* The writes.                                                             *)

Saved(w, rows) == Commit(w, rows, Shown(rows))

Create(w, a) == table[a] = 0 /\ Saved(w, [table EXCEPT ![a] = writing[w]])

\* No row, no change: ErrNotFound.
Update(w, a) == Saved(w, IF table[a] = 0 THEN table ELSE [table EXCEPT ![a] = writing[w]])

Delete(a) ==
  LET left == [table EXCEPT ![a] = 0]
  IN  table[a] # 0 /\ Erase(left, Shown(left))

\* Every row goes, and those of apps.json come, all with the import's stamp.
\* The import is one transaction.
Import(w, shipped) ==
  Saved(w, [a \in Apps |-> IF a \in shipped THEN writing[w] ELSE 0])

-----------------------------------------------------------------------------
(* The reads.                                                              *)

\* Mutant of Query: no count.
QueryUncounted(r) ==
  \E s \in Newest(table) : Ask(r, [newest |-> s, count |-> IF cache = None THEN 0 ELSE Count(cache.rows)], Shown(table))

\* reloadIfNeeded up to the mutex.
Query(r) == \E s \in Newest(table) : Ask(r, [newest |-> s, count |-> Count(table)], Shown(table))

Current(stamp) ==
  cache # None /\ stamp.newest = cache.loadedAt /\ stamp.count = Count(cache.rows)

\* The rest of it, under the mutex.  The rows are read after the stamp the
\* copy is filed under.
Reload(r) ==
  /\ reader[r].pc = "queried"
  /\ cache' = IF Current(reader[r].stamp) THEN cache
              ELSE [rows |-> table, loadedAt |-> reader[r].stamp.newest]
  /\ Moved(r, "copy")
  /\ UNCHANGED <<now, writing, table, lock>>

\* The mutex again: the copy, whoever loaded it last.
List(r) ==
  /\ reader[r].pc = "copy"
  /\ Returned(r, Shown(cache.rows))
  /\ UNCHANGED <<now, writing, table, cache, lock>>

Write ==
  \/ \E w \in Writers : TakeStamp(w)
  \/ \E w \in Writers, a \in Apps : Create(w, a) \/ Update(w, a)
  \/ \E w \in Writers, shipped \in SUBSET Apps : Import(w, shipped)
  \/ \E a \in Apps : Delete(a)

Next == Write \/ \E r \in Readers : Query(r) \/ Reload(r) \/ List(r)

Spec == Init /\ [][Next]_vars

-----------------------------------------------------------------------------
(* Properties.                                                             *)

\* A list that is returned is one the table held during the call: no edit,
\* deletion or import that was over before is missing from it, and it is
\* never a mixture of two states.  Surfaces says until when.
Fresh == INSTANCE FreshRead WITH
  Parts <- {"list"}, Broken <- [p \in {"list"} |-> {}], Absent <- 0, Lingering <- FALSE,
  truth <- Shown(table), call <- [r \in Readers |-> CallOf(r)],
  answer <- [r \in Readers |-> reader[r].answer]
=============================================================================
