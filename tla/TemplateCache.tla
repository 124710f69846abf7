--------------------------- MODULE TemplateCache ---------------------------
(***************************************************************************)
(* The compiled templates of one format: internal/generator/tmplcache and  *)
(* the writes of the templates page and of an import.  A call looks up the *)
(* row of its profile and, if there is none, the row of the default; a     *)
(* compiled template is kept per row, under the row's stamp.               *)
(*                                                                         *)
(* A row is abstracted to the stamp of its last write, which stands for    *)
(* its content, and whether that content parses.  An import writes several *)
(* rows under one stamp, taken before the whole run.                       *)
(***************************************************************************)
EXTENDS HotReload

CONSTANT Profiles   \* besides the default

Default == "default"
Slots == Profiles \cup {Default}

Row == [at : Stamp, ok : BOOLEAN]
Absent == [at |-> 0, ok |-> TRUE]

TypeOK ==
  /\ now \in Stamp
  /\ writing \in [Writers -> Stamp \cup {None}]
  /\ table \in [Slots -> Row]
  /\ cache \in [Slots -> Row]
  /\ lock = None
  /\ \A r \in Readers :
       /\ reader[r].pc \in {"idle", "queried", "done"}
       /\ reader[r].pc = "queried" => reader[r].stamp \in [asked : Slots, key : Slots, row : Row]
       /\ reader[r].pc = "done" => reader[r].answer \in Row \cup {None}
       /\ seen[r] \in [Slots -> SUBSET Row]

Init ==
  /\ now = 1
  /\ table \in [Slots -> {Absent, [at |-> 1, ok |-> TRUE]}]
  /\ cache = [key \in Slots |-> Absent]
  /\ Quiet(Slots)

-----------------------------------------------------------------------------
(* The writes.                                                             *)

Put(w, key, ok) ==
  LET saved == [table EXCEPT ![key] = [at |-> writing[w], ok |-> ok]]
  IN  Commit(w, saved, saved)

Delete(key) ==
  LET left == [table EXCEPT ![key] = Absent]
  IN  table[key] # Absent /\ Erase(left, left)

\* What Templates lets an import do to a format: some rows refreshed or
\* added, some pruned.
Import(w, refreshed, pruned) ==
  LET left == [key \in Slots |-> IF key \in refreshed THEN [at |-> writing[w], ok |-> TRUE]
                                ELSE IF key \in pruned THEN Absent ELSE table[key]]
  IN  Commit(w, left, left)

-----------------------------------------------------------------------------
(* The reads.                                                              *)

\* fetch: the row of the profile asked for.
Query(r, key) == Ask(r, [asked |-> key, key |-> key, row |-> table[key]], table)

Queried(r) == reader[r].pc = "queried"
Missing(r) == reader[r].stamp.row = Absent

\* fetch: the row of the default, in a second statement.
Fallback(r) ==
  /\ Queried(r) /\ Missing(r) /\ reader[r].stamp.key # Default
  /\ reader' = [reader EXCEPT ![r].stamp.key = Default, ![r].stamp.row = table[Default]]
  /\ UNCHANGED <<now, writing, table, cache, lock, seen>>

\* Neither row.
NotFound(r) ==
  /\ Queried(r) /\ Missing(r) /\ reader[r].stamp.key = Default
  /\ Returned(r, None)
  /\ UNCHANGED <<now, writing, table, cache, lock>>

\* Mutant of Current: the copy is taken for current when it is not older.
CurrentOrNewer(entry, row) == entry.at >= row.at

Current(entry, row) == entry.at = row.at

\* Get, under the mutex.
Take(r) ==
  LET key == reader[r].stamp.key
      row == reader[r].stamp.row
  IN  /\ Queried(r) /\ ~Missing(r)
      /\ IF Current(cache[key], row)
           THEN Returned(r, cache[key]) /\ UNCHANGED cache
           ELSE IF row.ok
                  THEN Returned(r, row) /\ cache' = [cache EXCEPT ![key] = row]
                  ELSE Returned(r, None) /\ UNCHANGED cache
      /\ UNCHANGED <<now, writing, table, lock>>

Write ==
  \/ \E w \in Writers : TakeStamp(w)
  \/ \E w \in Writers, key \in Slots, ok \in BOOLEAN : Put(w, key, ok)
  \/ \E key \in Slots : Delete(key)
  \/ \E w \in Writers, refreshed, pruned \in SUBSET Slots : Import(w, refreshed, pruned)

Next ==
  \/ Write
  \/ \E r \in Readers : (\E key \in Slots : Query(r, key)) \/ Fallback(r) \/ NotFound(r) \/ Take(r)

Spec == Init /\ [][Next]_vars

-----------------------------------------------------------------------------
(* Properties.                                                             *)

\* What the row was, or will not parse as, at some moment of the call.
Was(r, key, row) == row \in seen[r][key]
Unusable(r, key) == \E row \in seen[r][key] : ~row.ok

AnswersFromTable ==
  \A r \in Readers : Returns(r) =>
    LET asked == reader[r].stamp.asked
        answer == reader'[r].answer
    IN  IF answer # None
          THEN Was(r, asked, answer) \/ (Was(r, asked, Absent) /\ Was(r, Default, answer))
          ELSE \/ Unusable(r, asked)
               \/ Was(r, asked, Absent) /\ (Was(r, Default, Absent) \/ Unusable(r, Default))

\* A call is answered with what the row of its profile held during it, or,
\* only if that row was missing meanwhile, with what the default's held; it
\* fails only for a row that was missing or broken meanwhile, so a template
\* that is repaired is served again.
TemplatesFollowTable == [][AnswersFromTable]_vars
=============================================================================
