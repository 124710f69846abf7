----------------------------- MODULE HotReload -----------------------------
(***************************************************************************)
(* What the hot-reloaded surfaces have in common: rows stamped with the    *)
(* time of their write (updated_at), writers that take the stamp before    *)
(* their statement commits, and calls that compare the stamp they query    *)
(* with the one their copy was loaded under.  Catalog, ThemeEngine and     *)
(* PanelSettings each add a table, its writes and its reload; TemplateCache *)
(* does the same for the copies it keeps per row.                          *)
(*                                                                         *)
(* Stamps are nanoseconds: the clock is assumed to go forward and no two   *)
(* writes to take the same one.                                            *)
(***************************************************************************)
EXTENDS Naturals

CONSTANTS
  Readers,      \* requests that want the current rows
  Writers,      \* admin requests and imports that change them
  MaxStamp,     \* bound: stamps taken
  None          \* nothing loaded, no stamp, no answer, nobody

ASSUME HotReloadAssumption ==
  /\ MaxStamp \in Nat \ {0}
  /\ None \notin Nat /\ None \notin Readers

VARIABLES
  now,          \* the last stamp taken
  writing,      \* each writer: the stamp of the write it is about to make
  table,        \* the rows
  cache,        \* what the process keeps of them, and the stamp it has for it
  lock,         \* the call that holds the cache's mutex across statements
  reader,       \* each call: where it is, what it queried, its answer
  seen          \* history: what each part of the table has been since each
                \* call began

vars == <<now, writing, table, cache, lock, reader, seen>>

\* updated_at; 0 where there is no row.
Stamp == 0..MaxStamp

Idle == [pc |-> "idle", stamp |-> None, answer |-> None]

\* The shared part of an initial state: nobody has called or written.
Quiet(parts) ==
  /\ writing = [w \in Writers |-> None]
  /\ lock = None
  /\ reader = [r \in Readers |-> Idle]
  /\ seen = [r \in Readers |-> [p \in parts |-> {}]]

Calling(r) == reader[r].pc \notin {"idle", "done"}

\* The statement's arguments are evaluated: time.Now().UnixNano().
TakeStamp(w) ==
  /\ writing[w] = None
  /\ now < MaxStamp
  /\ now' = now + 1
  /\ writing' = [writing EXCEPT ![w] = now']
  /\ UNCHANGED <<table, cache, lock, reader, seen>>

\* The rows become t, of which callers see the parts in shown.
Becomes(t, shown) ==
  /\ table' = t
  /\ seen' = [r \in Readers |-> [p \in DOMAIN shown |->
       IF Calling(r) THEN seen[r][p] \cup {shown[p]} ELSE seen[r][p]]]
  /\ UNCHANGED <<now, cache, lock, reader>>

\* A stamped write commits.
Commit(w, t, shown) ==
  /\ writing[w] # None
  /\ writing' = [writing EXCEPT ![w] = None]
  /\ Becomes(t, shown)

\* A delete, which has no stamp.
Erase(t, shown) == Becomes(t, shown) /\ UNCHANGED writing

\* A call begins: it queries the table's stamp.
Ask(r, stamp, shown) ==
  /\ ~Calling(r)
  /\ reader' = [reader EXCEPT ![r] = [pc |-> "queried", stamp |-> stamp, answer |-> None]]
  /\ seen' = [seen EXCEPT ![r] = [p \in DOMAIN shown |-> {shown[p]}]]
  /\ UNCHANGED <<now, writing, table, cache, lock>>

\* A call ends, with an answer or (None) an error.
Returned(r, answer) ==
  /\ reader' = [reader EXCEPT ![r] = [pc |-> "done", stamp |-> None, answer |-> answer]]
  /\ seen' = [seen EXCEPT ![r] = [p \in DOMAIN seen[r] |-> {}]]

Moved(r, pc) == reader' = [reader EXCEPT ![r].pc = pc] /\ UNCHANGED seen

\* This step ends the call of r.
Returns(r) == Calling(r) /\ ~Calling(r)'

\* How the abstract specification sees a call.
CallOf(r) ==
  CASE reader[r].pc = "idle" -> "idle"
    [] Calling(r) -> "waiting"
    [] reader[r].pc = "done" /\ reader[r].answer = None -> "failed"
    [] OTHER -> "answered"
=============================================================================
