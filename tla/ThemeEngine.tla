---------------------------- MODULE ThemeEngine ----------------------------
(***************************************************************************)
(* The active theme: internal/theme/theme.go, the admin pages that edit it *)
(* (theme/admin.go) and the import that replaces it.  The theme is a row   *)
(* of themes and one of theme_files per file; templates (.html) are        *)
(* parsed, files under static/ are kept as they are, others are never      *)
(* served.  The loaded theme is kept as long as the newest stamp is the    *)
(* one it was loaded under and the number of theme_files rows is the       *)
(* number of static files loaded.                                          *)
(*                                                                         *)
(* A row is abstracted to the stamp of its last write, which stands for    *)
(* its content, and whether that content parses.                           *)
(***************************************************************************)
EXTENDS HotReload, FiniteSets

CONSTANTS
  Html, Statics, Others   \* paths in theme_files: templates (.html), under static/, the rest

Meta == "meta"            \* the row of themes
Files == Html \cup Statics \cup Others
Served == {Meta} \cup Html \cup Statics

Row == [at : Stamp, ok : BOOLEAN]
Absent == [at |-> 0, ok |-> TRUE]

ThemeAssumption ==
  /\ IsFiniteSet(Files) /\ Meta \notin Files
  /\ Html \cap Statics = {} /\ Others \cap (Html \cup Statics) = {}
  /\ None \notin [theme : [Served -> Row], newestAt : Stamp] \cup [Served -> Row] \cup Row

Theme == [{Meta} \cup Files -> Row]

\* What requests are served from.
Shown(t) == [p \in Served |-> t[p]]

Present(t, paths) == {p \in paths : t[p].at # 0}

\* MAX(updated_at) over both tables, and COUNT(*) of theme_files.
Newest(t) == {s \in Stamp :
  /\ \A p \in {Meta} \cup Files : t[p].at <= s
  /\ s # 0 => \E p \in {Meta} \cup Files : t[p].at = s}
FileCount(t) == Cardinality(Present(t, Files))

TypeOK ==
  /\ now \in Stamp
  /\ writing \in [Writers -> Stamp \cup {None}]
  /\ table \in Theme
  /\ cache = None \/ cache \in [theme : [Served -> Row], newestAt : Stamp]
  /\ lock \in Readers \cup {None}
  /\ \A r \in Readers :
       /\ reader[r].pc \in {"idle", "queried", "meta", "files", "take", "done"}
       /\ reader[r].pc \in {"meta", "files"} <=> lock = r
       /\ reader[r].pc = "done" => reader[r].answer \in [Served -> Row] \cup {None}
       /\ seen[r] \in [Served -> SUBSET Row]

\* A fresh database, or one with a theme in it.
Init ==
  /\ now = 1
  /\ \E row \in {Absent, [at |-> 1, ok |-> TRUE]} : table = [p \in {Meta} \cup Files |-> row]
  /\ cache = None
  /\ Quiet(Served)

-----------------------------------------------------------------------------
(* The writes.  Neither page checks that a template parses; the theme's    *)
(* metadata is written from decoded JSON and always does.                  *)

Saved(w, t) == Commit(w, t, Shown(t))

UpsertMeta(w) == Saved(w, [table EXCEPT ![Meta] = [at |-> writing[w], ok |-> TRUE]])

PutFile(w, path, ok) == Saved(w, [table EXCEPT ![path] = [at |-> writing[w], ok |-> ok]])

DeleteFile(path) ==
  LET left == [table EXCEPT ![path] = Absent]
  IN  table[path] # Absent /\ Erase(left, Shown(left))

\* One transaction: the metadata, and the files on disk in place of all.
ImportTheme(w, shipped) ==
  Saved(w, [p \in {Meta} \cup Files |->
    IF p = Meta \/ p \in shipped THEN [at |-> writing[w], ok |-> TRUE] ELSE Absent])

-----------------------------------------------------------------------------
(* The reads.                                                              *)

\* Mutant of Query: the metadata's stamp left out.
QueryFilesOnly(r) ==
  \E s \in Newest([table EXCEPT ![Meta] = Absent]) :
    Ask(r, [newest |-> s, count |-> FileCount(table)], Shown(table))

\* reloadIfNeeded up to the mutex: both aggregates in one statement.
Query(r) == \E s \in Newest(table) : Ask(r, [newest |-> s, count |-> FileCount(table)], Shown(table))

\* The count is that of every file, the length that of the static ones.
Current(stamp) ==
  /\ cache # None
  /\ stamp.newest = cache.newestAt
  /\ stamp.count = Cardinality(Present(cache.theme, Statics))

Keeps(r) ==
  /\ reader[r].pc = "queried" /\ lock = None /\ Current(reader[r].stamp)
  /\ Moved(r, "take")
  /\ UNCHANGED <<now, writing, table, cache, lock>>

Locks(r) ==
  /\ reader[r].pc = "queried" /\ lock = None /\ ~Current(reader[r].stamp)
  /\ lock' = r
  /\ Moved(r, "meta")
  /\ UNCHANGED <<now, writing, table, cache>>

Unlock == lock' = None

\* Mutant of LoadMeta: the early return keeps the mutex.
LoadMetaKeepsLock(r) ==
  /\ reader[r].pc = "meta"
  /\ \/ /\ table[Meta] = Absent
        /\ Returned(r, None)
        /\ UNCHANGED lock
     \/ /\ table[Meta] # Absent
        /\ reader' = [reader EXCEPT ![r].pc = "files", ![r].answer = table[Meta]]
        /\ UNCHANGED <<lock, seen>>
  /\ UNCHANGED <<now, writing, table, cache>>

\* No row is an error, and the old theme stays loaded.
LoadMeta(r) ==
  /\ reader[r].pc = "meta"
  /\ \/ /\ table[Meta] = Absent
        /\ Returned(r, None)
        /\ Unlock
     \/ /\ table[Meta] # Absent
        /\ reader' = [reader EXCEPT ![r].pc = "files", ![r].answer = table[Meta]]
        /\ UNCHANGED <<lock, seen>>
  /\ UNCHANGED <<now, writing, table, cache>>

Parses == \A p \in Html : table[p].ok

\* A second statement, so the files may be of a later theme than the
\* metadata.  A template that does not parse is an error.
LoadFiles(r) ==
  /\ reader[r].pc = "files"
  /\ \/ /\ ~Parses
        /\ Returned(r, None)
        /\ UNCHANGED cache
     \/ /\ Parses
        /\ cache' = [theme |-> [p \in Served |-> IF p = Meta THEN reader[r].answer ELSE table[p]],
                     newestAt |-> reader[r].stamp.newest]
        /\ Moved(r, "take")
  /\ Unlock
  /\ UNCHANGED <<now, writing, table>>

\* Render and ServeStatic take the mutex again, for what is loaded by then.
Take(r) ==
  /\ reader[r].pc = "take" /\ lock = None
  /\ Returned(r, cache.theme)
  /\ UNCHANGED <<now, writing, table, cache, lock>>

Write ==
  \/ \E w \in Writers : TakeStamp(w) \/ UpsertMeta(w)
  \/ \E w \in Writers, p \in Files, ok \in BOOLEAN :
       (p \in Html \/ ok) /\ PutFile(w, p, ok)
  \/ \E w \in Writers, shipped \in SUBSET Files : ImportTheme(w, shipped)
  \/ \E p \in Files : DeleteFile(p)

Next ==
  \/ Write
  \/ \E r \in Readers :
       Query(r) \/ Keeps(r) \/ Locks(r) \/ LoadMeta(r) \/ LoadFiles(r) \/ Take(r)

\* Go's mutex hands over to a call that has waited long enough.
Fairness == \A r \in Readers :
  /\ SF_vars(Keeps(r) \/ Locks(r)) /\ SF_vars(Take(r))
  /\ WF_vars(LoadMeta(r)) /\ WF_vars(LoadFiles(r))

Spec == Init /\ [][Next]_vars /\ Fairness

-----------------------------------------------------------------------------
(* Properties.                                                             *)

\* The metadata and every file that is served is as it was at some moment of
\* the call, except that a file whose row is gone may still be served.  A
\* call fails only when the theme could not be loaded during it: the page
\* does not stay broken after it is repaired.  Surfaces says until when.
Fresh == INSTANCE FreshRead WITH
  Parts <- Served, Lingering <- TRUE,
  Broken <- [p \in Served |-> IF p = Meta THEN {Absent} ELSE
                              IF p \in Html THEN [at : Stamp, ok : {FALSE}] ELSE {}],
  truth <- Shown(table), call <- [r \in Readers |-> CallOf(r)],
  answer <- [r \in Readers |-> IF reader[r].pc = "done" THEN reader[r].answer ELSE None]

NothingDeletedIsServed == \A r \in Readers : Returns(r) /\ reader'[r].answer # None =>
  \A p \in Served : seen[r][p] = {Absent} => reader'[r].answer[p] = Absent

\* theme.go:105-108 and the test at theme_test.go:135: a deleted file is no
\* longer served, even if it was not the most recently touched one.
DeletedFileIsGone == [][NothingDeletedIsServed]_vars
=============================================================================
