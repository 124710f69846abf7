----------------------------- MODULE Templates -----------------------------
(***************************************************************************)
(* The rows of the templates table and who may write them: the admin's     *)
(* templates page (internal/templatestore) and the import of the files a   *)
(* release ships (internal/importer).  An import may refresh or prune a    *)
(* row only while it is as an import left it, which it tells by the stamp  *)
(* it notes in import_manifest.                                            *)
(*                                                                         *)
(* Imports are separate runs of the program; each format is one            *)
(* transaction, and a run may end between two of them, by an error or      *)
(* killed.  Every row an import writes has the stamp the run took when it  *)
(* began, so it may be older than an edit committed meanwhile.             *)
(***************************************************************************)
EXTENDS Naturals, Sequences

CONSTANTS
  Keys,         \* (format, profile, protocol)
  Formats,
  FormatOf,     \* the format of each key
  Order,        \* the formats in the order an import takes them
  Contents,     \* of templates
  Admins,       \* requests of the templates page
  Importers,    \* runs of the import
  MaxStamp,     \* bound: stamps taken
  MaxReleases,  \* bound: changes of the shipped files
  None          \* no file, no run, no stamp

ASSUME TemplatesAssumption ==
  /\ FormatOf \in [Keys -> Formats]
  /\ Order \in Seq(Formats)
  /\ MaxStamp \in Nat \ {0} /\ MaxReleases \in Nat
  /\ None \notin Nat /\ None \notin Contents

VARIABLES
  now,        \* the last stamp taken
  row,        \* templates: content and updated_at of each key, or Absent
  manifest,   \* import_manifest: updated_at of each key, 0 for no row
  shipped,    \* the files on disk
  releases,   \* how often they have changed
  editing,    \* each page request: the stamp it is about to write
  run,        \* each import: its stamp and the next of Order, or None
  owner,      \* history: who wrote each row last
  settled     \* history: keys imported since the last release, and not
              \* deleted by an admin since

vars == <<now, row, manifest, shipped, releases, editing, run, owner, settled>>

\* Nanoseconds; no two taken alike.
Stamp == 0..MaxStamp

Absent == [at |-> 0, content |-> None]
Row == {Absent} \cup [at : 1..MaxStamp, content : Contents]

TypeOK ==
  /\ now \in Stamp
  /\ row \in [Keys -> Row]
  /\ manifest \in [Keys -> Stamp]
  /\ shipped \in [Keys -> Contents \cup {None}]
  /\ releases \in 0..MaxReleases
  /\ editing \in [Admins -> Stamp \cup {None}]
  /\ run \in [Importers -> {None} \cup [at : Stamp, next : 1..(Len(Order) + 1)]]
  /\ owner \in [Keys -> {"nobody", "importer", "admin", "legacy"}]
  /\ settled \subseteq Keys

\* Rows of an older version of the program have no manifest.
Init ==
  /\ now = 1
  /\ row \in [Keys -> {Absent} \cup [at : {1}, content : Contents]]
  /\ manifest = [k \in Keys |-> 0]
  /\ shipped \in [Keys -> Contents \cup {None}]
  /\ releases = 0
  /\ editing = [a \in Admins |-> None]
  /\ run = [i \in Importers |-> None]
  /\ owner = [k \in Keys |-> IF row[k] = Absent THEN "nobody" ELSE "legacy"]
  /\ settled = {}

-----------------------------------------------------------------------------
(* The templates page.                                                     *)

\* Put evaluates its arguments: time.Now().
TakeStamp(a) ==
  /\ editing[a] = None
  /\ now < MaxStamp
  /\ now' = now + 1
  /\ editing' = [editing EXCEPT ![a] = now']
  /\ UNCHANGED <<row, manifest, shipped, releases, run, owner, settled>>

Put(a, k, content) ==
  /\ editing[a] # None
  /\ row' = [row EXCEPT ![k] = [at |-> editing[a], content |-> content]]
  /\ owner' = [owner EXCEPT ![k] = "admin"]
  /\ editing' = [editing EXCEPT ![a] = None]
  /\ UNCHANGED <<now, manifest, shipped, releases, run, settled>>

\* The row, if there is one; the manifest is left alone.
Delete(k) ==
  /\ row' = [row EXCEPT ![k] = Absent]
  /\ owner' = [owner EXCEPT ![k] = "nobody"]
  /\ settled' = settled \ {k}
  /\ UNCHANGED <<now, manifest, shipped, releases, editing, run>>

-----------------------------------------------------------------------------
(* The import.                                                             *)

\* A new version brings other files.
Release(files) ==
  /\ releases < MaxReleases
  /\ files # shipped
  /\ shipped' = files
  /\ releases' = releases + 1
  /\ settled' = {}
  /\ UNCHANGED <<now, row, manifest, editing, run, owner>>

\* The applications and the themes come first; they are not rows of this
\* table.
StartImport(i) ==
  /\ run[i] = None
  /\ now < MaxStamp
  /\ now' = now + 1
  /\ run' = [run EXCEPT ![i] = [at |-> now', next |-> 1]]
  /\ UNCHANGED <<row, manifest, shipped, releases, editing, owner, settled>>

\* The row is there, and as the import left it.
Pristine(k) == row[k] # Absent /\ manifest[k] = row[k].at

\* Mutant of Written: rows that exist are left alone.
WrittenOnce(k) == shipped[k] # None /\ row[k] = Absent

\* Mutant of Written: files that are not shipped are not skipped.
WrittenUnshipped(k) == row[k] = Absent \/ (Pristine(k) /\ row[k].content # shipped[k])

\* upsertTemplatePreservingEdits: inserted, or refreshed.
Written(k) ==
  /\ shipped[k] # None
  /\ row[k] = Absent \/ (Pristine(k) /\ row[k].content # shipped[k])

\* Mutant of Pruned: any row of a file that is gone.
PrunedEdited(k) == shipped[k] = None /\ manifest[k] # 0

\* pruneOrphaned: the row.
Pruned(k) == shipped[k] = None /\ Pristine(k)

\* Mutant of Noted: the manifest mirrors rows that were not refreshed.
NotedMirrored(k, at) ==
  IF Written(k) THEN at ELSE IF shipped[k] = None THEN 0
  ELSE IF row[k] # Absent THEN row[k].at ELSE manifest[k]

\* recordManifest where a row was written; the entry of a file that is gone
\* is cleared whether its row went or not.
Noted(k, at) ==
  IF Written(k) THEN at ELSE IF shipped[k] = None THEN 0 ELSE manifest[k]

ImportFormat(i) ==
  /\ run[i] # None /\ run[i].next <= Len(Order)
  /\ LET at == run[i].at
         Mine(k) == FormatOf[k] = Order[run[i].next]
     IN  /\ row' = [k \in Keys |->
              IF Mine(k) /\ Written(k) THEN [at |-> at, content |-> shipped[k]]
              ELSE IF Mine(k) /\ Pruned(k) THEN Absent ELSE row[k]]
         /\ owner' = [k \in Keys |->
              IF Mine(k) /\ Written(k) THEN "importer"
              ELSE IF Mine(k) /\ Pruned(k) THEN "nobody" ELSE owner[k]]
         /\ manifest' = [k \in Keys |-> IF Mine(k) THEN Noted(k, at) ELSE manifest[k]]
         /\ settled' = settled \cup {k \in Keys : Mine(k)}
  /\ run' = [run EXCEPT ![i].next = @ + 1]
  /\ UNCHANGED <<now, shipped, releases, editing>>

\* Done; or an error, or the process is killed, with the formats so far kept.
EndImport(i) ==
  /\ run[i] # None
  /\ run' = [run EXCEPT ![i] = None]
  /\ UNCHANGED <<now, row, manifest, shipped, releases, editing, owner, settled>>

Next ==
  \/ \E a \in Admins : TakeStamp(a) \/ (\E k \in Keys, content \in Contents : Put(a, k, content))
  \/ \E k \in Keys : Delete(k)
  \/ \E files \in [Keys -> Contents \cup {None}] : Release(files)
  \/ \E i \in Importers : StartImport(i) \/ ImportFormat(i) \/ EndImport(i)

Spec == Init /\ [][Next]_vars

-----------------------------------------------------------------------------
(* Properties.                                                             *)

\* The stamps tell exactly the rows an import wrote last: over any number of
\* runs, edits, deletions and releases, no row of an admin's is ever taken
\* for one of the import's, and none of the import's is lost track of.
ProvenanceExact == \A k \in Keys : Pristine(k) <=> owner[k] = "importer"

\* No import changes or removes a row that an admin saved, or one of unknown
\* origin, however old and however often it is run.
EditsKept ==
  run' # run => \A k \in Keys : owner[k] \in {"admin", "legacy"} => row'[k] = row[k]
AdminEditsKept == [][EditsKept]_vars

Agrees(k) ==
  /\ owner[k] = "importer" => row[k].content = shipped[k]
  /\ owner[k] = "nobody" => shipped[k] = None

\* After the import of a release, and whatever admins do to other rows, the
\* rows that are the import's are those the release ships, as it ships them,
\* and none it ships is missing: a refresh missed once is made up for.
ImportedIsCurrent == \A k \in settled : Agrees(k)
=============================================================================
