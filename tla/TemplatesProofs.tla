-------------------------- MODULE TemplatesProofs --------------------------
(* Theorems about the templates table: its rows and their writers, for any *)
(* keys, formats, admins and imports; then the copies of one format, for   *)
(* any profiles, calls and overlapping writers.                            *)
EXTENDS TemplateSurfaces, TLAPS

-----------------------------------------------------------------------------
(* Types.                                                                  *)

LEMMA TypeInit == Init => TypeOK
<1> SUFFICES ASSUME Init PROVE TypeOK
  OBVIOUS
<1> USE TemplatesAssumption
<1>1. 0 \in Stamp
  BY DEF Stamp
<1>2. now \in Stamp
  BY DEF Init, Stamp
<1> QED
  BY <1>1, <1>2 DEF Init, TypeOK, Row, Absent, Stamp

\* What an import may make of a row and of its manifest entry.
LEMMA WrittenTyped ==
  ASSUME TypeOK, NEW k \in Keys, NEW at \in 1..MaxStamp
  PROVE  /\ Written(k) => [at |-> at, content |-> shipped[k]] \in Row
         /\ Noted(k, at) \in Stamp
<1> USE TemplatesAssumption
<1>1. shipped[k] \in Contents \cup {None} /\ manifest[k] \in Stamp
  BY DEF TypeOK
<1>2. at \in Stamp /\ 0 \in Stamp
  BY DEF Stamp
<1> QED
  BY <1>1, <1>2 DEF Written, Noted, Row

\* Stamps in use were taken.
Taken(at) == at \in 1..now

Ages ==
  /\ \A a \in Admins : editing[a] # None => Taken(editing[a])
  /\ \A i \in Importers : run[i] # None => Taken(run[i].at)
  /\ \A k \in Keys : manifest[k] <= now /\ row[k].at <= now

\* An edit about to commit has a stamp no manifest entry has or will get, and
\* an import under way has one that no row of an admin's has.
Apart ==
  /\ \A a \in Admins, k \in Keys : editing[a] # None => manifest[k] # editing[a]
  /\ \A a \in Admins, i \in Importers :
       editing[a] # None /\ run[i] # None => run[i].at # editing[a]
  /\ \A i \in Importers, k \in Keys :
       run[i] # None /\ owner[k] \in {"admin", "legacy"} => row[k].at # run[i].at

Nobody == \A k \in Keys : owner[k] = "nobody" <=> row[k] = Absent

Inv == TypeOK /\ Ages /\ Apart /\ Nobody /\ ProvenanceExact

LEMMA InvInit == Init => Inv
<1> SUFFICES ASSUME Init PROVE Inv
  OBVIOUS
<1> USE TemplatesAssumption
<1>1. TypeOK
  BY TypeInit
<1>2. Ages
  BY DEF Init, Ages, Absent, Taken
<1>3. Apart
  BY DEF Init, Apart
<1>4. Nobody
  BY DEF Init, Nobody
<1>5. ProvenanceExact
  <2> SUFFICES ASSUME NEW k \in Keys PROVE Pristine(k) <=> owner[k] = "importer"
    BY DEF ProvenanceExact
  <2>1. row[k] = Absent \/ row[k].at = 1
    BY DEF Init
  <2>2. manifest[k] = 0 /\ owner[k] # "importer"
    BY DEF Init
  <2> QED
    BY <2>1, <2>2 DEF Pristine
<1> QED
  BY <1>1, <1>2, <1>3, <1>4, <1>5 DEF Inv

\* A row that is there has a stamp above 0.
LEMMA RowAge == ASSUME TypeOK, NEW k \in Keys, row[k] # Absent PROVE row[k].at \in 1..MaxStamp
  BY DEF TypeOK, Row

\* What one import step does to one key.
LEMMA ImportKey ==
  ASSUME Inv, NEW i \in Importers, ImportFormat(i), NEW k \in Keys
  PROVE  /\ run[i].at \in 1..MaxStamp
         /\ \/ /\ shipped[k] # None /\ shipped[k] \in Contents
               /\ row'[k] = [at |-> run[i].at, content |-> shipped[k]]
               /\ owner'[k] = "importer" /\ manifest'[k] = run[i].at
               /\ owner[k] \in {"nobody", "importer"}
            \/ /\ row'[k] = Absent /\ owner'[k] = "nobody" /\ manifest'[k] = 0
               /\ owner[k] = "importer" /\ shipped[k] = None
            \/ /\ row'[k] = row[k] /\ owner'[k] = owner[k]
               /\ manifest'[k] = manifest[k] \/ (manifest'[k] = 0 /\ owner[k] # "importer")
               /\ FormatOf[k] = Order[run[i].next] => Agrees(k)
<1> USE TemplatesAssumption
<1>1. run[i].at \in 1..MaxStamp
  <2>1. run[i].at \in Stamp /\ Taken(run[i].at)
    BY DEF Inv, TypeOK, Ages, ImportFormat
  <2>2. now \in Nat
    BY DEF Inv, TypeOK, Stamp
  <2> QED
    BY <2>1, <2>2 DEF Stamp, Taken
<1>2. Pristine(k) <=> owner[k] = "importer"
  BY DEF Inv, ProvenanceExact
<1>3. owner[k] = "nobody" <=> row[k] = Absent
  BY DEF Inv, Nobody
<1>4. shipped[k] \in Contents \cup {None}
  BY DEF Inv, TypeOK
<1>5. CASE FormatOf[k] # Order[run[i].next]
  <2>1. row'[k] = row[k] /\ owner'[k] = owner[k] /\ manifest'[k] = manifest[k]
    BY <1>5 DEF ImportFormat
  <2> QED
    BY <1>1, <1>5, <2>1
<1>6. CASE FormatOf[k] = Order[run[i].next]
  <2>1. manifest'[k] = Noted(k, run[i].at)
    BY <1>6 DEF ImportFormat
  <2>2. CASE Written(k)
    <3>1. row'[k] = [at |-> run[i].at, content |-> shipped[k]] /\ owner'[k] = "importer"
      BY <1>6, <2>2 DEF ImportFormat
    <3>2. manifest'[k] = run[i].at
      BY <2>1, <2>2 DEF Noted
    <3>3. shipped[k] # None /\ owner[k] \in {"nobody", "importer"}
      BY <2>2, <1>2, <1>3 DEF Written
    <3> QED
      BY <1>1, <1>4, <3>1, <3>2, <3>3
  <2>3. CASE ~Written(k) /\ Pruned(k)
    <3>1. row'[k] = Absent /\ owner'[k] = "nobody"
      BY <1>6, <2>3 DEF ImportFormat
    <3>2. shipped[k] = None /\ owner[k] = "importer"
      BY <2>3, <1>2 DEF Pruned
    <3>3. manifest'[k] = 0
      BY <2>1, <2>3, <3>2 DEF Noted
    <3> QED
      BY <1>1, <3>1, <3>2, <3>3
  <2>4. CASE ~Written(k) /\ ~Pruned(k)
    <3>1. row'[k] = row[k] /\ owner'[k] = owner[k]
      BY <1>6, <2>4 DEF ImportFormat
    <3>2. manifest'[k] = manifest[k] \/ (manifest'[k] = 0 /\ shipped[k] = None)
      BY <2>1, <2>4 DEF Noted
    <3>3. shipped[k] = None => owner[k] # "importer"
      BY <2>4, <1>2 DEF Pruned
    <3>4. owner[k] = "importer" => row[k].content = shipped[k]
      BY <2>4, <1>2, <3>3 DEF Written
    <3>5. owner[k] = "nobody" => shipped[k] = None
      BY <2>4, <1>3 DEF Written
    <3>6. Agrees(k)
      BY <3>4, <3>5 DEF Agrees
    <3> QED
      BY <1>1, <3>1, <3>2, <3>3, <3>6
  <2> QED
    BY <2>2, <2>3, <2>4
<1> QED
  BY <1>5, <1>6

LEMMA TypeNext == ASSUME Inv, [Next]_vars PROVE TypeOK'
<1> USE TemplatesAssumption
<1>1. TypeOK
  BY DEF Inv
<1>2. ASSUME NEW a \in Admins, TakeStamp(a) PROVE TypeOK'
  <2>1. now' \in Stamp
    BY <1>1, <1>2 DEF TakeStamp, TypeOK, Stamp
  <2> QED
    BY <1>1, <1>2, <2>1 DEF TakeStamp, TypeOK
<1>3. ASSUME NEW a \in Admins, NEW k \in Keys, NEW content \in Contents, Put(a, k, content)
      PROVE  TypeOK'
  <2>1. editing[a] \in 1..MaxStamp
    <3>1. Taken(editing[a]) /\ editing[a] \in Stamp
      BY <1>3 DEF Inv, Ages, TypeOK, Put
    <3> QED
      BY <1>1, <3>1 DEF Taken, TypeOK, Stamp
  <2>2. [at |-> editing[a], content |-> content] \in Row
    BY <2>1 DEF Row
  <2> QED
    BY <1>1, <1>3, <2>2 DEF Put, TypeOK
<1>4. ASSUME NEW k \in Keys, Delete(k) PROVE TypeOK'
  <2>1. Absent \in Row
    BY DEF Row
  <2> QED
    BY <1>1, <1>4, <2>1 DEF Delete, TypeOK
<1>5. ASSUME NEW files \in [Keys -> Contents \cup {None}], Release(files) PROVE TypeOK'
  BY <1>1, <1>5 DEF Release, TypeOK
<1>6. ASSUME NEW i \in Importers, StartImport(i) PROVE TypeOK'
  <2>1. now' \in Stamp
    BY <1>1, <1>6 DEF StartImport, TypeOK, Stamp
  <2>2. 1 \in 1..(Len(Order) + 1)
    OBVIOUS
  <2> QED
    BY <1>1, <1>6, <2>1, <2>2 DEF StartImport, TypeOK
<1>7. ASSUME NEW i \in Importers, ImportFormat(i) PROVE TypeOK'
  <2>1. \A k \in Keys : row'[k] \in Row
    <3> TAKE k \in Keys
    <3>1. run[i].at \in 1..MaxStamp
      BY <1>7, ImportKey
    <3>2. shipped[k] \in Contents => [at |-> run[i].at, content |-> shipped[k]] \in Row
      BY <3>1 DEF Row
    <3>3. Absent \in Row /\ row[k] \in Row
      BY <1>1 DEF Row, TypeOK
    <3> QED
      BY <1>7, <3>2, <3>3, ImportKey
  <2>2. \A k \in Keys : owner'[k] \in {"nobody", "importer", "admin", "legacy"}
    <3> TAKE k \in Keys
    <3>1. owner[k] \in {"nobody", "importer", "admin", "legacy"}
      BY <1>1 DEF TypeOK
    <3> QED
      BY <1>7, <3>1, ImportKey
  <2>3. \A k \in Keys : manifest'[k] \in Stamp
    <3> TAKE k \in Keys
    <3>1. manifest[k] \in Stamp /\ 0 \in Stamp
      BY <1>1 DEF TypeOK, Stamp
    <3>2. run[i].at \in Stamp
      <4>1. run[i].at \in 1..MaxStamp
        BY <1>7, ImportKey
      <4> QED
        BY <4>1 DEF Stamp
    <3> QED
      BY <1>7, <3>1, <3>2, ImportKey
  <2>4. row' \in [Keys -> Row] /\ manifest' \in [Keys -> Stamp]
        /\ owner' \in [Keys -> {"nobody", "importer", "admin", "legacy"}]
    BY <1>7, <2>1, <2>2, <2>3 DEF ImportFormat
  <2>5. run' \in [Importers -> {None} \cup [at : Stamp, next : 1..(Len(Order) + 1)]]
    <3>1. run[i] \in [at : Stamp, next : 1..(Len(Order) + 1)] /\ run[i].next <= Len(Order)
      BY <1>1, <1>7 DEF ImportFormat, TypeOK
    <3>2. Len(Order) \in Nat
      OBVIOUS
    <3>3. [run[i] EXCEPT !.next = @ + 1] \in [at : Stamp, next : 1..(Len(Order) + 1)]
      BY <3>1, <3>2
    <3>4. run' = [run EXCEPT ![i] = [run[i] EXCEPT !.next = @ + 1]]
      BY <1>7 DEF ImportFormat
    <3> QED
      BY <1>1, <3>3, <3>4 DEF TypeOK
  <2>6. settled' \subseteq Keys
    BY <1>1, <1>7 DEF ImportFormat, TypeOK
  <2> QED
    BY <1>1, <1>7, <2>4, <2>5, <2>6 DEF ImportFormat, TypeOK
<1>8. ASSUME NEW i \in Importers, EndImport(i) PROVE TypeOK'
  BY <1>1, <1>8 DEF EndImport, TypeOK
<1>9. CASE UNCHANGED vars
  BY <1>1, <1>9 DEF vars, TypeOK
<1> QED
  BY <1>2, <1>3, <1>4, <1>5, <1>6, <1>7, <1>8, <1>9 DEF Next

LEMMA AgesNext == ASSUME Inv, [Next]_vars PROVE Ages'
<1> USE TemplatesAssumption
<1>1. TypeOK /\ Ages
  BY DEF Inv
<1>2. now \in Nat /\ now' \in Nat /\ now <= now'
  <2>1. now \in Nat
    BY <1>1 DEF TypeOK, Stamp
  <2>2. now' = now \/ now' = now + 1
    BY DEF Next, vars, TakeStamp, Put, Delete, Release, StartImport, ImportFormat, EndImport
  <2> QED
    BY <2>1, <2>2
<1>3. \A at : Taken(at) => at \in 1..now'
  BY <1>2 DEF Taken
<1>4. \A k \in Keys : manifest[k] \in Nat /\ row[k].at \in Nat
  <2> TAKE k \in Keys
  <2>1. manifest[k] \in Nat
    BY <1>1 DEF TypeOK, Stamp
  <2>2. row[k].at \in Nat
    BY <1>1 DEF TypeOK, Row, Absent
  <2> QED
    BY <2>1, <2>2
<1>5. \A k \in Keys : manifest[k] <= now' /\ row[k].at <= now'
  BY <1>1, <1>2, <1>4 DEF Ages
<1>6. ASSUME NEW a \in Admins, editing'[a] # None PROVE editing'[a] \in 1..now'
  <2>1. CASE editing'[a] = editing[a]
    BY <1>1, <1>3, <1>6, <2>1 DEF Ages
  <2>2. CASE editing'[a] # editing[a]
    <3>1. TakeStamp(a)
      BY <1>1, <1>6, <2>2 DEF Next, vars, TakeStamp, Put, Delete, Release, StartImport,
         ImportFormat, EndImport, TypeOK
    <3>2. editing'[a] = now' /\ now' = now + 1
      BY <1>1, <3>1 DEF TakeStamp, TypeOK
    <3> QED
      BY <1>2, <3>2
  <2> QED
    BY <2>1, <2>2
<1>7. ASSUME NEW i \in Importers, run'[i] # None PROVE run'[i].at \in 1..now'
  <2>1. CASE run[i] # None /\ run'[i].at = run[i].at
    BY <1>1, <1>3, <2>1 DEF Ages
  <2>2. CASE StartImport(i)
    <3>1. run'[i].at = now' /\ now' = now + 1
      BY <1>1, <2>2 DEF StartImport, TypeOK
    <3> QED
      BY <1>2, <3>1
  <2> QED
    <3>1. StartImport(i) \/ run'[i] = run[i] \/ ImportFormat(i)
      BY <1>1, <1>7 DEF Next, vars, TakeStamp, Put, Delete, Release, StartImport,
         ImportFormat, EndImport, TypeOK
    <3>2. ImportFormat(i) => run[i] # None /\ run'[i].at = run[i].at
      BY <1>1 DEF ImportFormat, TypeOK
    <3> QED
      BY <1>7, <2>1, <2>2, <3>1, <3>2
<1>8. ASSUME NEW k \in Keys PROVE manifest'[k] <= now' /\ row'[k].at <= now'
  <2>1. CASE \E i \in Importers : ImportFormat(i)
    <3>1. PICK i \in Importers : ImportFormat(i)
      BY <2>1
    <3>2. run[i].at \in 1..now'
      BY <1>1, <1>3, <3>1 DEF Ages, ImportFormat
    <3>3. run[i].at <= now' /\ 0 <= now'
      BY <1>2, <3>2
    <3>4. row'[k].at \in {run[i].at, 0, row[k].at}
      <4>1. \/ row'[k] = [at |-> run[i].at, content |-> shipped[k]]
            \/ row'[k] = Absent
            \/ row'[k] = row[k]
        BY <3>1, ImportKey
      <4> QED
        BY <4>1 DEF Absent
    <3>5. manifest'[k] \in {run[i].at, 0, manifest[k]}
      BY <3>1, ImportKey
    <3> QED
      BY <1>5, <3>3, <3>4, <3>5
  <2>2. CASE \E a \in Admins, c \in Contents, l \in Keys : Put(a, l, c)
    <3>1. PICK a \in Admins, c \in Contents, l \in Keys : Put(a, l, c)
      BY <2>2
    <3>2. editing[a] \in 1..now'
      BY <1>1, <1>3, <3>1 DEF Ages, Put
    <3>3. manifest'[k] = manifest[k] /\ row'[k].at \in {editing[a], row[k].at}
      BY <1>1, <3>1 DEF Put, TypeOK
    <3> QED
      BY <1>2, <1>5, <3>2, <3>3
  <2>3. CASE \E l \in Keys : Delete(l)
    <3>1. manifest'[k] = manifest[k] /\ row'[k].at \in {0, row[k].at}
      BY <1>1, <2>3 DEF Delete, TypeOK, Absent
    <3> QED
      BY <1>2, <1>5, <3>1
  <2>4. CASE UNCHANGED <<row, manifest>>
    BY <1>5, <2>4
  <2> QED
    BY <2>1, <2>2, <2>3, <2>4 DEF Next, vars, TakeStamp, Release, StartImport, EndImport
<1> QED
  BY <1>6, <1>7, <1>8 DEF Ages, Taken

LEMMA ApartNext == ASSUME Inv, [Next]_vars PROVE Apart'
<1> USE TemplatesAssumption
<1>1. TypeOK /\ Ages /\ Apart
  BY DEF Inv
<1>2. now \in Nat
  BY <1>1 DEF TypeOK, Stamp
<1>3. \A k \in Keys : manifest[k] # now + 1 /\ row[k].at # now + 1
  <2> TAKE k \in Keys
  <2>1. manifest[k] \in Nat /\ manifest[k] <= now
    BY <1>1 DEF TypeOK, Stamp, Ages
  <2>2. row[k].at \in Nat /\ row[k].at <= now
    BY <1>1 DEF TypeOK, Row, Absent, Ages
  <2> QED
    BY <1>2, <2>1, <2>2
<1>4. \A a \in Admins : editing[a] # None => editing[a] # now + 1 /\ editing[a] # 0
  BY <1>1, <1>2 DEF Ages, Taken
<1>5. \A i \in Importers : run[i] # None => run[i].at # now + 1
  BY <1>1, <1>2 DEF Ages, Taken
<1>6. ASSUME NEW a \in Admins, TakeStamp(a) PROVE Apart'
  <2>1. editing' = [editing EXCEPT ![a] = now + 1]
    BY <1>6 DEF TakeStamp
  <2>2. UNCHANGED <<row, manifest, run, owner>>
    BY <1>6 DEF TakeStamp
  <2>3. \A b \in Admins : editing'[b] = editing[b] \/ editing'[b] = now + 1
    BY <1>1, <2>1 DEF TypeOK
  <2> QED
    BY <1>1, <1>3, <1>5, <2>2, <2>3 DEF Apart
<1>7. ASSUME NEW a \in Admins, NEW k \in Keys, NEW content \in Contents, Put(a, k, content)
      PROVE  Apart'
  <2>1. UNCHANGED <<manifest, run>> /\ editing[a] # None
    BY <1>7 DEF Put
  <2>2. \A b \in Admins : editing'[b] = editing[b] \/ editing'[b] = None
    BY <1>1, <1>7 DEF Put, TypeOK
  <2>3. \A l \in Keys : \/ row'[l] = row[l] /\ owner'[l] = owner[l]
                        \/ row'[l].at = editing[a]
    BY <1>1, <1>7 DEF Put, TypeOK
  <2> QED
    BY <1>1, <2>1, <2>2, <2>3 DEF Apart
<1>8. ASSUME NEW k \in Keys, Delete(k) PROVE Apart'
  <2>1. UNCHANGED <<manifest, run, editing>>
    BY <1>8 DEF Delete
  <2>2. \A l \in Keys : \/ row'[l] = row[l] /\ owner'[l] = owner[l]
                        \/ owner'[l] = "nobody"
    BY <1>1, <1>8 DEF Delete, TypeOK
  <2> QED
    BY <1>1, <2>1, <2>2 DEF Apart
<1>9. ASSUME NEW i \in Importers, StartImport(i) PROVE Apart'
  <2>1. UNCHANGED <<row, manifest, editing, owner>>
    BY <1>9 DEF StartImport
  <2>2. \A j \in Importers : run'[j] = run[j] \/ run'[j].at = now + 1
    BY <1>1, <1>9 DEF StartImport, TypeOK
  <2> QED
    BY <1>1, <1>3, <1>4, <2>1, <2>2 DEF Apart
<1>10. ASSUME NEW i \in Importers, ImportFormat(i) PROVE Apart'
  <2>1. editing' = editing /\ run[i] # None
    BY <1>10 DEF ImportFormat
  <2>2. \A j \in Importers : run'[j] # None => run[j] # None /\ run'[j].at = run[j].at
    BY <1>1, <1>10 DEF ImportFormat, TypeOK
  <2>3. \A k \in Keys : manifest'[k] \in {run[i].at, 0, manifest[k]}
    BY <1>10, ImportKey
  <2>4. \A k \in Keys : owner'[k] \in {"admin", "legacy"} =>
          row'[k] = row[k] /\ owner'[k] = owner[k]
    BY <1>10, ImportKey
  <2> QED
    BY <1>1, <1>4, <2>1, <2>2, <2>3, <2>4 DEF Apart
<1>11. ASSUME NEW i \in Importers, EndImport(i) PROVE Apart'
  <2>1. UNCHANGED <<row, manifest, editing, owner>>
    BY <1>11 DEF EndImport
  <2>2. \A j \in Importers : run'[j] = run[j] \/ run'[j] = None
    BY <1>1, <1>11 DEF EndImport, TypeOK
  <2> QED
    BY <1>1, <2>1, <2>2 DEF Apart
<1>12. CASE UNCHANGED <<row, manifest, editing, owner, run>>
  BY <1>1, <1>12 DEF Apart
<1> QED
  BY <1>6, <1>7, <1>8, <1>9, <1>10, <1>11, <1>12 DEF Next, vars, Release

LEMMA NobodyNext == ASSUME Inv, [Next]_vars PROVE Nobody'
<1>1. TypeOK /\ Nobody
  BY DEF Inv
<1>2. ASSUME NEW a \in Admins, NEW k \in Keys, NEW content \in Contents, Put(a, k, content)
      PROVE  Nobody'
  <2>1. Taken(editing[a])
    BY <1>2 DEF Inv, Ages, Put
  <2>2. editing[a] # 0
    BY <2>1 DEF Taken
  <2>3. [at |-> editing[a], content |-> content] # Absent
    BY <2>2 DEF Absent
  <2> QED
    BY <1>1, <1>2, <2>3 DEF Put, Nobody, TypeOK
<1>3. ASSUME NEW k \in Keys, Delete(k) PROVE Nobody'
  BY <1>1, <1>3 DEF Delete, Nobody, TypeOK
<1>4. ASSUME NEW i \in Importers, ImportFormat(i) PROVE Nobody'
  <2> SUFFICES ASSUME NEW k \in Keys PROVE owner'[k] = "nobody" <=> row'[k] = Absent
    BY DEF Nobody
  <2>1. run[i].at # 0
    <3>1. run[i].at \in 1..MaxStamp
      BY <1>4, ImportKey
    <3> QED
      BY <3>1, TemplatesAssumption
  <2>2. [at |-> run[i].at, content |-> shipped[k]] # Absent
    BY <2>1 DEF Absent
  <2>3. owner[k] = "nobody" <=> row[k] = Absent
    BY <1>1 DEF Nobody
  <2> QED
    BY <1>4, <2>2, <2>3, ImportKey
<1>5. CASE UNCHANGED <<row, owner>>
  BY <1>1, <1>5 DEF Nobody
<1> QED
  BY <1>2, <1>3, <1>4, <1>5 DEF Next, vars, TakeStamp, Release, StartImport, EndImport

LEMMA ProvenanceNext == ASSUME Inv, [Next]_vars PROVE ProvenanceExact'
<1>1. TypeOK /\ ProvenanceExact
  BY DEF Inv
<1>2. ASSUME NEW a \in Admins, NEW k \in Keys, NEW content \in Contents, Put(a, k, content)
      PROVE  ProvenanceExact'
  <2>1. manifest[k] # editing[a]
    BY <1>2 DEF Inv, Apart, Put
  <2>2. row'[k].at = editing[a] /\ owner'[k] = "admin" /\ manifest' = manifest
    BY <1>1, <1>2 DEF Put, TypeOK
  <2>3. \A l \in Keys \ {k} : row'[l] = row[l] /\ owner'[l] = owner[l]
    BY <1>1, <1>2 DEF Put, TypeOK
  <2> QED
    BY <1>1, <2>1, <2>2, <2>3 DEF ProvenanceExact, Pristine
<1>3. ASSUME NEW k \in Keys, Delete(k) PROVE ProvenanceExact'
  <2>1. row'[k] = Absent /\ owner'[k] = "nobody" /\ manifest' = manifest
    BY <1>1, <1>3 DEF Delete, TypeOK
  <2>2. \A l \in Keys \ {k} : row'[l] = row[l] /\ owner'[l] = owner[l]
    BY <1>1, <1>3 DEF Delete, TypeOK
  <2> QED
    BY <1>1, <2>1, <2>2 DEF ProvenanceExact, Pristine
<1>4. ASSUME NEW i \in Importers, ImportFormat(i) PROVE ProvenanceExact'
  <2> SUFFICES ASSUME NEW k \in Keys PROVE Pristine(k)' <=> owner'[k] = "importer"
    BY DEF ProvenanceExact
  <2>1. run[i].at # 0
    <3>1. run[i].at \in 1..MaxStamp
      BY <1>4, ImportKey
    <3> QED
      BY <3>1, TemplatesAssumption
  <2>2. Pristine(k) <=> owner[k] = "importer"
    BY <1>1 DEF ProvenanceExact
  <2>3. CASE row'[k] = [at |-> run[i].at, content |-> shipped[k]]
             /\ owner'[k] = "importer" /\ manifest'[k] = run[i].at
    <3>1. row'[k] # Absent
      BY <2>1, <2>3 DEF Absent
    <3> QED
      BY <2>3, <3>1 DEF Pristine
  <2>4. CASE row'[k] = Absent /\ owner'[k] = "nobody"
    BY <2>4 DEF Pristine
  <2>5. CASE /\ row'[k] = row[k] /\ owner'[k] = owner[k]
             /\ manifest'[k] = manifest[k] \/ (manifest'[k] = 0 /\ owner[k] # "importer")
    <3>1. row[k] # Absent => row[k].at # 0
      BY <1>1, RowAge
    <3> QED
      BY <2>2, <2>5, <3>1 DEF Pristine
  <2> QED
    BY <1>4, <2>3, <2>4, <2>5, ImportKey
<1>5. CASE UNCHANGED <<row, owner, manifest>>
  BY <1>1, <1>5 DEF ProvenanceExact, Pristine
<1> QED
  BY <1>2, <1>3, <1>4, <1>5 DEF Next, vars, TakeStamp, Release, StartImport, EndImport

LEMMA InvNext == ASSUME Inv, [Next]_vars PROVE Inv'
  BY TypeNext, AgesNext, ApartNext, NobodyNext, ProvenanceNext DEF Inv

THEOREM Invariance == Spec => []Inv
<1>1. Inv /\ [Next]_vars => Inv'
  BY InvNext
<1> QED
  BY InvInit, <1>1, PTL DEF Spec

-----------------------------------------------------------------------------
(* The properties.                                                         *)

\* Every reachable state of the store and its imports is well typed.
THEOREM TypeCorrect == Spec => []TypeOK
<1>1. Inv => TypeOK
  BY DEF Inv
<1> QED
  BY Invariance, <1>1, PTL

\* The manifest tells exactly the rows an import wrote last.
THEOREM ManifestExact == Spec => []ProvenanceExact
<1>1. Inv => ProvenanceExact
  BY DEF Inv
<1> QED
  BY Invariance, <1>1, PTL

\* No import ever touches a row that an admin saved or that is of unknown
\* origin.
THEOREM EditsSafe == Spec => AdminEditsKept
<1>1. ASSUME Inv, [Next]_vars PROVE [EditsKept]_vars
  <2> SUFFICES ASSUME run' # run, NEW k \in Keys, owner[k] \in {"admin", "legacy"}
               PROVE  row'[k] = row[k]
    BY DEF EditsKept
  <2>1. CASE \E i \in Importers : ImportFormat(i)
    BY <1>1, <2>1, ImportKey
  <2>2. CASE row' = row
    BY <2>2
  <2> QED
    BY <1>1, <2>1, <2>2 DEF Next, vars, TakeStamp, Put, Delete, Release, StartImport, EndImport
<1> QED
  BY Invariance, <1>1, PTL DEF Spec, AdminEditsKept

LEMMA CurrentNext ==
  ASSUME Inv, ImportedIsCurrent, [Next]_vars PROVE ImportedIsCurrent'
<1>1. TypeOK
  BY DEF Inv
<1>2. ASSUME NEW a \in Admins, NEW k \in Keys, NEW content \in Contents, Put(a, k, content)
      PROVE  ImportedIsCurrent'
  <2>1. UNCHANGED <<settled, shipped>>
    BY <1>2 DEF Put
  <2>2. \A l \in Keys : owner'[l] = "admin" \/ (row'[l] = row[l] /\ owner'[l] = owner[l])
    BY <1>1, <1>2 DEF Put, TypeOK
  <2> QED
    BY <1>1, <2>1, <2>2 DEF ImportedIsCurrent, Agrees, TypeOK
<1>3. ASSUME NEW k \in Keys, Delete(k) PROVE ImportedIsCurrent'
  <2>1. settled' = settled \ {k} /\ shipped' = shipped
    BY <1>3 DEF Delete
  <2>2. \A l \in Keys \ {k} : row'[l] = row[l] /\ owner'[l] = owner[l]
    BY <1>1, <1>3 DEF Delete, TypeOK
  <2> QED
    BY <1>1, <2>1, <2>2 DEF ImportedIsCurrent, Agrees, TypeOK
<1>4. ASSUME NEW i \in Importers, ImportFormat(i) PROVE ImportedIsCurrent'
  <2>1. shipped' = shipped
    BY <1>4 DEF ImportFormat
  <2>2. settled' \subseteq Keys
    BY <1>1, <1>4 DEF ImportFormat, TypeOK
  <2> SUFFICES ASSUME NEW k \in settled' PROVE Agrees(k)'
    BY DEF ImportedIsCurrent
  <2>3. k \in Keys
    BY <2>2
  <2>4. k \in settled \/ FormatOf[k] = Order[run[i].next]
    BY <1>4 DEF ImportFormat
  <2>5. k \in settled => Agrees(k)
    BY DEF ImportedIsCurrent
  <2>6. \/ row'[k] = [at |-> run[i].at, content |-> shipped[k]] /\ owner'[k] = "importer"
        \/ row'[k] = Absent /\ owner'[k] = "nobody" /\ shipped[k] = None
        \/ /\ row'[k] = row[k] /\ owner'[k] = owner[k]
           /\ FormatOf[k] = Order[run[i].next] => Agrees(k)
    BY <1>4, <2>3, ImportKey
  <2>7. CASE row'[k] = [at |-> run[i].at, content |-> shipped[k]] /\ owner'[k] = "importer"
    BY <2>1, <2>7 DEF Agrees
  <2>8. CASE row'[k] = Absent /\ owner'[k] = "nobody" /\ shipped[k] = None
    BY <2>1, <2>8 DEF Agrees
  <2>9. CASE row'[k] = row[k] /\ owner'[k] = owner[k] /\ Agrees(k)
    BY <2>1, <2>9 DEF Agrees
  <2> QED
    BY <2>4, <2>5, <2>6, <2>7, <2>8, <2>9
<1>5. ASSUME NEW files \in [Keys -> Contents \cup {None}], Release(files)
      PROVE  ImportedIsCurrent'
  BY <1>5 DEF Release, ImportedIsCurrent
<1>6. CASE UNCHANGED <<row, owner, shipped, settled>>
  BY <1>6 DEF ImportedIsCurrent, Agrees
<1> QED
  BY <1>2, <1>3, <1>4, <1>5, <1>6 DEF Next, vars, TakeStamp, StartImport, EndImport

\* After an import, the rows that are the import's are those the release
\* ships, as it ships them.
THEOREM ImportsComplete == Spec => []ImportedIsCurrent
<1>1. Init => ImportedIsCurrent
  BY DEF Init, ImportedIsCurrent
<1>2. Inv /\ ImportedIsCurrent /\ [Next]_vars => ImportedIsCurrent'
  BY CurrentNext
<1> QED
  BY Invariance, <1>1, <1>2, PTL DEF Spec

-----------------------------------------------------------------------------
(* The copies that are served.                                             *)
Looked == [asked : Served!Slots, key : Served!Slots, row : Served!Row]

CallState ==
  [pc : {"idle", "queried", "done"}, stamp : Looked \cup {None},
   answer : Served!Row \cup {None}]

CopiesTyped ==
  /\ clock \in Served!Stamp
  /\ saving \in [Savers -> Served!Stamp \cup {None}]
  /\ table \in [Served!Slots -> Served!Row]
  /\ cache \in [Served!Slots -> Served!Row]
  /\ lock = None
  /\ reader \in [Readers -> CallState]
  /\ seen \in [Readers -> [Served!Slots -> SUBSET Served!Row]]
  /\ \A r \in Readers : Served!Queried(r) => reader[r].stamp \in Looked

\* The rows of a profile that are anywhere: in the table, in the copy, or in the
\* hands of a call.
HeldBy(c, key) == IF c.pc = "queried" /\ c.stamp.key = key THEN {c.stamp.row} ELSE {}

Around(key) ==
  {table[key], cache[key]} \cup UNION {HeldBy(reader[r], key) : r \in Readers}

\* Of two rows of a profile with the same stamp there is only one.
OneRow ==
  \A key \in Served!Slots : \A x \in Around(key) :
    /\ x.at <= clock
    /\ x.at = 0 => x = Served!Absent
    /\ \A y \in Around(key) : x.at = y.at => x = y

\* A stamp that was taken and not yet written is on no row, and no two are alike.
Ahead ==
  \A w \in Savers : saving[w] # None =>
    /\ saving[w] \in 1..clock
    /\ \A key \in Served!Slots : \A x \in Around(key) : x.at # saving[w]
    /\ \A u \in Savers \ {w} : saving[u] # saving[w]

\* What a call may answer its row was since it began; one that fell back to the
\* default found its own missing.
Looks(r) ==
  /\ \A key \in Served!Slots : table[key] \in seen[r][key]
  /\ reader[r].stamp.row \in seen[r][reader[r].stamp.key]
  /\ reader[r].stamp.key # reader[r].stamp.asked =>
       /\ reader[r].stamp.key = Served!Default
       /\ Served!Absent \in seen[r][reader[r].stamp.asked]

Found == \A r \in Readers : Served!Queried(r) => Looks(r)

CopiesInv == CopiesTyped /\ OneRow /\ Ahead /\ Found

LEMMA CopiesConstants ==
  /\ CacheStamps \in Nat \ {0} /\ None \notin Nat /\ None \notin Served!Row
  /\ Served!Default \in Served!Slots /\ Served!Absent \in Served!Row
  /\ Served!Absent.at = 0
  /\ \A x \in Served!Row : x.at \in 0..CacheStamps /\ x # None
BY ServedAssumption, TemplatesAssumption
   DEF Served!Slots, Served!Absent, Served!Row, Served!Stamp

\* Every row that is around is a row.
LEMMA AroundRow ==
  ASSUME CopiesTyped, NEW key \in Served!Slots
  PROVE  /\ Around(key) \subseteq Served!Row
         /\ table[key] \in Around(key) /\ cache[key] \in Around(key)
         /\ \A r \in Readers : Served!Queried(r) /\ reader[r].stamp.key = key =>
              reader[r].stamp.row \in Around(key)
<1>1. table[key] \in Served!Row /\ cache[key] \in Served!Row
  BY DEF CopiesTyped
<1>2. \A r \in Readers : HeldBy(reader[r], key) \subseteq Served!Row
  BY DEF CopiesTyped, HeldBy, Served!Queried, Looked
<1> QED
  BY <1>1, <1>2 DEF Around, HeldBy, Served!Queried

LEMMA CopiesInit ==
  ASSUME Served!Init
  PROVE  CopiesInv
<1>1. /\ clock = 1 /\ lock = None
      /\ saving = [w \in Savers |-> None]
      /\ cache = [key \in Served!Slots |-> Served!Absent]
      /\ table \in [Served!Slots -> {Served!Absent, [at |-> 1, ok |-> TRUE]}]
      /\ reader = [r \in Readers |-> Served!Idle]
      /\ seen = [r \in Readers |-> [p \in Served!Slots |-> {}]]
  BY DEF Served!Init, Served!Quiet
<1>2. 1 \in Served!Stamp /\ [at |-> 1, ok |-> TRUE] \in Served!Row
  BY CopiesConstants DEF Served!Stamp, Served!Row
<1>3. Served!Idle \in CallState /\ Served!Idle.pc # "queried"
  BY DEF Served!Idle, CallState
<1>4. CopiesTyped
  BY <1>1, <1>2, <1>3, CopiesConstants DEF CopiesTyped, Served!Queried
<1>5. \A r \in Readers : ~Served!Queried(r)
  BY <1>1, <1>3 DEF Served!Queried
<1>6. ASSUME NEW key \in Served!Slots, NEW x \in Around(key)
      PROVE  x = Served!Absent \/ x = [at |-> 1, ok |-> TRUE]
  <2>1. \A r \in Readers : HeldBy(reader[r], key) = {}
    BY <1>5 DEF HeldBy, Served!Queried
  <2>2. x \in {table[key], cache[key]}
    BY <1>6, <2>1 DEF Around
  <2> QED
    BY <1>1, <2>2
<1>7. PICK first : first = [at |-> 1, ok |-> TRUE]
  OBVIOUS
<1>8. \A key \in Served!Slots : \A x \in Around(key) : x = Served!Absent \/ x = first
  BY <1>6, <1>7
<1>9. OneRow
  <2>1. first.at = 1 /\ Served!Absent.at = 0
    BY <1>7, CopiesConstants
  <2> QED
    BY <1>1, <1>8, <2>1 DEF OneRow
<1> QED
  BY <1>1, <1>4, <1>5, <1>9 DEF CopiesInv, Ahead, Found

\* Steps that move rows about, or delete one, leave the stamps as they are.
LEMMA RowsKept ==
  ASSUME CopiesInv, CopiesTyped', UNCHANGED <<clock, saving>>,
         \A key \in Served!Slots : Around(key)' \subseteq Around(key) \cup {Served!Absent}
  PROVE  OneRow' /\ Ahead'
<1>0. CopiesTyped /\ OneRow /\ Ahead
  BY DEF CopiesInv
<1>1. clock \in Nat
  BY <1>0, CopiesConstants DEF CopiesTyped, Served!Stamp
<1>2. ASSUME NEW key \in Served!Slots, NEW x \in Around(key)'
      PROVE  /\ x.at <= clock
             /\ x.at = 0 => x = Served!Absent
             /\ x = Served!Absent \/ x \in Around(key)
  BY <1>0, <1>1, CopiesConstants DEF OneRow
<1>3. ASSUME NEW key \in Served!Slots, NEW x \in Around(key)', NEW y \in Around(key)', x.at = y.at
      PROVE  x = y
  BY <1>0, <1>2, <1>3, CopiesConstants DEF OneRow
<1>4. OneRow'
  BY <1>2, <1>3 DEF OneRow
<1>5. ASSUME NEW w \in Savers, saving[w] # None
      PROVE  \A key \in Served!Slots : \A x \in Around(key)' : x.at # saving[w]
  BY <1>0, <1>1, <1>2, <1>5, CopiesConstants DEF Ahead
<1>6. Ahead'
  BY <1>0, <1>5 DEF Ahead
<1> QED
  BY <1>4, <1>6

\* A write puts its stamp on one row of a profile at most.
LEMMA RowsWritten ==
  ASSUME CopiesInv, CopiesTyped', NEW w \in Savers, saving[w] # None,
         clock' = clock, saving' = [saving EXCEPT ![w] = None], NEW t,
         \A key \in Served!Slots : /\ t[key] \in {table[key], Served!Absent} \/ t[key].at = saving[w]
                                   /\ Around(key)' \subseteq Around(key) \cup {t[key]}
  PROVE  OneRow' /\ Ahead'
<1>0. CopiesTyped /\ OneRow /\ Ahead
  BY DEF CopiesInv
<1>1. /\ clock \in Nat /\ saving[w] \in 1..clock
      /\ \A key \in Served!Slots : \A x \in Around(key) : x.at # saving[w]
  BY <1>0, CopiesConstants DEF CopiesTyped, Served!Stamp, Ahead
<1>2. ASSUME NEW key \in Served!Slots, NEW x \in Around(key)'
      PROVE  /\ x.at <= clock
             /\ x.at = 0 => x = Served!Absent
             /\ x = Served!Absent \/ x \in Around(key) \/ (x = t[key] /\ x.at = saving[w])
  <2>1. x \in Around(key) \/ x = Served!Absent \/ (x = t[key] /\ x.at = saving[w])
    BY <1>0, AroundRow
  <2> QED
    BY <1>0, <1>1, <2>1, CopiesConstants DEF OneRow
<1>3. ASSUME NEW key \in Served!Slots, NEW x \in Around(key)', NEW y \in Around(key)', x.at = y.at
      PROVE  x = y
  <2>1. \A z \in Around(key) : z.at # saving[w]
    BY <1>1
  <2>2. Served!Absent.at # saving[w]
    BY <1>1, CopiesConstants
  <2> QED
    BY <1>0, <1>2, <1>3, <2>1, <2>2, CopiesConstants DEF OneRow
<1>4. OneRow'
  BY <1>2, <1>3 DEF OneRow
<1>5. ASSUME NEW u \in Savers, saving'[u] # None
      PROVE  /\ saving'[u] \in 1..clock'
             /\ \A key \in Served!Slots : \A x \in Around(key)' : x.at # saving'[u]
             /\ \A v \in Savers \ {u} : saving'[v] # saving'[u]
  <2>1. u # w /\ saving'[u] = saving[u]
    BY <1>0, <1>5 DEF CopiesTyped
  <2>2. /\ saving[u] \in 1..clock /\ saving[u] # saving[w]
        /\ \A key \in Served!Slots : \A x \in Around(key) : x.at # saving[u]
    BY <1>0, <1>5, <2>1 DEF Ahead
  <2>3. \A key \in Served!Slots : \A x \in Around(key)' : x.at # saving[u]
    BY <1>1, <1>2, <2>2, CopiesConstants
  <2>4. \A v \in Savers \ {u} : saving'[v] # saving'[u]
    BY <1>0, <1>5, <2>1 DEF CopiesTyped, Ahead
  <2> QED
    BY <2>1, <2>2, <2>3, <2>4
<1>6. Ahead'
  BY <1>5 DEF Ahead
<1> QED
  BY <1>4, <1>6

LEMMA CopiesStamp ==
  ASSUME CopiesInv, NEW w \in Savers, Served!TakeStamp(w)
  PROVE  CopiesInv'
<1>0. CopiesTyped /\ OneRow /\ Ahead /\ Found
  BY DEF CopiesInv
<1>1. /\ clock' = clock + 1 /\ clock < CacheStamps /\ saving[w] = None
      /\ saving' = [saving EXCEPT ![w] = clock + 1]
      /\ UNCHANGED <<table, cache, lock, reader, seen>>
  BY DEF Served!TakeStamp
<1>2. clock \in Nat /\ clock + 1 \in Served!Stamp
  BY <1>0, <1>1, CopiesConstants DEF CopiesTyped, Served!Stamp
<1>3. CopiesTyped'
  BY <1>0, <1>1, <1>2 DEF CopiesTyped, Served!Queried
<1>4. \A key \in Served!Slots : Around(key)' = Around(key) /\ Around(key) \subseteq Served!Row
  BY <1>0, <1>1, AroundRow DEF Around
<1>5. \A key \in Served!Slots : \A x \in Around(key) : x.at \in Nat /\ x.at <= clock
  BY <1>0, <1>4, CopiesConstants DEF OneRow
<1>6. OneRow'
  BY <1>0, <1>1, <1>2, <1>4, <1>5 DEF OneRow
<1>7. /\ \A key \in Served!Slots : \A x \in Around(key)' : x.at # clock + 1
      /\ \A u \in Savers : saving[u] # None => saving[u] # clock + 1
  BY <1>0, <1>2, <1>4, <1>5 DEF Ahead
<1>8. ASSUME NEW u \in Savers, saving'[u] # None
      PROVE  /\ saving'[u] \in 1..clock'
             /\ \A key \in Served!Slots : \A x \in Around(key)' : x.at # saving'[u]
             /\ \A v \in Savers \ {u} : saving'[v] # saving'[u]
  <2>0. /\ \A v \in Savers : saving'[v] = IF v = w THEN clock + 1 ELSE saving[v]
        /\ clock + 1 # None
    BY <1>0, <1>1, <1>2, CopiesConstants DEF CopiesTyped
  <2>1. CASE u = w
    BY <1>1, <1>2, <1>7, <2>0, <2>1
  <2>2. CASE u # w
    <3>1. /\ saving[u] \in 1..clock /\ saving'[u] = saving[u] /\ saving[u] # clock + 1
          /\ \A key \in Served!Slots : \A x \in Around(key) : x.at # saving[u]
          /\ \A v \in Savers \ {u} : saving[v] # saving[u]
      BY <1>0, <1>7, <1>8, <2>0, <2>2 DEF Ahead
    <3> QED
      BY <1>1, <1>2, <1>4, <2>0, <3>1
  <2> QED
    BY <2>1, <2>2
<1>9. Ahead'
  BY <1>8 DEF Ahead
<1>10. Found'
  BY <1>0, <1>1 DEF Found, Looks, Served!Queried
<1> QED
  BY <1>3, <1>6, <1>9, <1>10 DEF CopiesInv

\* The table becomes t: its rows are around, and seen by every call.
LEMMA CopiesBecome ==
  ASSUME CopiesInv, NEW t \in [Served!Slots -> Served!Row], Served!Becomes(t, t),
         saving' \in [Savers -> Served!Stamp \cup {None}]
  PROVE  /\ CopiesTyped' /\ Found'
         /\ \A key \in Served!Slots : Around(key)' \subseteq Around(key) \cup {t[key]}
<1>0. CopiesTyped /\ Found
  BY DEF CopiesInv
<1>1. /\ table' = t /\ UNCHANGED <<clock, cache, lock, reader>>
      /\ seen' = [r \in Readers |-> [p \in Served!Slots |->
           IF Served!Calling(r) THEN seen[r][p] \cup {t[p]} ELSE seen[r][p]]]
  BY DEF Served!Becomes
<1>2. seen' \in [Readers -> [Served!Slots -> SUBSET Served!Row]]
  <2>1. ASSUME NEW r \in Readers, NEW p \in Served!Slots
        PROVE  seen[r][p] \in SUBSET Served!Row /\ t[p] \in Served!Row
    BY <1>0 DEF CopiesTyped
  <2> QED
    BY <1>1, <2>1
<1>3. CopiesTyped'
  BY <1>0, <1>1, <1>2 DEF CopiesTyped, Served!Queried
<1>4. ASSUME NEW r \in Readers, Served!Queried(r) PROVE Looks(r)'
  <2>1. Served!Calling(r) /\ Looks(r) /\ reader[r].stamp \in Looked
    BY <1>0, <1>4 DEF Served!Calling, Served!Queried, Found, CopiesTyped
  <2>2. \A p \in Served!Slots : seen'[r][p] = seen[r][p] \cup {t[p]}
    BY <1>1, <2>1
  <2>3. reader[r].stamp.key \in Served!Slots /\ reader[r].stamp.asked \in Served!Slots
    BY <2>1 DEF Looked
  <2> QED
    BY <1>1, <2>1, <2>2, <2>3 DEF Looks
<1>5. Found'
  BY <1>1, <1>4 DEF Found, Served!Queried
<1>6. \A key \in Served!Slots : Around(key)' \subseteq Around(key) \cup {t[key]}
  BY <1>1 DEF Around
<1> QED
  BY <1>3, <1>5, <1>6

LEMMA CopiesCommitted ==
  ASSUME CopiesInv, NEW w \in Savers, NEW t \in [Served!Slots -> Served!Row],
         Served!Commit(w, t, t),
         \A key \in Served!Slots : t[key] \in {table[key], Served!Absent} \/ t[key].at = saving[w]
  PROVE  CopiesInv'
<1>1. /\ saving[w] # None /\ saving' = [saving EXCEPT ![w] = None]
      /\ Served!Becomes(t, t) /\ clock' = clock
  BY DEF Served!Commit, Served!Becomes
<1>2. saving' \in [Savers -> Served!Stamp \cup {None}]
  BY <1>1 DEF CopiesInv, CopiesTyped
<1>3. CopiesTyped' /\ Found' /\ \A key \in Served!Slots : Around(key)' \subseteq Around(key) \cup {t[key]}
  BY <1>1, <1>2, CopiesBecome
<1> QED
  BY <1>1, <1>3, RowsWritten DEF CopiesInv

LEMMA CopiesWritten ==
  ASSUME CopiesInv, Served!Write
  PROVE  CopiesInv'
<1>0. CopiesTyped
  BY DEF CopiesInv
<1>1. CASE \E w \in Savers : Served!TakeStamp(w)
  BY <1>1, CopiesStamp
<1>2. ASSUME NEW w \in Savers, NEW key \in Served!Slots, NEW ok \in BOOLEAN, Served!Put(w, key, ok)
      PROVE  CopiesInv'
  <2>1. PICK new : new = [at |-> saving[w], ok |-> ok]
    OBVIOUS
  <2>2. PICK t : t = [table EXCEPT ![key] = new]
    OBVIOUS
  <2>3. Served!Commit(w, t, t)
    BY <1>2, <2>1, <2>2 DEF Served!Put
  <2>4. new \in Served!Row /\ new.at = saving[w]
    BY <1>0, <2>1, <2>3 DEF CopiesTyped, Served!Commit, Served!Row
  <2>5. /\ t \in [Served!Slots -> Served!Row]
        /\ \A k \in Served!Slots : t[k] \in {table[k], Served!Absent} \/ t[k].at = saving[w]
    BY <1>0, <2>2, <2>4 DEF CopiesTyped
  <2> QED
    BY <2>3, <2>5, CopiesCommitted
<1>3. ASSUME NEW key \in Served!Slots, Served!Delete(key) PROVE CopiesInv'
  <2>1. PICK t : t = [table EXCEPT ![key] = Served!Absent]
    OBVIOUS
  <2>2. Served!Becomes(t, t) /\ saving' = saving /\ clock' = clock
    BY <1>3, <2>1 DEF Served!Delete, Served!Erase, Served!Becomes
  <2>3. t \in [Served!Slots -> Served!Row] /\ \A k \in Served!Slots : t[k] \in {table[k], Served!Absent}
    BY <1>0, <2>1, CopiesConstants DEF CopiesTyped
  <2>4. saving' \in [Savers -> Served!Stamp \cup {None}]
    BY <1>0, <2>2 DEF CopiesTyped
  <2>5. /\ CopiesTyped' /\ Found'
        /\ \A k \in Served!Slots : Around(k)' \subseteq Around(k) \cup {t[k]}
    BY <2>2, <2>3, <2>4, CopiesBecome
  <2>6. \A k \in Served!Slots : Around(k)' \subseteq Around(k) \cup {Served!Absent}
    BY <1>0, <2>3, <2>5, AroundRow
  <2> QED
    BY <2>2, <2>5, <2>6, RowsKept DEF CopiesInv
<1>4. ASSUME NEW w \in Savers, NEW refreshed \in SUBSET Served!Slots,
             NEW pruned \in SUBSET Served!Slots, Served!Import(w, refreshed, pruned)
      PROVE  CopiesInv'
  <2>1. PICK new : new = [at |-> saving[w], ok |-> TRUE]
    OBVIOUS
  <2>2. PICK t : t = [key \in Served!Slots |-> IF key \in refreshed THEN new
                        ELSE IF key \in pruned THEN Served!Absent ELSE table[key]]
    OBVIOUS
  <2>3. Served!Commit(w, t, t)
    BY <1>4, <2>1, <2>2 DEF Served!Import
  <2>4. new \in Served!Row /\ new.at = saving[w]
    BY <1>0, <2>1, <2>3 DEF CopiesTyped, Served!Commit, Served!Row
  <2>5. /\ t \in [Served!Slots -> Served!Row]
        /\ \A k \in Served!Slots : t[k] \in {table[k], Served!Absent} \/ t[k].at = saving[w]
    BY <1>0, <2>2, <2>4, CopiesConstants DEF CopiesTyped
  <2> QED
    BY <2>3, <2>5, CopiesCommitted
<1> QED
  BY <1>1, <1>2, <1>3, <1>4 DEF Served!Write

\* A step of one call that keeps what it holds around.
LEMMA CopiesMoved ==
  ASSUME CopiesInv, NEW r \in Readers, UNCHANGED <<clock, saving, table, lock>>,
         cache' \in [Served!Slots -> Served!Row], \A key \in Served!Slots : cache'[key] \in Around(key),
         NEW call \in CallState, reader' = [reader EXCEPT ![r] = call],
         NEW views \in [Served!Slots -> SUBSET Served!Row], seen' = [seen EXCEPT ![r] = views],
         call.pc = "queried" => /\ call.stamp \in Looked /\ Looks(r)'
                                /\ call.stamp.row \in Around(call.stamp.key)
  PROVE  CopiesInv'
<1>0. CopiesTyped /\ Found
  BY DEF CopiesInv
<1>1. \A q \in Readers : /\ reader'[q] = IF q = r THEN call ELSE reader[q]
                         /\ seen'[q] = IF q = r THEN views ELSE seen[q]
  BY <1>0 DEF CopiesTyped
<1>2. reader' \in [Readers -> CallState] /\ seen' \in [Readers -> [Served!Slots -> SUBSET Served!Row]]
  BY <1>0 DEF CopiesTyped
<1>3. CopiesTyped'
  BY <1>0, <1>1, <1>2 DEF CopiesTyped, Served!Queried
<1>4. ASSUME NEW key \in Served!Slots PROVE Around(key)' \subseteq Around(key) \cup {Served!Absent}
  <2>1. HeldBy(call, key) \subseteq Around(key)
    BY DEF HeldBy
  <2>2. \A q \in Readers : HeldBy(reader[q], key) \subseteq Around(key)
    BY DEF Around
  <2>3. \A q \in Readers : HeldBy(reader'[q], key) \subseteq Around(key)
    <3>1. \A q \in Readers : reader'[q] = call \/ reader'[q] = reader[q]
      BY <1>1
    <3> QED
      BY <2>1, <2>2, <3>1
  <2>4. {table'[key], cache'[key]} \subseteq Around(key)
    BY DEF Around
  <2> QED
    BY <2>3, <2>4 DEF Around
<1>5. ASSUME NEW q \in Readers, Served!Queried(q)' PROVE Looks(q)'
  <2>1. CASE q = r
    BY <1>1, <1>5, <2>1 DEF Served!Queried
  <2>2. CASE q # r
    <3>1. Served!Queried(q) /\ reader'[q] = reader[q] /\ seen'[q] = seen[q] /\ Looks(q)
      BY <1>0, <1>1, <1>5, <2>2 DEF Served!Queried, Found
    <3> QED
      BY <3>1 DEF Looks
  <2> QED
    BY <2>1, <2>2
<1>6. Found'
  BY <1>5 DEF Found
<1> QED
  BY <1>3, <1>4, <1>6, RowsKept DEF CopiesInv

LEMMA CopiesQueried ==
  ASSUME CopiesInv, NEW r \in Readers, NEW key \in Served!Slots, Served!Query(r, key)
  PROVE  CopiesInv'
<1>0. CopiesTyped
  BY DEF CopiesInv
<1>1. PICK stamp : stamp = [asked |-> key, key |-> key, row |-> table[key]]
  OBVIOUS
<1>2. PICK call : call = [pc |-> "queried", stamp |-> stamp, answer |-> None]
  OBVIOUS
<1>3. PICK views : views = [p \in DOMAIN table |-> {table[p]}]
  OBVIOUS
<1>4. /\ reader' = [reader EXCEPT ![r] = call] /\ seen' = [seen EXCEPT ![r] = views]
      /\ UNCHANGED <<clock, saving, table, cache, lock>>
  BY <1>1, <1>2, <1>3 DEF Served!Query, Served!Ask
<1>5. \A k \in Served!Slots : table[k] \in Served!Row /\ cache[k] \in Around(k) /\ table[k] \in Around(k)
  BY <1>0, AroundRow DEF CopiesTyped
<1>6. stamp \in Looked /\ call \in CallState
  BY <1>1, <1>2, <1>5 DEF Looked, CallState
<1>7. /\ views \in [Served!Slots -> SUBSET Served!Row]
      /\ \A k \in Served!Slots : views[k] = {table[k]}
  BY <1>0, <1>3, <1>5 DEF CopiesTyped
<1>8. reader'[r] = call /\ seen'[r] = views
  BY <1>0, <1>4 DEF CopiesTyped
<1>9. Looks(r)'
  BY <1>1, <1>2, <1>4, <1>7, <1>8 DEF Looks
<1>10. cache' \in [Served!Slots -> Served!Row] /\ \A k \in Served!Slots : cache'[k] \in Around(k)
  BY <1>0, <1>4, <1>5 DEF CopiesTyped
<1> QED
  BY <1>1, <1>2, <1>4, <1>5, <1>6, <1>7, <1>9, <1>10, CopiesMoved

LEMMA CopiesFellBack ==
  ASSUME CopiesInv, NEW r \in Readers, Served!Fallback(r)
  PROVE  CopiesInv'
<1>0. /\ CopiesTyped /\ Served!Queried(r) /\ reader[r].stamp \in Looked /\ Looks(r)
      /\ reader[r].stamp.row = Served!Absent /\ reader[r].stamp.key # Served!Default
  BY DEF CopiesInv, CopiesTyped, Found, Served!Fallback, Served!Missing
<1>1. PICK stamp : stamp = [reader[r].stamp EXCEPT !.key = Served!Default, !.row = table[Served!Default]]
  OBVIOUS
<1>2. PICK call : call = [reader[r] EXCEPT !.stamp = stamp]
  OBVIOUS
<1>3. /\ reader[r] \in CallState /\ seen[r] \in [Served!Slots -> SUBSET Served!Row]
      /\ table[Served!Default] \in Served!Row
  BY <1>0, CopiesConstants DEF CopiesTyped
<1>4. /\ stamp \in Looked /\ stamp.key = Served!Default /\ stamp.row = table[Served!Default]
      /\ stamp.asked = reader[r].stamp.asked
  BY <1>0, <1>1, <1>3, CopiesConstants DEF Looked
<1>5. call \in CallState /\ call.pc = "queried" /\ call.stamp = stamp
  BY <1>0, <1>2, <1>3, <1>4 DEF CallState, Served!Queried
<1>6. /\ reader' = [reader EXCEPT ![r].stamp.key = Served!Default,
                                  ![r].stamp.row = table[Served!Default]]
      /\ UNCHANGED <<clock, saving, table, cache, lock, seen>>
  BY DEF Served!Fallback
<1>7. reader' = [reader EXCEPT ![r] = call]
  BY <1>0, <1>1, <1>2, <1>3, <1>6 DEF CopiesTyped, CallState, Looked
<1>8. seen' = [seen EXCEPT ![r] = seen[r]]
  BY <1>0, <1>6 DEF CopiesTyped
<1>9. reader'[r] = call
  BY <1>0, <1>7 DEF CopiesTyped
<1>10. Served!Absent \in seen[r][reader[r].stamp.asked]
  BY <1>0 DEF Looks
<1>11. Looks(r)'
  BY <1>0, <1>4, <1>5, <1>6, <1>9, <1>10, CopiesConstants DEF Looks
<1>12. \A k \in Served!Slots : table[k] \in Around(k) /\ cache[k] \in Around(k)
  BY <1>0, AroundRow
<1>13. cache' \in [Served!Slots -> Served!Row] /\ \A k \in Served!Slots : cache'[k] \in Around(k)
  BY <1>0, <1>6, <1>12 DEF CopiesTyped
<1> QED
  BY <1>3, <1>4, <1>5, <1>6, <1>7, <1>8, <1>11, <1>12, <1>13, CopiesConstants, CopiesMoved

\* A call that ends holds nothing.
LEMMA CopiesReturned ==
  ASSUME CopiesInv, NEW r \in Readers, NEW answer \in Served!Row \cup {None},
         Served!Returned(r, answer), UNCHANGED <<clock, saving, table, lock>>,
         cache' \in [Served!Slots -> Served!Row], \A key \in Served!Slots : cache'[key] \in Around(key)
  PROVE  CopiesInv' /\ reader'[r].answer = answer
<1>0. CopiesTyped
  BY DEF CopiesInv
<1>1. PICK call : call = [pc |-> "done", stamp |-> None, answer |-> answer]
  OBVIOUS
<1>2. PICK views : views = [p \in DOMAIN seen[r] |-> {}]
  OBVIOUS
<1>3. reader' = [reader EXCEPT ![r] = call] /\ seen' = [seen EXCEPT ![r] = views]
  BY <1>1, <1>2 DEF Served!Returned
<1>4. call \in CallState /\ call.pc # "queried"
  BY <1>1 DEF CallState
<1>5. views \in [Served!Slots -> SUBSET Served!Row]
  BY <1>0, <1>2 DEF CopiesTyped
<1>6. reader'[r].answer = answer
  BY <1>0, <1>1, <1>3 DEF CopiesTyped
<1> QED
  BY <1>3, <1>4, <1>5, <1>6, CopiesMoved

\* What a call has in hand when it takes a template, and what it makes of it: the
\* copy under the row's stamp is the row.
LEMMA CopiesTaken ==
  ASSUME CopiesInv, NEW r \in Readers, Served!Take(r)
  PROVE  /\ CopiesInv'
         /\ \/ reader'[r].answer = reader[r].stamp.row
            \/ reader'[r].answer = None /\ ~reader[r].stamp.row.ok
<1>0. /\ CopiesTyped /\ OneRow /\ Served!Queried(r) /\ reader[r].stamp \in Looked
      /\ reader[r].stamp.row # Served!Absent
  BY DEF CopiesInv, CopiesTyped, Served!Take, Served!Missing
<1>1. PICK key, found : key = reader[r].stamp.key /\ found = reader[r].stamp.row
  OBVIOUS
<1>2. key \in Served!Slots /\ found \in Served!Row /\ found # None
  BY <1>0, <1>1, CopiesConstants DEF Looked
<1>3. /\ found \in Around(key)
      /\ \A k \in Served!Slots : cache[k] \in Around(k) /\ cache[k] \in Served!Row
  BY <1>0, <1>1, <1>2, AroundRow DEF CopiesTyped
<1>4. UNCHANGED <<clock, saving, table, lock>>
  BY DEF Served!Take
<1>5. CASE Served!Current(cache[key], found)
  <2>1. cache[key] = found
    BY <1>0, <1>2, <1>3, <1>5 DEF OneRow, Served!Current
  <2>2. Served!Returned(r, found) /\ cache' = cache
    BY <1>1, <1>5, <2>1 DEF Served!Take
  <2> QED
    BY <1>0, <1>1, <1>2, <1>3, <1>4, <2>2, CopiesReturned DEF CopiesTyped
<1>6. CASE ~Served!Current(cache[key], found) /\ found.ok
  <2>1. Served!Returned(r, found) /\ cache' = [cache EXCEPT ![key] = found]
    BY <1>1, <1>6 DEF Served!Take
  <2>2. cache' \in [Served!Slots -> Served!Row] /\ \A k \in Served!Slots : cache'[k] \in Around(k)
    BY <1>0, <1>2, <1>3, <2>1 DEF CopiesTyped
  <2> QED
    BY <1>1, <1>2, <1>4, <2>1, <2>2, CopiesReturned
<1>7. CASE ~Served!Current(cache[key], found) /\ ~found.ok
  <2>1. Served!Returned(r, None) /\ cache' = cache
    BY <1>1, <1>7 DEF Served!Take
  <2>2. CopiesInv' /\ reader'[r].answer = None
    BY <1>0, <1>3, <1>4, <2>1, CopiesReturned DEF CopiesTyped
  <2> QED
    BY <1>1, <1>7, <2>2
<1> QED
  BY <1>5, <1>6, <1>7

LEMMA CopiesMissed ==
  ASSUME CopiesInv, NEW r \in Readers, Served!NotFound(r)
  PROVE  CopiesInv' /\ reader'[r].answer = None
<1>1. Served!Returned(r, None) /\ UNCHANGED <<clock, saving, table, cache, lock>>
  BY DEF Served!NotFound
<1>2. cache' \in [Served!Slots -> Served!Row] /\ \A k \in Served!Slots : cache'[k] \in Around(k)
  BY <1>1, AroundRow DEF CopiesInv, CopiesTyped
<1> QED
  BY <1>1, <1>2, CopiesReturned

LEMMA CopiesNext ==
  ASSUME CopiesInv, Served!Next \/ UNCHANGED servedVars
  PROVE  CopiesInv'
<1>1. CASE Served!Write
  BY <1>1, CopiesWritten
<1>2. ASSUME NEW r \in Readers, Served!Fallback(r) \/ Served!NotFound(r) \/ Served!Take(r)
      PROVE  CopiesInv'
  BY <1>2, CopiesFellBack, CopiesMissed, CopiesTaken
<1>3. ASSUME NEW r \in Readers, NEW key \in Served!Slots, Served!Query(r, key) PROVE CopiesInv'
  BY <1>3, CopiesQueried
<1>4. CASE UNCHANGED servedVars
  <2>1. UNCHANGED <<clock, saving, table, cache, lock, reader, seen>>
    BY <1>4 DEF servedVars
  <2>2. \A key \in Served!Slots : Around(key)' = Around(key)
    BY <2>1 DEF Around
  <2>3. CopiesTyped' /\ Found'
    BY <2>1 DEF CopiesInv, CopiesTyped, Found, Looks, Served!Queried
  <2>4. OneRow' /\ Ahead'
    BY <2>1, <2>2, <2>3, RowsKept
  <2> QED
    BY <2>3, <2>4 DEF CopiesInv
<1> QED
  BY <1>1, <1>2, <1>3, <1>4 DEF Served!Next

\* What ends a call is an answer its row was, or a failure the rows account for.
LEMMA CopiesAnswer ==
  ASSUME CopiesInv, Served!Next \/ UNCHANGED servedVars
  PROVE  Served!AnswersFromTable
<1>0. CopiesTyped
  BY DEF CopiesInv
<1> SUFFICES ASSUME NEW r \in Readers, Served!Returns(r)
             PROVE  LET asked == reader[r].stamp.asked
                        answer == reader'[r].answer
                    IN  IF answer # None
                          THEN \/ Served!Was(r, asked, answer)
                               \/ Served!Was(r, asked, Served!Absent) /\ Served!Was(r, Served!Default, answer)
                          ELSE \/ Served!Unusable(r, asked)
                               \/ /\ Served!Was(r, asked, Served!Absent)
                                  /\ \/ Served!Was(r, Served!Default, Served!Absent)
                                     \/ Served!Unusable(r, Served!Default)
  BY DEF Served!AnswersFromTable
<1>1. Served!Calling(r) /\ reader'[r].pc \in {"idle", "done"}
  BY DEF Served!Returns, Served!Calling
<1>2. Served!NotFound(r) \/ Served!Take(r)
  <2>1. reader' # reader /\ reader[r].pc \notin {"idle", "done"} /\ reader'[r].pc # "queried"
    BY <1>1 DEF Served!Returns, Served!Calling
  <2>2. ~Served!Write
    BY <2>1 DEF Served!Write, Served!TakeStamp, Served!Put, Served!Delete, Served!Import,
                Served!Commit, Served!Erase, Served!Becomes
  <2>3. ASSUME NEW q \in Readers, NEW key \in Served!Slots, Served!Query(q, key) PROVE FALSE
    <3>1. q # r /\ reader'[r] = reader[r]
      BY <1>0, <2>1, <2>3 DEF Served!Query, Served!Ask, Served!Calling, CopiesTyped
    <3> QED
      BY <1>1, <2>1, <3>1
  <2>4. ASSUME NEW q \in Readers, Served!Fallback(q) PROVE FALSE
    <3>1. reader'[r].pc = reader[r].pc
      BY <1>0, <2>4 DEF Served!Fallback, CopiesTyped, CallState
    <3> QED
      BY <1>1, <2>1, <3>1
  <2>5. ASSUME NEW q \in Readers, Served!NotFound(q) \/ Served!Take(q) PROVE q = r
    <3>1. q # r => reader'[r] = reader[r]
      BY <1>0, <2>5 DEF Served!NotFound, Served!Take, Served!Returned, CopiesTyped
    <3> QED
      BY <1>1, <2>1, <3>1
  <2>6. ~UNCHANGED servedVars
    BY <2>1 DEF servedVars
  <2> QED
    BY <2>2, <2>3, <2>4, <2>5, <2>6 DEF Served!Next
<1>3. Served!Queried(r) /\ reader[r].stamp \in Looked /\ Looks(r)
  BY <1>0, <1>2 DEF CopiesInv, CopiesTyped, Found, Served!NotFound, Served!Take
<1>4. CASE Served!NotFound(r)
  <2>1. reader'[r].answer = None
    BY <1>4, CopiesMissed
  <2>2. reader[r].stamp.row = Served!Absent /\ reader[r].stamp.key = Served!Default
    BY <1>4 DEF Served!NotFound, Served!Missing
  <2> QED
    BY <1>3, <2>1, <2>2 DEF Looks, Served!Was
<1>5. CASE Served!Take(r)
  <2>1. \/ reader'[r].answer = reader[r].stamp.row
        \/ reader'[r].answer = None /\ ~reader[r].stamp.row.ok
    BY <1>5, CopiesTaken
  <2>2. reader[r].stamp.row # None
    BY <1>3, CopiesConstants DEF Looked
  <2> QED
    BY <1>3, <2>1, <2>2 DEF Looks, Served!Was, Served!Unusable
<1> QED
  BY <1>2, <1>4, <1>5

LEMMA CopiesTypeOK ==
  ASSUME CopiesInv
  PROVE  Served!TypeOK
<1>1. CopiesTyped
  BY DEF CopiesInv
<1>2. ASSUME NEW r \in Readers
      PROVE  /\ reader[r].pc \in {"idle", "queried", "done"}
             /\ reader[r].pc = "queried" =>
                  reader[r].stamp \in [asked : Served!Slots, key : Served!Slots, row : Served!Row]
             /\ reader[r].pc = "done" => reader[r].answer \in Served!Row \cup {None}
             /\ seen[r] \in [Served!Slots -> SUBSET Served!Row]
  BY <1>1 DEF CopiesTyped, CallState, Looked, Served!Queried
<1>3. /\ clock \in Served!Stamp /\ saving \in [Savers -> Served!Stamp \cup {None}]
      /\ table \in [Served!Slots -> Served!Row] /\ cache \in [Served!Slots -> Served!Row]
      /\ lock = None
  BY <1>1 DEF CopiesTyped
<1> QED
  BY <1>2, <1>3 DEF Served!TypeOK

\* A call for a template is answered with what the row of its profile was during
\* it, or the default's if that row was missing meanwhile, and fails only for rows
\* that were missing or broken: for any number of calls, profiles, overlapping
\* saves and imports, though a copy is kept per row by its stamp alone and an
\* import's rows carry a stamp older than they are (Cache.Get and fetch in
\* tmplcache.go).
THEOREM CopiesFollow == SidesSpec => TemplatesFollowTable
<1> DEFINE SidesInv == surface = "cache" => CopiesInv
<1>1. SidesInit => SidesInv
  BY CopiesInit DEF SidesInit
<1>2. ASSUME [SidesNext]_allvars
      PROVE  /\ surface' = surface
             /\ surface = "cache" => Served!Next \/ UNCHANGED servedVars
  BY <1>2 DEF SidesNext, allvars
<1>3. SidesInv /\ [SidesNext]_allvars => SidesInv'
  BY <1>2, CopiesNext
<1>4. SidesInv => (surface = "cache" => Served!TypeOK)
  BY CopiesTypeOK
<1>5. SidesInv /\ [SidesNext]_allvars => [surface = "cache" => Served!AnswersFromTable]_allvars
  BY <1>2, CopiesAnswer
<1> QED
  BY <1>1, <1>3, <1>4, <1>5, PTL DEF SidesSpec, TemplatesFollowTable
=============================================================================
