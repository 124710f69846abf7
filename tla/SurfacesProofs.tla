--------------------------- MODULE SurfacesProofs ---------------------------
(***************************************************************************)
(* Theorems about the hot-reloaded surfaces, for every number of calls and *)
(* every set of sections, apps and files: what is promised of each, that   *)
(* it implements FreshRead, is a refinement proved step by step from an    *)
(* inductive invariant of its own.  The settings come first, with any      *)
(* number of admins whose saves overlap; the catalog and the theme follow, *)
(* with any number of editors until a write of one overtakes another's.    *)
(***************************************************************************)
EXTENDS Surfaces, FiniteSetTheorems, TLAPS

-----------------------------------------------------------------------------
(* The settings.                                                           *)
ReaderState ==
  [pc : {"idle", "queried", "reload", "done"}, stamp : Stamp \cup {None},
   answer : [{Panel} -> Row] \cup {None}]

Typed ==
  /\ now \in Stamp
  /\ writing \in [Writers -> Stamp \cup {None}]
  /\ table \in Settings
  /\ cache = None \/ cache \in [client : Row, loadedAt : Stamp]
  /\ lock = None
  /\ reader \in [Readers -> ReaderState]
  /\ seen \in [Readers -> [{Panel} -> SUBSET Row]]
  /\ \A r \in Readers : /\ Calling(r) => reader[r].stamp # None
                        /\ reader[r].pc = "done" => reader[r].answer # None

\* A stamp that was taken and not yet written is new, and no two are alike.
PendingOK(w) ==
  writing[w] # None =>
    /\ writing[w] # 0
    /\ writing[w] <= now
    /\ writing[w] # table[Panel].at
    /\ cache # None => cache.loadedAt # writing[w]
    /\ \A r \in Readers : Calling(r) => reader[r].stamp # writing[w]
    /\ \A u \in Writers : u # w => writing[u] # writing[w]

Pending == \A w \in Writers : PendingOK(w)

\* Whatever has a stamp has one that was taken.
Past ==
  /\ table[Panel].at <= now
  /\ cache # None => cache.loadedAt <= now
  /\ \A r \in Readers : Calling(r) => reader[r].stamp <= now

\* A client filed under the stamp of the row is made from that row: the row has a
\* stamp during one stretch of time only.
Filed == cache # None /\ cache.loadedAt = table[Panel].at => cache.client = table[Panel]

\* What a call may answer was the row since it began.
Watched ==
  \A r \in Readers : Calling(r) =>
    /\ table[Panel] \in seen[r][Panel]
    /\ cache # None /\ cache.loadedAt = reader[r].stamp => cache.client \in seen[r][Panel]

Inv == Typed /\ Loadable(table) /\ Pending /\ Past /\ Filed /\ Watched

-----------------------------------------------------------------------------
LEMMA InvInit ==
  ASSUME SettingsAssumption, Init
  PROVE  Inv
<1> USE HotReloadAssumption
<1>0. Panel \in Keys /\ 0 \in Stamp
  BY DEF SettingsAssumption, Keys, Stamp
<1>1. /\ cache = None /\ lock = None /\ writing = [w \in Writers |-> None]
      /\ reader = [r \in Readers |-> Idle]
      /\ seen = [r \in Readers |-> [p \in {Panel} |-> {}]]
  BY DEF Init, Quiet
<1>2. \A r \in Readers : reader[r] = Idle /\ ~Calling(r) /\ reader[r].pc # "done"
  BY <1>1 DEF Idle, Calling
<1>2a. Pending
  BY <1>1 DEF Pending, PendingOK
<1>3. now \in Stamp /\ table \in Settings /\ table[Panel].at <= now
  <2>1. Unset \in Row /\ [at |-> 1, value |-> "valid"] \in Row
    BY DEF Unset, Row, Stamp, Value
  <2>2. table \in [Keys -> {Unset, [at |-> 1, value |-> "valid"]}] /\ now = 1
    BY DEF Init
  <2>3. table \in Settings
    BY <2>1, <2>2 DEF Settings
  <2>4. table[Panel].at <= 1
    BY <1>0, <2>2 DEF Unset
  <2> QED
    BY <2>2, <2>3, <2>4 DEF Stamp
<1>4. Idle \in ReaderState
  BY DEF Idle, ReaderState
<1>5. Typed
  BY <1>1, <1>2, <1>3, <1>4 DEF Typed
<1>6. Past /\ Filed /\ Watched
  BY <1>1, <1>2, <1>3 DEF Past, Filed, Watched
<1> QED
  BY <1>2a, <1>5, <1>6 DEF Inv, Init

\* The stamps are numbers.
LEMMA Numbers ==
  ASSUME SettingsAssumption, Typed
  PROVE  /\ now \in Nat /\ Panel \in Keys /\ None \notin Nat
         /\ table[Panel] \in Row /\ table[Panel].at \in Nat
         /\ cache # None => cache.client \in Row /\ cache.loadedAt \in Nat
         /\ \A w \in Writers : writing[w] # None => writing[w] \in Nat
         /\ \A r \in Readers : /\ reader[r] \in ReaderState
                               /\ Calling(r) => reader[r].stamp \in Nat
<1> USE HotReloadAssumption
<1>1. Panel \in Keys /\ None \notin Nat
  BY DEF SettingsAssumption, Keys
<1>2. table[Panel] \in Row
  BY <1>1 DEF Typed, Settings
<1>3. \A row \in Row : row.at \in Nat
  BY DEF Row, Stamp
<1>4. cache # None => cache.client \in Row /\ cache.loadedAt \in Nat
  BY DEF Typed, Stamp
<1>5. \A r \in Readers : reader[r] \in ReaderState
  BY DEF Typed
<1>6. \A r \in Readers : Calling(r) => reader[r].stamp \in Nat
  BY <1>5 DEF Typed, ReaderState, Stamp
<1> QED
  BY <1>1, <1>2, <1>3, <1>4, <1>5, <1>6 DEF Typed, Stamp

-----------------------------------------------------------------------------
(* One lemma per step.                                                     *)

LEMMA TakeStampInv ==
  ASSUME SettingsAssumption, Inv, NEW w \in Writers, TakeStamp(w)
  PROVE  Inv'
<1> USE HotReloadAssumption
<1>0. Typed /\ Pending /\ Past
  BY DEF Inv
<1>1. /\ now \in Nat /\ None \notin Nat /\ table[Panel].at \in Nat
      /\ cache # None => cache.loadedAt \in Nat
      /\ \A u \in Writers : writing[u] # None => writing[u] \in Nat
      /\ \A r \in Readers : Calling(r) => reader[r].stamp \in Nat
  BY <1>0, Numbers
<1>2. /\ UNCHANGED <<table, cache, lock, reader, seen>> /\ now' = now + 1 /\ now < MaxStamp
      /\ writing' = [writing EXCEPT ![w] = now + 1]
  BY DEF TakeStamp
<1>3. \A r \in Readers : Calling(r)' <=> Calling(r)
  BY <1>2 DEF Calling
<1>4. \A u \in Writers : writing'[u] = IF u = w THEN now + 1 ELSE writing[u]
  BY <1>0, <1>2 DEF Typed
<1>5. Typed'
  <2>1. now + 1 \in Stamp
    BY <1>1, <1>2 DEF Stamp
  <2>2. writing' \in [Writers -> Stamp \cup {None}]
    BY <1>0, <1>2, <2>1 DEF Typed
  <2> QED
    BY <1>0, <1>2, <1>3, <2>1, <2>2 DEF Typed
<1>6. /\ now + 1 # table[Panel].at
      /\ cache # None => cache.loadedAt # now + 1
      /\ \A r \in Readers : Calling(r) => reader[r].stamp # now + 1
  BY <1>0, <1>1 DEF Past
<1>7. \A v \in Writers : writing[v] # None => writing[v] \in Nat /\ writing[v] <= now
  BY <1>0, <1>1 DEF Pending, PendingOK
<1>8. ASSUME NEW u \in Writers PROVE PendingOK(u)'
  <2>1. CASE u = w
    <3>1. writing'[u] = now + 1
      BY <1>4, <2>1
    <3>2. \A v \in Writers : v # u => writing'[v] # now + 1
      BY <1>1, <1>4, <1>7, <2>1
    <3> QED
      BY <1>1, <1>2, <1>3, <1>6, <3>1, <3>2 DEF PendingOK
  <2>2. CASE u # w
    <3>1. writing'[u] = writing[u] /\ PendingOK(u)
      BY <1>0, <1>4, <2>2 DEF Pending
    <3>2. writing[u] # None => writing[u] <= now + 1 /\ writing'[w] # writing[u]
      BY <1>1, <1>4, <1>7
    <3>3. \A v \in Writers : v # u /\ v # w => writing'[v] = writing[v]
      BY <1>4
    <3> QED
      BY <1>2, <1>3, <3>1, <3>2, <3>3 DEF PendingOK
  <2> QED
    BY <2>1, <2>2
<1>9. Past'
  BY <1>0, <1>1, <1>2, <1>3 DEF Past
<1>10. Filed' /\ Watched' /\ Loadable(table)'
  BY <1>2, <1>3 DEF Inv, Filed, Watched, Loadable
<1> QED
  BY <1>5, <1>8, <1>9, <1>10 DEF Inv, Pending

\* A section that is saved is one that Validate accepts, and the rest stay.
LEMMA SavedLoads ==
  ASSUME SettingsAssumption, Typed, Loadable(table),
         NEW key \in Keys, NEW value \in Value, NEW at \in Stamp, at # 0, Accepted(key, value)
  PROVE  Loadable([table EXCEPT ![key] = [at |-> at, value |-> value]])
<1> DEFINE t == [table EXCEPT ![key] = [at |-> at, value |-> value]]
<1>1. \A k \in Keys : t[k] = IF k = key THEN [at |-> at, value |-> value] ELSE table[k]
  BY DEF Typed, Settings
<1>2. Validated \subseteq Known /\ Known \subseteq Keys
  BY DEF SettingsAssumption, Keys
<1>3. /\ \A k \in Keys : k # key => t[k] = table[k]
      /\ t[key].at = at /\ t[key].value = value
  BY <1>1
<1> HIDE DEF t
<1>4. ASSUME NEW k \in Known PROVE t[k].value # "undecodable"
  BY <1>2, <1>3 DEF Loadable, Accepted
<1>5. ASSUME NEW k \in Validated
      PROVE  IF t[k].at = 0 THEN k \notin Required ELSE t[k].value # "invalid"
  <2>1. CASE k = key
    BY <1>3, <2>1 DEF Accepted
  <2>2. CASE k # key
    <3>1. t[k] = table[k]
      BY <1>2, <1>3, <2>2
    <3> QED
      BY <3>1 DEF Loadable
  <2> QED
    BY <2>1, <2>2
<1>6. Loadable(t)
  BY <1>4, <1>5 DEF Loadable
<1> QED
  BY <1>6 DEF t

\* Becomes, for a table that differs from the one before.
Grown(r, row) == IF Calling(r) THEN seen[r][Panel] \cup {row} ELSE seen[r][Panel]

LEMMA SaveInv ==
  ASSUME SettingsAssumption, Inv, NEW w \in Writers, NEW key \in Keys, NEW value \in Value,
         SaveSetting(w, key, value)
  PROVE  Inv'
<1> USE HotReloadAssumption
<1>0. Typed /\ Pending /\ Past /\ Filed /\ Watched /\ Loadable(table)
  BY DEF Inv
<1> DEFINE saved == IF Accepted(key, value)
                      THEN [table EXCEPT ![key] = [at |-> writing[w], value |-> value]]
                      ELSE table
<1>1. /\ now \in Nat /\ None \notin Nat /\ Panel \in Keys
      /\ table[Panel] \in Row /\ table[Panel].at \in Nat
      /\ cache # None => cache.loadedAt \in Nat
      /\ \A u \in Writers : writing[u] # None => writing[u] \in Nat
      /\ \A r \in Readers : Calling(r) => reader[r].stamp \in Nat
  BY <1>0, Numbers
<1>2. Commit(w, saved, Client(saved[Panel]))
  BY DEF SaveSetting
<1>3. /\ writing[w] # None /\ writing' = [writing EXCEPT ![w] = None]
      /\ table' = saved /\ UNCHANGED <<now, cache, lock, reader>>
  BY <1>2 DEF Commit, Becomes
<1>4. seen' = [r \in Readers |-> [p \in {Panel} |-> Grown(r, saved[Panel])]]
  BY <1>2 DEF Commit, Becomes, Client, Grown
<1>5. \A r \in Readers : Calling(r)' <=> Calling(r)
  BY <1>3 DEF Calling
<1>6. \A u \in Writers : writing'[u] = IF u = w THEN None ELSE writing[u]
  BY <1>0, <1>3 DEF Typed
<1>7. /\ writing[w] \in Stamp /\ writing[w] # 0 /\ writing[w] <= now
      /\ cache # None => cache.loadedAt # writing[w]
      /\ \A u \in Writers : u # w => writing[u] # writing[w]
  BY <1>0, <1>3 DEF Typed, Pending, PendingOK
<1>8. table' \in Settings /\ Loadable(table')
  <2>1. CASE Accepted(key, value)
    <3>1. [at |-> writing[w], value |-> value] \in Row
      BY <1>7 DEF Row
    <3>2. saved \in Settings
      BY <1>0, <2>1, <3>1 DEF Typed, Settings
    <3> QED
      BY <1>0, <1>3, <1>7, <2>1, <3>2, SavedLoads
  <2>2. CASE ~Accepted(key, value)
    BY <1>0, <1>3, <2>2 DEF Typed
  <2> QED
    BY <2>1, <2>2
\* The panel's row is as it was, or has the new stamp.
<1>9. table'[Panel] \in Row /\ (table'[Panel] = table[Panel] \/ table'[Panel].at = writing[w])
  BY <1>0, <1>1, <1>3, <1>8 DEF Typed, Settings
<1>10. Typed'
  <2>1. writing' \in [Writers -> Stamp \cup {None}]
    BY <1>0, <1>3 DEF Typed
  <2>2. \A r \in Readers : Grown(r, saved[Panel]) \in SUBSET Row
    BY <1>0, <1>3, <1>9 DEF Typed, Grown
  <2>3. seen' \in [Readers -> [{Panel} -> SUBSET Row]]
    BY <1>4, <2>2
  <2> QED
    BY <1>0, <1>3, <1>5, <1>8, <2>1, <2>3 DEF Typed
<1>11. ASSUME NEW u \in Writers PROVE PendingOK(u)'
  <2>1. CASE u = w
    BY <1>6, <2>1 DEF PendingOK
  <2>2. CASE u # w
    <3>1. writing'[u] = writing[u] /\ PendingOK(u)
      BY <1>0, <1>6, <2>2 DEF Pending
    <3>2. writing[u] # None => writing[u] # table'[Panel].at
      BY <1>7, <1>9, <2>2, <3>1 DEF PendingOK
    <3>3. writing[u] # None => \A v \in Writers : v # u => writing'[v] # writing[u]
      BY <1>6, <3>1 DEF PendingOK
    <3> QED
      BY <1>3, <1>5, <3>1, <3>2, <3>3 DEF PendingOK
  <2> QED
    BY <2>1, <2>2
<1>12. Past'
  BY <1>0, <1>1, <1>3, <1>5, <1>7, <1>9 DEF Past
<1>13. Filed'
  BY <1>0, <1>3, <1>7, <1>9 DEF Filed
<1>14. Watched'
  <2> SUFFICES ASSUME NEW r \in Readers, Calling(r)
               PROVE  /\ table'[Panel] \in seen'[r][Panel]
                      /\ cache # None /\ cache.loadedAt = reader[r].stamp =>
                           cache.client \in seen'[r][Panel]
    BY <1>3, <1>5 DEF Watched
  <2>1. seen'[r][Panel] = seen[r][Panel] \cup {saved[Panel]}
    BY <1>4 DEF Grown
  <2> QED
    BY <1>0, <1>3, <2>1 DEF Watched
<1> QED
  BY <1>8, <1>10, <1>11, <1>12, <1>13, <1>14 DEF Inv, Pending

\* A step of one call: the rest of the calls, the table and the admins stay.
LEMMA CallInv ==
  ASSUME SettingsAssumption, Inv, NEW r \in Readers,
         UNCHANGED <<now, writing, table, lock>>,
         reader' \in [Readers -> ReaderState], seen' \in [Readers -> [{Panel} -> SUBSET Row]],
         \A q \in Readers \ {r} : reader'[q] = reader[q] /\ seen'[q] = seen[q],
         cache' = cache \/ cache' = [client |-> table[Panel], loadedAt |-> reader[r].stamp],
         cache' # cache => Calling(r) /\ ~Calling(r)',
         Calling(r)' =>
           /\ reader'[r].stamp # None
           /\ reader'[r].stamp = table[Panel].at \/ (Calling(r) /\ reader'[r].stamp = reader[r].stamp)
           /\ table[Panel] \in seen'[r][Panel]
           /\ cache # None /\ cache.loadedAt = reader'[r].stamp => cache.client \in seen'[r][Panel],
         reader'[r].pc = "done" => reader'[r].answer # None
  PROVE  Inv'
<1> USE HotReloadAssumption
<1>0. Typed /\ Pending /\ Past /\ Filed /\ Watched /\ Loadable(table)
  BY DEF Inv
<1>1. /\ now \in Nat /\ None \notin Nat /\ Panel \in Keys
      /\ table[Panel] \in Row /\ table[Panel].at \in Nat
      /\ cache # None => cache.loadedAt \in Nat
      /\ \A q \in Readers : Calling(q) => reader[q].stamp \in Nat
  BY <1>0, Numbers
<1>2. \A q \in Readers \ {r} : Calling(q)' <=> Calling(q)
  BY DEF Calling
<1>3. cache' # cache => cache' \in [client : Row, loadedAt : Stamp] /\ cache'.loadedAt = reader[r].stamp
                        /\ cache'.client = table[Panel]
  <2> SUFFICES ASSUME cache' # cache
               PROVE  /\ cache' \in [client : Row, loadedAt : Stamp]
                      /\ cache'.loadedAt = reader[r].stamp /\ cache'.client = table[Panel]
    OBVIOUS
  <2>1. Calling(r) /\ reader[r].stamp # None /\ reader[r] \in ReaderState
    BY <1>0 DEF Typed
  <2>2. reader[r].stamp \in Stamp
    BY <2>1 DEF ReaderState
  <2> QED
    BY <1>1, <2>2
<1>4. Typed'
  BY <1>0, <1>2, <1>3 DEF Typed
<1>5. ASSUME NEW w \in Writers PROVE PendingOK(w)'
  <2>1. PendingOK(w)
    BY <1>0 DEF Pending
  <2>2. writing[w] # None => \A q \in Readers : Calling(q)' => reader'[q].stamp # writing[w]
    BY <1>2, <2>1 DEF PendingOK
  <2>3. writing[w] # None /\ cache' # None => cache'.loadedAt # writing[w]
    BY <1>3, <2>1 DEF PendingOK
  <2> QED
    BY <2>1, <2>2, <2>3 DEF PendingOK
<1>6. Past'
  <2>1. \A q \in Readers : Calling(q)' => reader'[q].stamp <= now
    BY <1>0, <1>2 DEF Past
  <2>2. cache' # None => cache'.loadedAt <= now
    BY <1>0, <1>3 DEF Past
  <2> QED
    BY <1>0, <2>1, <2>2 DEF Past
<1>7. Filed'
  BY <1>0, <1>3 DEF Filed
<1>8. Watched'
  <2> SUFFICES ASSUME NEW q \in Readers, Calling(q)'
               PROVE  /\ table[Panel] \in seen'[q][Panel]
                      /\ cache' # None /\ cache'.loadedAt = reader'[q].stamp =>
                           cache'.client \in seen'[q][Panel]
    BY DEF Watched
  <2>1. /\ table[Panel] \in seen'[q][Panel]
        /\ cache # None /\ cache.loadedAt = reader'[q].stamp => cache.client \in seen'[q][Panel]
    BY <1>0, <1>2 DEF Watched
  <2> QED
    BY <1>3, <2>1
<1>9. Loadable(table)'
  BY <1>0 DEF Loadable
<1> QED
  BY <1>4, <1>5, <1>6, <1>7, <1>8, <1>9 DEF Inv, Pending

\* What a call makes of its end.
LEMMA ReturnedFacts ==
  ASSUME Typed, NEW r \in Readers, NEW a \in [{Panel} -> Row], a # None, Returned(r, a)
  PROVE  /\ reader' \in [Readers -> ReaderState] /\ seen' \in [Readers -> [{Panel} -> SUBSET Row]]
         /\ \A q \in Readers \ {r} : reader'[q] = reader[q] /\ seen'[q] = seen[q]
         /\ reader'[r].pc = "done" /\ reader'[r].answer = a /\ ~Calling(r)'
         /\ seen'[r] = [p \in {Panel} |-> {}]
<1>1. /\ reader \in [Readers -> ReaderState] /\ seen \in [Readers -> [{Panel} -> SUBSET Row]]
      /\ DOMAIN seen[r] = {Panel}
  BY DEF Typed
<1>2. /\ reader' = [reader EXCEPT ![r] = [pc |-> "done", stamp |-> None, answer |-> a]]
      /\ seen' = [seen EXCEPT ![r] = [p \in {Panel} |-> {}]]
  BY <1>1 DEF Returned
<1>3. [pc |-> "done", stamp |-> None, answer |-> a] \in ReaderState
  BY DEF ReaderState
<1>4. [p \in {Panel} |-> {}] \in [{Panel} -> SUBSET Row]
  OBVIOUS
<1> QED
  BY <1>1, <1>2, <1>3, <1>4 DEF Calling

\* What a call that goes on makes of itself.
LEMMA MovedFacts ==
  ASSUME Typed, NEW r \in Readers, Moved(r, "reload")
  PROVE  /\ reader' \in [Readers -> ReaderState] /\ seen' = seen
         /\ \A q \in Readers \ {r} : reader'[q] = reader[q]
         /\ reader'[r].pc = "reload" /\ reader'[r].stamp = reader[r].stamp
BY DEF Typed, Moved, ReaderState

LEMMA ClientTyped ==
  ASSUME SettingsAssumption, NEW row \in Row
  PROVE  /\ Client(row) \in [{Panel} -> Row] /\ Client(row) # None
         /\ Client(row)[Panel] = row
BY DEF Client, SettingsAssumption

LEMMA QueryInv ==
  ASSUME SettingsAssumption, Inv, NEW r \in Readers, Query(r)
  PROVE  Inv'
<1> USE HotReloadAssumption
<1>0. Typed /\ Filed
  BY DEF Inv
<1>1. Panel \in Keys /\ table[Panel] \in Row /\ table[Panel].at \in Stamp /\ None \notin Nat
  <2>1. Panel \in Keys /\ table[Panel] \in Row /\ None \notin Nat
    BY <1>0, Numbers
  <2> QED
    BY <2>1 DEF Row
<1>2. /\ reader' = [reader EXCEPT ![r] = [pc |-> "queried", stamp |-> table[Panel].at, answer |-> None]]
      /\ seen' = [seen EXCEPT ![r] = [p \in {Panel} |-> {table[Panel]}]]
      /\ UNCHANGED <<now, writing, table, cache, lock>>
  BY DEF Query, Ask, Client
<1>3. /\ reader' \in [Readers -> ReaderState]
      /\ \A q \in Readers \ {r} : reader'[q] = reader[q]
      /\ reader'[r].pc = "queried" /\ reader'[r].stamp = table[Panel].at
  BY <1>0, <1>1, <1>2 DEF Typed, ReaderState
<1>4. /\ seen' \in [Readers -> [{Panel} -> SUBSET Row]]
      /\ \A q \in Readers \ {r} : seen'[q] = seen[q]
      /\ seen'[r][Panel] = {table[Panel]}
  BY <1>0, <1>1, <1>2 DEF Typed
<1>5. table[Panel].at # None
  BY <1>1 DEF Stamp
<1>6. cache # None /\ cache.loadedAt = reader'[r].stamp => cache.client \in seen'[r][Panel]
  BY <1>0, <1>3, <1>4 DEF Filed
<1>7. Calling(r)' =>
         /\ reader'[r].stamp # None
         /\ reader'[r].stamp = table[Panel].at \/ (Calling(r) /\ reader'[r].stamp = reader[r].stamp)
         /\ table[Panel] \in seen'[r][Panel]
         /\ cache # None /\ cache.loadedAt = reader'[r].stamp => cache.client \in seen'[r][Panel]
  BY <1>3, <1>4, <1>5, <1>6
<1>8. reader'[r].pc # "done" /\ cache' = cache
  BY <1>2, <1>3
<1> QED
  BY <1>2, <1>3, <1>4, <1>7, <1>8, CallInv

LEMMA PeekInv ==
  ASSUME SettingsAssumption, Inv, NEW r \in Readers, Peek(r)
  PROVE  Inv'
<1>0. Typed /\ Watched
  BY DEF Inv
<1>1. reader[r].pc = "queried" /\ UNCHANGED <<now, writing, table, cache, lock>> /\ Calling(r)
  BY DEF Peek, Calling
<1>2. CASE Current(reader[r].stamp)
  <2>1. cache.client \in Row
    BY <1>0, <1>2, Numbers DEF Current
  <2>2. Client(cache.client) \in [{Panel} -> Row] /\ Client(cache.client) # None
    BY <2>1, ClientTyped
  <2>3. Returned(r, Client(cache.client)) /\ cache' = cache
    BY <1>1, <1>2 DEF Peek
  <2>4. /\ reader' \in [Readers -> ReaderState] /\ seen' \in [Readers -> [{Panel} -> SUBSET Row]]
        /\ \A q \in Readers \ {r} : reader'[q] = reader[q] /\ seen'[q] = seen[q]
        /\ reader'[r].answer # None /\ ~Calling(r)'
    BY <1>0, <2>2, <2>3, ReturnedFacts
  <2> QED
    BY <1>1, <2>3, <2>4, CallInv
<1>3. CASE ~Current(reader[r].stamp)
  <2>1. Moved(r, "reload")
    BY <1>3 DEF Peek
  <2>2. /\ reader' \in [Readers -> ReaderState] /\ seen' = seen
        /\ \A q \in Readers \ {r} : reader'[q] = reader[q]
        /\ reader'[r].pc = "reload" /\ reader'[r].stamp = reader[r].stamp
    BY <1>0, <2>1, MovedFacts
  <2>3. /\ reader[r].stamp # None
        /\ table[Panel] \in seen[r][Panel]
        /\ cache # None /\ cache.loadedAt = reader[r].stamp => cache.client \in seen[r][Panel]
        /\ seen \in [Readers -> [{Panel} -> SUBSET Row]]
    BY <1>0, <1>1 DEF Typed, Watched
  <2> QED
    BY <1>1, <2>2, <2>3, CallInv
<1> QED
  BY <1>2, <1>3

LEMMA ReloadInv ==
  ASSUME SettingsAssumption, Inv, NEW r \in Readers, Reload(r)
  PROVE  Inv'
<1>0. Typed /\ Loadable(table)
  BY DEF Inv
<1>1. reader[r].pc = "reload" /\ UNCHANGED <<now, writing, table, lock>> /\ Calling(r)
  BY DEF Reload, Calling
<1>2. CASE Current(reader[r].stamp)
  <2>1. cache.client \in Row
    BY <1>0, <1>2, Numbers DEF Current
  <2>2. Client(cache.client) \in [{Panel} -> Row] /\ Client(cache.client) # None
    BY <2>1, ClientTyped
  <2>3. Returned(r, Client(cache.client)) /\ cache' = cache
    BY <1>2 DEF Reload
  <2> QED
    BY <1>0, <1>1, <2>2, <2>3, ReturnedFacts, CallInv
<1>3. CASE ~Current(reader[r].stamp)
  <2>1. table[Panel] \in Row
    BY <1>0, Numbers
  <2>2. Client(table[Panel]) \in [{Panel} -> Row] /\ Client(table[Panel]) # None
    BY <2>1, ClientTyped
  <2>3. /\ Returned(r, Client(table[Panel]))
        /\ cache' = [client |-> table[Panel], loadedAt |-> reader[r].stamp]
    BY <1>0, <1>3 DEF Reload
  <2> QED
    BY <1>0, <1>1, <2>2, <2>3, ReturnedFacts, CallInv
<1> QED
  BY <1>2, <1>3

LEMMA InvNext ==
  ASSUME SettingsAssumption, Inv, [Next]_vars
  PROVE  Inv'
<1>1. CASE \E w \in Writers : TakeStamp(w)
  BY <1>1, TakeStampInv
<1>2. CASE \E w \in Writers, key \in Keys, value \in Value : SaveSetting(w, key, value)
  BY <1>2, SaveInv
<1>3. ASSUME NEW r \in Readers, Query(r) \/ Peek(r) \/ Reload(r) PROVE Inv'
  BY <1>3, QueryInv, PeekInv, ReloadInv
<1>4. CASE UNCHANGED vars
  BY <1>4 DEF vars, Inv, Typed, Loadable, Pending, PendingOK, Past, Filed, Watched, Calling
<1> QED
  BY <1>1, <1>2, <1>3, <1>4 DEF Next, Write

LEMMA Invariance == ASSUME SettingsAssumption PROVE Spec => []Inv
<1>1. Init => Inv
  BY InvInit
<1>2. Inv /\ [Next]_vars => Inv'
  BY InvNext
<1> QED
  BY <1>1, <1>2, PTL DEF Spec

\* However many saves there are and in whatever order they commit, each checked
\* against its own section only, what is stored loads (SaveSetting, LoadFromDB).
THEOREM SavesStayLoadable ==
  ASSUME SettingsAssumption
  PROVE  Spec => []SettingsStayLoadable
<1>1. Inv => SettingsStayLoadable
  BY DEF Inv, SettingsStayLoadable
<1> QED
  BY <1>1, Invariance, PTL

-----------------------------------------------------------------------------
(* The refinement.                                                         *)

\* What each call is to FreshRead.
LEMMA CallsSeen ==
  ASSUME Typed, NEW r \in Readers
  PROVE  /\ reader[r].pc = "idle" => CallOf(r) = "idle"
         /\ Calling(r) => CallOf(r) = "waiting"
         /\ reader[r].pc = "done" => CallOf(r) = "answered"
         /\ CallOf(r) # "waiting" => ~Calling(r)
BY DEF Typed, CallOf, Calling

\* The call of r ends with the client a, which it may.
LEMMA Answers ==
  ASSUME Typed, Typed', NEW r \in Readers, NEW row \in Row, Client(row) # None,
         Calling(r), row \in seen[r][Panel], Returned(r, Client(row)), UNCHANGED table
  PROVE  Fresh!Answer(r)
<1> DEFINE call == [q \in Readers |-> CallOf(q)]
           callNext == [q \in Readers |-> CallOf(q)']
           given == [q \in Readers |-> reader[q].answer]
           givenNext == [q \in Readers |-> reader'[q].answer]
<1>1. Client(row) \in [{Panel} -> Row] /\ Client(row)[Panel] = row
  BY DEF Client
<1>2. /\ \A q \in Readers \ {r} : reader'[q] = reader[q] /\ seen'[q] = seen[q]
      /\ reader'[r].pc = "done" /\ reader'[r].answer = Client(row) /\ ~Calling(r)'
      /\ seen'[r] = [p \in {Panel} |-> {}]
  BY <1>1, ReturnedFacts
<1>3. CallOf(r) = "waiting" /\ CallOf(r)' = "answered"
  BY <1>2, CallsSeen DEF CallOf, Calling
<1>4. \A q \in Readers \ {r} : CallOf(q)' = CallOf(q)
  BY <1>2 DEF CallOf, Calling
<1>5. callNext = [call EXCEPT ![r] = "answered"] /\ call[r] = "waiting"
  BY <1>3, <1>4
<1>6. givenNext = [given EXCEPT ![r] = givenNext[r]] /\ givenNext[r][Panel] = row
  BY <1>1, <1>2
<1>7. seen' = [seen EXCEPT ![r] = [p \in {Panel} |-> {}]]
  BY <1>2 DEF Typed
<1>8. UNCHANGED Client(table[Panel])
  OBVIOUS
<1> QED
  BY <1>5, <1>6, <1>7, <1>8 DEF Fresh!Answer, Fresh!MayAnswer, Fresh!Forget

\* The call of r begins.
LEMMA Asks ==
  ASSUME Typed, Typed', NEW r \in Readers, Query(r)
  PROVE  Fresh!Ask(r)
<1> DEFINE call == [q \in Readers |-> CallOf(q)]
           callNext == [q \in Readers |-> CallOf(q)']
           given == [q \in Readers |-> reader[q].answer]
           givenNext == [q \in Readers |-> reader'[q].answer]
<1>1. /\ ~Calling(r) /\ UNCHANGED table
      /\ reader' = [reader EXCEPT ![r] = [pc |-> "queried", stamp |-> table[Panel].at, answer |-> None]]
      /\ seen' = [seen EXCEPT ![r] = [p \in {Panel} |-> {Client(table[Panel])[p]}]]
  BY DEF Query, Ask, Client
<1>2. /\ \A q \in Readers \ {r} : reader'[q] = reader[q]
      /\ reader'[r].pc = "queried" /\ reader'[r].answer = None
  BY <1>1 DEF Typed
<1>3. CallOf(r)' = "waiting" /\ CallOf(r) # "waiting"
  BY <1>1, <1>2 DEF CallOf, Calling, Typed, ReaderState
<1>4. \A q \in Readers \ {r} : CallOf(q)' = CallOf(q)
  BY <1>2 DEF CallOf, Calling
<1>5. callNext = [call EXCEPT ![r] = "waiting"] /\ call[r] # "waiting"
  BY <1>3, <1>4
<1>6. givenNext = [given EXCEPT ![r] = None]
  BY <1>2
<1>7. UNCHANGED Client(table[Panel])
  BY <1>1
<1> QED
  BY <1>1, <1>5, <1>6, <1>7 DEF Fresh!Ask

\* Nothing that FreshRead knows of changes.
LEMMA Stutters ==
  ASSUME Typed, Typed', UNCHANGED <<table, seen>>,
         \A q \in Readers : Calling(q)' = Calling(q) /\ reader'[q].answer = reader[q].answer
                            /\ (~Calling(q) => reader'[q].pc = reader[q].pc)
  PROVE  UNCHANGED Fresh!vars
<1>1. ASSUME NEW q \in Readers PROVE CallOf(q)' = CallOf(q)
  <2>1. CASE Calling(q)
    <3>1. Calling(q)'
      BY <2>1
    <3> QED
      BY <2>1, <3>1 DEF CallOf, Calling
  <2>2. CASE ~Calling(q)
    BY <2>2 DEF CallOf, Calling
  <2> QED
    BY <2>1, <2>2
<1>2. [q \in Readers |-> CallOf(q)'] = [q \in Readers |-> CallOf(q)]
  BY <1>1
<1>3. [q \in Readers |-> reader'[q].answer] = [q \in Readers |-> reader[q].answer]
  OBVIOUS
<1> QED
  BY <1>2, <1>3 DEF Fresh!vars

\* A save is a change, or leaves the panel's row as it was.
LEMMA Changes ==
  ASSUME Typed, Typed', NEW w \in Writers, NEW key \in Keys, NEW value \in Value,
         SaveSetting(w, key, value)
  PROVE  Fresh!Change
<1>1. /\ seen' = [r \in Readers |-> [p \in {Panel} |->
                    IF Calling(r) THEN seen[r][p] \cup {Client(table'[Panel])[p]} ELSE seen[r][p]]]
      /\ reader' = reader
  BY DEF SaveSetting, Commit, Becomes, Client
<1>2. \A r \in Readers : Calling(r) <=> CallOf(r) = "waiting"
  BY DEF CallOf, Calling, Typed, ReaderState
<1>3. \A q \in Readers : CallOf(q)' = CallOf(q)
  BY <1>1 DEF CallOf, Calling
<1>4. [q \in Readers |-> CallOf(q)'] = [q \in Readers |-> CallOf(q)]
  BY <1>3
<1>5. seen' = [r \in Readers |-> [p \in {Panel} |->
                 IF [q \in Readers |-> CallOf(q)][r] = "waiting"
                   THEN seen[r][p] \cup {Client(table'[Panel])[p]} ELSE seen[r][p]]]
  BY <1>1, <1>2
<1> QED
  BY <1>1, <1>4, <1>5 DEF Fresh!Change

\* A call to the panel goes out under settings that were stored at some moment of
\* the call, and none fails for its settings: whoever built the client, however
\* many admins save meanwhile and however their writes overlap (DynamicClient).
THEOREM ClientFresh ==
  ASSUME SettingsAssumption
  PROVE  Spec => ClientFollowsSettings
<1>1. Init => Fresh!Init
  <2> SUFFICES ASSUME Init PROVE Fresh!Init
    OBVIOUS
  <2>1. /\ \A r \in Readers : reader[r] = Idle
        /\ seen = [r \in Readers |-> [p \in {Panel} |-> {}]]
    BY DEF Init, Quiet
  <2>2. \A r \in Readers : reader[r].pc = "idle" /\ reader[r].answer = None
    <3>1. Idle.pc = "idle" /\ Idle.answer = None
      BY DEF Idle
    <3> QED
      BY <2>1, <3>1
  <2>3. Typed
    BY InvInit DEF Inv
  <2>4. \A r \in Readers : CallOf(r) = "idle"
    BY <2>2, <2>3, CallsSeen
  <2> QED
    BY <2>1, <2>2, <2>4 DEF Fresh!Init
<1>2. Inv /\ Inv' /\ [Next]_vars => [Fresh!Next]_(Fresh!vars)
  <2> SUFFICES ASSUME Inv, Inv', [Next]_vars PROVE Fresh!Next \/ UNCHANGED Fresh!vars
    OBVIOUS
  <2>0. Typed /\ Typed' /\ Loadable(table) /\ Watched
    BY DEF Inv
  <2>1. ASSUME NEW w \in Writers, TakeStamp(w) PROVE UNCHANGED Fresh!vars
    <3>1. UNCHANGED <<table, seen, reader>>
      BY <2>1 DEF TakeStamp
    <3>2. \A q \in Readers : Calling(q)' = Calling(q)
      BY <3>1 DEF Calling
    <3> QED
      BY <2>0, <3>1, <3>2, Stutters
  <2>2. ASSUME NEW w \in Writers, NEW key \in Keys, NEW value \in Value, SaveSetting(w, key, value)
        PROVE  Fresh!Next
    BY <2>0, <2>2, Changes DEF Fresh!Next
  <2>3. ASSUME NEW r \in Readers, Query(r) PROVE Fresh!Next
    BY <2>0, <2>3, Asks DEF Fresh!Next
  \* The client in use, if it is current for this call.
  <2>4. ASSUME NEW r \in Readers, Calling(r), Current(reader[r].stamp), UNCHANGED table,
               Returned(r, Client(cache.client))
        PROVE  Fresh!Next
    <3>1. cache.client \in Row
      BY <2>0, <2>4, Numbers DEF Current
    <3>2. cache.client \in seen[r][Panel]
      BY <2>0, <2>4 DEF Watched, Current
    <3>3. Client(cache.client) # None
      BY <3>1, ClientTyped
    <3>4. Fresh!Answer(r)
      BY <2>0, <2>4, <3>1, <3>2, <3>3, Answers
    <3> QED
      BY <3>4 DEF Fresh!Next
  <2>5. ASSUME NEW r \in Readers, Peek(r) PROVE Fresh!Next \/ UNCHANGED Fresh!vars
    <3>1. Calling(r) /\ UNCHANGED table /\ reader[r].pc = "queried"
      BY <2>5 DEF Peek, Calling
    <3>2. CASE Current(reader[r].stamp)
      BY <2>4, <2>5, <3>1, <3>2 DEF Peek
    <3>3. CASE ~Current(reader[r].stamp)
      <4>1. reader' = [reader EXCEPT ![r].pc = "reload"] /\ seen' = seen
        BY <2>5, <3>3 DEF Peek, Moved
      <4>2. \A q \in Readers : reader'[q].answer = reader[q].answer
                               /\ reader'[q].pc = IF q = r THEN "reload" ELSE reader[q].pc
        BY <2>0, <4>1 DEF Typed, ReaderState
      <4>3. \A q \in Readers : Calling(q)' = Calling(q) /\ (~Calling(q) => reader'[q].pc = reader[q].pc)
        BY <3>1, <4>2 DEF Calling
      <4> QED
        BY <2>0, <3>1, <4>1, <4>2, <4>3, Stutters
    <3> QED
      BY <3>2, <3>3
  <2>6. ASSUME NEW r \in Readers, Reload(r) PROVE Fresh!Next
    <3>1. Calling(r) /\ UNCHANGED table
      BY <2>6 DEF Reload, Calling
    <3>2. CASE Current(reader[r].stamp)
      BY <2>4, <2>6, <3>1, <3>2 DEF Reload
    <3>3. CASE ~Current(reader[r].stamp)
      <4>1. Returned(r, Client(table[Panel]))
        BY <2>0, <2>6, <3>3 DEF Reload
      <4>2. table[Panel] \in Row /\ table[Panel] \in seen[r][Panel]
        BY <2>0, <3>1, Numbers DEF Watched
      <4>3. Client(table[Panel]) # None
        BY <4>2, ClientTyped
      <4>4. Fresh!Answer(r)
        BY <2>0, <3>1, <4>1, <4>2, <4>3, Answers
      <4> QED
        BY <4>4 DEF Fresh!Next
    <3> QED
      BY <3>2, <3>3
  <2>7. CASE UNCHANGED vars
    <3>1. UNCHANGED <<table, seen, reader>>
      BY <2>7 DEF vars
    <3>2. \A q \in Readers : Calling(q)' = Calling(q)
      BY <3>1 DEF Calling
    <3> QED
      BY <2>0, <3>1, <3>2, Stutters
  <2> QED
    BY <2>1, <2>2, <2>3, <2>5, <2>6, <2>7 DEF Next, Write
<1> QED
  BY <1>1, <1>2, Invariance, PTL DEF Spec, ClientFollowsSettings, Fresh!Spec

-----------------------------------------------------------------------------
(* The catalog.                                                            *)
ListState ==
  [pc : {"idle", "queried", "copy", "done"},
   stamp : [newest : Cat!Stamp, count : Nat] \cup {None},
   answer : [{"list"} -> Cat!Rows] \cup {None}]

ListTyped ==
  /\ clock \in Cat!Stamp
  /\ saving \in [Editors -> Cat!Stamp \cup {None}]
  /\ rows \in Cat!Rows
  /\ kept = None \/ kept \in [rows : Cat!Rows, loadedAt : Cat!Stamp]
  /\ mutex = None
  /\ caller \in [Readers -> ListState]
  /\ shown \in [Readers -> [{"list"} -> SUBSET Cat!Rows]]
  /\ \A r \in Readers : /\ caller[r].pc = "queried" => caller[r].stamp \in [newest : Cat!Stamp, count : Nat]
                        /\ caller[r].pc = "copy" => kept # None
                        /\ caller[r].pc = "done" => caller[r].answer # None

\* A stamp that was taken and not yet written is later than all that were written,
\* as long as nothing was overtaken, and no two are alike.
AheadOf(n) ==
  /\ 0 < n
  /\ \A a \in Apps : rows[a] < n
  /\ kept # None => kept.loadedAt < n
  /\ \A r \in Readers : caller[r].pc = "queried" => caller[r].stamp.newest < n

ListAhead ==
  /\ AheadOf(clock + 1)
  /\ \A w \in Editors : saving[w] # None =>
       /\ AheadOf(saving[w]) /\ saving[w] <= clock
       /\ \A v \in Editors \ {w} : saving[v] # saving[w]

\* Since the copy was loaded, a row was deleted, or written after the stamp the
\* copy is filed under, or is as in the copy.
ListKept ==
  kept # None =>
    \A a \in Apps : rows[a] = 0 \/ rows[a] = kept.rows[a] \/ kept.loadedAt < rows[a]

\* Cat!Current, of any copy.
CurrentOf(copy, stamp) ==
  copy # None /\ stamp.newest = copy.loadedAt /\ stamp.count = Cat!Count(copy.rows)

\* What a call may answer was the table since it began.
ListWatched ==
  \A r \in Readers : Cat!Calling(r) =>
    /\ rows \in shown[r]["list"]
    /\ caller[r].pc = "queried" /\ CurrentOf(kept, caller[r].stamp) =>
         kept.rows \in shown[r]["list"]
    /\ caller[r].pc = "copy" => kept.rows \in shown[r]["list"]

ListInv == ListTyped /\ ListAhead /\ ListKept /\ ListWatched

\* An instance has operators of its own on finite sets, which are the same.
LEMMA CatFinite == \A S : Cat!IsFiniteSet(S) = IsFiniteSet(S)
BY DEF Cat!IsFiniteSet, IsFiniteSet

LEMMA CatCardinality == \A S : Cat!Cardinality(S) = Cardinality(S)
BY CatFinite, Zenon DEF Cat!Cardinality, Cardinality

LEMMA CatConstants ==
  /\ IsFiniteSet(Apps)
  /\ MaxStamp \in Nat \ {0} /\ None \notin Nat
  /\ None \notin [rows : Cat!Rows, loadedAt : Cat!Stamp]
  /\ None \notin [{"list"} -> Cat!Rows]
BY HotReloadAssumption, SurfacesAssumption, CatFinite DEF Cat!CatalogAssumption

\* The stamps are numbers.
LEMMA ListNumbers ==
  ASSUME ListTyped
  PROVE  /\ clock \in Nat /\ \A a \in Apps : rows[a] \in Nat
         /\ kept # None => kept.loadedAt \in Nat /\ kept.rows \in Cat!Rows
                           /\ \A a \in Apps : kept.rows[a] \in Nat
         /\ \A w \in Editors : saving[w] # None => saving[w] \in Nat /\ saving[w] \in Cat!Stamp
         /\ \A r \in Readers :
              /\ caller[r] \in ListState
              /\ caller[r].pc = "queried" =>
                   /\ caller[r].stamp \in [newest : Cat!Stamp, count : Nat]
                   /\ caller[r].stamp.newest \in Nat
<1>1. \A n \in Cat!Stamp : n \in Nat
  BY CatConstants DEF Cat!Stamp
<1>2. \A r \in Readers : caller[r] \in ListState
  BY DEF ListTyped
<1>3. \A r \in Readers : caller[r].pc = "queried" =>
        caller[r].stamp \in [newest : Cat!Stamp, count : Nat]
  BY <1>2 DEF ListTyped, ListState
<1>4. \A r \in Readers : caller[r].pc = "queried" => caller[r].stamp.newest \in Nat
  BY <1>1, <1>3
<1>5. \A t \in Cat!Rows : \A a \in Apps : t[a] \in Nat
  BY <1>1 DEF Cat!Rows
<1>6. kept # None => kept.loadedAt \in Cat!Stamp /\ kept.rows \in Cat!Rows
  BY DEF ListTyped
<1> QED
  BY <1>1, <1>2, <1>3, <1>4, <1>5, <1>6 DEF ListTyped

\* Rows with the maximum and the number of those of the copy are those of the copy.
LEMMA SameStampSameRows ==
  ASSUME ListTyped, ListKept, kept # None,
         \A a \in Apps : rows[a] <= kept.loadedAt, Cat!Count(rows) = Cat!Count(kept.rows)
  PROVE  rows = kept.rows
<1>1. /\ rows \in Cat!Rows /\ kept.rows \in Cat!Rows
      /\ \A a \in Apps : rows[a] \in Nat /\ kept.rows[a] \in Nat
      /\ kept.loadedAt \in Nat
  BY ListNumbers DEF ListTyped
<1>2. \A a \in Apps : rows[a] = 0 \/ rows[a] = kept.rows[a]
  BY <1>1 DEF ListKept
<1>3. Cat!Present(rows) \in SUBSET Cat!Present(kept.rows)
  BY <1>2 DEF Cat!Present
<1>4. IsFiniteSet(Cat!Present(kept.rows))
  BY FS_Subset, CatConstants DEF Cat!Present
<1>5. Cat!Present(rows) = Cat!Present(kept.rows)
  BY <1>3, <1>4, CatCardinality, FS_Subset DEF Cat!Count
<1>6. \A a \in Apps : rows[a] = kept.rows[a]
  BY <1>2, <1>5 DEF Cat!Present
<1> QED
  BY <1>1, <1>6 DEF Cat!Rows

LEMMA ListInvInit ==
  ASSUME Cat!Init
  PROVE  ListInv
<1>1. /\ clock = 1 /\ rows \in [Apps -> {0, 1}] /\ kept = None /\ mutex = None
      /\ saving = [w \in Editors |-> None]
      /\ caller = [r \in Readers |-> Cat!Idle]
      /\ shown = [r \in Readers |-> [p \in {"list"} |-> {}]]
  BY DEF Cat!Init, Cat!Quiet
<1>2. 0 \in Cat!Stamp /\ 1 \in Cat!Stamp
  BY CatConstants DEF Cat!Stamp
<1>3. Cat!Idle \in ListState /\ Cat!Idle.pc = "idle"
  BY DEF Cat!Idle, ListState
<1>4. \A r \in Readers : caller[r].pc = "idle"
  BY <1>1, <1>3
<1>5. ListTyped
  BY <1>1, <1>2, <1>3, <1>4 DEF ListTyped, Cat!Rows
<1>6. ListAhead
  BY <1>1, <1>4, CatConstants DEF ListAhead, AheadOf
<1>7. ListKept /\ ListWatched
  BY <1>1, <1>4 DEF ListKept, ListWatched, Cat!Calling
<1> QED
  BY <1>5, <1>6, <1>7 DEF ListInv

\* The call of r ends with the list t.
LEMMA ListReturned ==
  ASSUME ListTyped, NEW r \in Readers, NEW t \in Cat!Rows, Cat!Returned(r, Cat!Shown(t))
  PROVE  /\ caller' \in [Readers -> ListState]
         /\ shown' \in [Readers -> [{"list"} -> SUBSET Cat!Rows]]
         /\ \A q \in Readers \ {r} : caller'[q] = caller[q] /\ shown'[q] = shown[q]
         /\ caller'[r].pc = "done" /\ caller'[r].answer = Cat!Shown(t)
         /\ shown' = [shown EXCEPT ![r] = [p \in {"list"} |-> {}]]
         /\ Cat!Shown(t) # None /\ Cat!Shown(t)["list"] = t
<1>1. Cat!Shown(t) \in [{"list"} -> Cat!Rows] /\ Cat!Shown(t)["list"] = t
  BY DEF Cat!Shown
<1>2. /\ caller \in [Readers -> ListState] /\ shown \in [Readers -> [{"list"} -> SUBSET Cat!Rows]]
      /\ DOMAIN shown[r] = {"list"}
  BY DEF ListTyped
<1>3. /\ caller' = [caller EXCEPT ![r] = [pc |-> "done", stamp |-> None, answer |-> Cat!Shown(t)]]
      /\ shown' = [shown EXCEPT ![r] = [p \in {"list"} |-> {}]]
  BY <1>2 DEF Cat!Returned
<1>4. [pc |-> "done", stamp |-> None, answer |-> Cat!Shown(t)] \in ListState
  BY <1>1 DEF ListState
<1>5. [p \in {"list"} |-> {}] \in [{"list"} -> SUBSET Cat!Rows]
  OBVIOUS
<1> QED
  BY <1>1, <1>2, <1>3, <1>4, <1>5, CatConstants

\* The stamp a call queries, and what the others keep.
LEMMA ListQueries ==
  ASSUME ListTyped, NEW r \in Readers, Cat!Query(r)
  PROVE  \E s \in Cat!Stamp, n \in Nat :
           /\ caller' = [caller EXCEPT ![r] =
                [pc |-> "queried", stamp |-> [newest |-> s, count |-> n], answer |-> None]]
           /\ shown' = [shown EXCEPT ![r] = [p \in {"list"} |-> {rows}]]
           /\ UNCHANGED <<clock, saving, rows, kept, mutex>>
           /\ s \in Cat!Newest(rows) /\ n = Cat!Count(rows)
<1>1. PICK s \in Cat!Newest(rows) :
        Cat!Ask(r, [newest |-> s, count |-> Cat!Count(rows)], Cat!Shown(rows))
  BY DEF Cat!Query
<1>2. PICK n \in Nat : n = Cat!Count(rows)
  <2>1. IsFiniteSet(Cat!Present(rows))
    BY FS_Subset, CatConstants DEF Cat!Present
  <2> QED
    BY <2>1, FS_CardinalityType, CatCardinality DEF Cat!Count
<1>3. s \in Cat!Stamp
  BY DEF Cat!Newest
<1>4. /\ caller' = [caller EXCEPT ![r] =
           [pc |-> "queried", stamp |-> [newest |-> s, count |-> n], answer |-> None]]
      /\ shown' = [shown EXCEPT ![r] = [p \in {"list"} |-> {rows}]]
      /\ UNCHANGED <<clock, saving, rows, kept, mutex>>
  BY <1>1, <1>2 DEF Cat!Ask, Cat!Shown
<1> QED
  BY <1>1, <1>2, <1>3, <1>4

\* The copy after a reload.
LEMMA ListReloads ==
  ASSUME ListTyped, NEW r \in Readers, Cat!Reload(r)
  PROVE  /\ caller[r].pc = "queried" /\ UNCHANGED <<clock, saving, rows, mutex, shown>>
         /\ caller' \in [Readers -> ListState] /\ caller'[r].pc = "copy"
         /\ \A q \in Readers \ {r} : caller'[q] = caller[q]
         /\ kept' # None /\ kept' \in {kept} \cup [rows : Cat!Rows, loadedAt : Cat!Stamp]
         /\ \/ kept' = kept /\ Cat!Current(caller[r].stamp)
            \/ kept' = [rows |-> rows, loadedAt |-> caller[r].stamp.newest]
<1>1. /\ caller[r].pc = "queried" /\ UNCHANGED <<clock, saving, rows, mutex>>
      /\ caller' = [caller EXCEPT ![r].pc = "copy"] /\ shown' = shown
      /\ kept' = IF Cat!Current(caller[r].stamp) THEN kept
                 ELSE [rows |-> rows, loadedAt |-> caller[r].stamp.newest]
  BY DEF Cat!Reload, Cat!Moved
<1>2. /\ caller' \in [Readers -> ListState] /\ caller'[r].pc = "copy"
      /\ \A q \in Readers \ {r} : caller'[q] = caller[q]
  BY <1>1 DEF ListTyped, ListState
<1>3. rows \in Cat!Rows /\ caller[r].stamp.newest \in Cat!Stamp
  BY <1>1, ListNumbers DEF ListTyped
<1>4. CASE Cat!Current(caller[r].stamp)
  BY <1>1, <1>2, <1>4 DEF Cat!Current
<1>5. CASE ~Cat!Current(caller[r].stamp)
  <2>1. kept' = [rows |-> rows, loadedAt |-> caller[r].stamp.newest]
    BY <1>1, <1>5
  <2>2. kept' \in [rows : Cat!Rows, loadedAt : Cat!Stamp]
    BY <1>3, <2>1
  <2> QED
    BY <1>1, <1>2, <2>1, <2>2, CatConstants
<1> QED
  BY <1>4, <1>5

\* The writes: each row stays, goes, or gets the editor's stamp.
LEMMA ListWrites ==
  ASSUME ListTyped, Cat!Write
  PROVE  \/ \E w \in Editors : Cat!TakeStamp(w)
         \/ \E w \in Editors, t \in Cat!Rows :
              /\ Cat!Saved(w, t)
              /\ \A a \in Apps : t[a] \in {rows[a], 0, saving[w]}
         \/ \E t \in Cat!Rows : /\ Cat!Erase(t, Cat!Shown(t))
                                /\ \A a \in Apps : t[a] \in {rows[a], 0}
<1>1. /\ rows \in [Apps -> Cat!Stamp] /\ 0 \in Cat!Stamp
      /\ \A w \in Editors : saving[w] # None => saving[w] \in Cat!Stamp
  BY ListNumbers, CatConstants DEF ListTyped, Cat!Rows, Cat!Stamp
<1>2. ASSUME NEW w \in Editors, NEW t, Cat!Saved(w, t) PROVE saving[w] \in Cat!Stamp
  BY <1>1, <1>2 DEF Cat!Saved, Cat!Commit
<1>3. ASSUME NEW w \in Editors, NEW a \in Apps, Cat!Create(w, a) \/ Cat!Update(w, a)
      PROVE  \E t \in Cat!Rows : /\ Cat!Saved(w, t)
                                 /\ \A b \in Apps : t[b] \in {rows[b], 0, saving[w]}
  <2>1. PICK t : t \in {rows, [rows EXCEPT ![a] = saving[w]]} /\ Cat!Saved(w, t)
    BY <1>3 DEF Cat!Create, Cat!Update
  <2>2. t \in Cat!Rows /\ \A b \in Apps : t[b] \in {rows[b], 0, saving[w]}
    BY <1>1, <1>2, <2>1 DEF Cat!Rows
  <2> QED
    BY <2>1, <2>2
<1>4. ASSUME NEW w \in Editors, NEW shipped \in SUBSET Apps, Cat!Import(w, shipped)
      PROVE  \E t \in Cat!Rows : /\ Cat!Saved(w, t)
                                 /\ \A b \in Apps : t[b] \in {rows[b], 0, saving[w]}
  <2>1. PICK t : t = [a \in Apps |-> IF a \in shipped THEN saving[w] ELSE 0] /\ Cat!Saved(w, t)
    BY <1>4 DEF Cat!Import
  <2>2. t \in Cat!Rows /\ \A b \in Apps : t[b] \in {rows[b], 0, saving[w]}
    BY <1>1, <1>2, <2>1 DEF Cat!Rows
  <2> QED
    BY <2>1, <2>2
<1>5. ASSUME NEW a \in Apps, Cat!Delete(a)
      PROVE  \E t \in Cat!Rows : /\ Cat!Erase(t, Cat!Shown(t))
                                 /\ \A b \in Apps : t[b] \in {rows[b], 0}
  <2>1. PICK t : t = [rows EXCEPT ![a] = 0] /\ Cat!Erase(t, Cat!Shown(t))
    BY <1>5 DEF Cat!Delete
  <2>2. t \in Cat!Rows /\ \A b \in Apps : t[b] \in {rows[b], 0}
    BY <1>1, <2>1 DEF Cat!Rows
  <2> QED
    BY <2>1, <2>2
<1> QED
  BY <1>3, <1>4, <1>5 DEF Cat!Write

\* The type, which needs nothing else.
LEMMA ListTypedNext ==
  ASSUME ListTyped, Cat!Next \/ UNCHANGED othervars
  PROVE  ListTyped'
<1>1. ASSUME NEW w \in Editors, Cat!TakeStamp(w) PROVE ListTyped'
  <2>1. /\ clock < MaxStamp /\ clock' = clock + 1
        /\ saving' = [saving EXCEPT ![w] = clock + 1]
        /\ UNCHANGED <<rows, kept, mutex, caller, shown>>
    BY <1>1 DEF Cat!TakeStamp
  <2>2. clock + 1 \in Cat!Stamp
    BY <2>1, ListNumbers, CatConstants DEF Cat!Stamp
  <2>3. saving' \in [Editors -> Cat!Stamp \cup {None}]
    BY <2>1, <2>2 DEF ListTyped
  <2> QED
    BY <2>1, <2>2, <2>3 DEF ListTyped
<1>2. ASSUME NEW t \in Cat!Rows, Cat!Becomes(t, Cat!Shown(t)),
             saving' \in [Editors -> Cat!Stamp \cup {None}]
      PROVE  ListTyped'
  <2>1. rows' = t /\ UNCHANGED <<clock, kept, mutex, caller>>
    BY <1>2 DEF Cat!Becomes
  <2>2. shown' \in [Readers -> [{"list"} -> SUBSET Cat!Rows]]
    BY <1>2 DEF Cat!Becomes, Cat!Shown, ListTyped
  <2> QED
    BY <1>2, <2>1, <2>2 DEF ListTyped
<1>3. CASE Cat!Write
  <2>1. ASSUME NEW w \in Editors, NEW t \in Cat!Rows, Cat!Saved(w, t) PROVE ListTyped'
    <3>1. saving' \in [Editors -> Cat!Stamp \cup {None}]
      BY <2>1 DEF Cat!Saved, Cat!Commit, ListTyped
    <3> QED
      BY <1>2, <2>1, <3>1 DEF Cat!Saved, Cat!Commit
  <2>2. ASSUME NEW t \in Cat!Rows, Cat!Erase(t, Cat!Shown(t)) PROVE ListTyped'
    BY <1>2, <2>2 DEF Cat!Erase, ListTyped
  <2> QED
    BY <1>1, <1>3, <2>1, <2>2, ListWrites
<1>4. ASSUME NEW r \in Readers, Cat!Query(r) PROVE ListTyped'
  <2>1. PICK s \in Cat!Stamp, n \in Nat :
          /\ caller' = [caller EXCEPT ![r] =
               [pc |-> "queried", stamp |-> [newest |-> s, count |-> n], answer |-> None]]
          /\ shown' = [shown EXCEPT ![r] = [p \in {"list"} |-> {rows}]]
          /\ UNCHANGED <<clock, saving, rows, kept, mutex>>
    BY <1>4, ListQueries
  <2>2. [pc |-> "queried", stamp |-> [newest |-> s, count |-> n], answer |-> None] \in ListState
    BY DEF ListState
  <2>3. caller' \in [Readers -> ListState] /\ shown' \in [Readers -> [{"list"} -> SUBSET Cat!Rows]]
    BY <2>1, <2>2 DEF ListTyped
  <2>4. \A q \in Readers : \/ caller'[q] = caller[q]
                           \/ caller'[q] = [pc |-> "queried", stamp |-> [newest |-> s, count |-> n],
                                            answer |-> None]
    BY <2>1 DEF ListTyped
  <2> QED
    BY <2>1, <2>3, <2>4 DEF ListTyped
<1>5. ASSUME NEW r \in Readers, Cat!Reload(r) PROVE ListTyped'
  <2>1. /\ caller' \in [Readers -> ListState] /\ caller'[r].pc = "copy"
        /\ \A q \in Readers \ {r} : caller'[q] = caller[q]
        /\ kept' # None /\ kept' \in {kept} \cup [rows : Cat!Rows, loadedAt : Cat!Stamp]
        /\ UNCHANGED <<clock, saving, rows, mutex, shown>>
    BY <1>5, ListReloads
  <2> QED
    BY <2>1 DEF ListTyped
<1>6. ASSUME NEW r \in Readers, Cat!List(r) PROVE ListTyped'
  <2>1. /\ caller[r].pc = "copy" /\ UNCHANGED <<clock, saving, rows, mutex, kept>>
        /\ Cat!Returned(r, Cat!Shown(kept.rows))
    BY <1>6 DEF Cat!List
  <2>2. kept.rows \in Cat!Rows
    BY <2>1, ListNumbers DEF ListTyped
  <2> QED
    BY <2>1, <2>2, ListReturned DEF ListTyped
<1>7. CASE UNCHANGED othervars
  BY <1>7 DEF othervars, ListTyped
<1> QED
  BY <1>3, <1>4, <1>5, <1>6, <1>7 DEF Cat!Next

\* An editor takes its stamp.
LEMMA ListStamped ==
  ASSUME ListInv, ListTyped', NEW w \in Editors, Cat!TakeStamp(w)
  PROVE  ListInv'
<1>1. ListTyped /\ ListAhead /\ ListKept /\ ListWatched
  BY DEF ListInv
<1>2. /\ clock' = clock + 1 /\ saving' = [saving EXCEPT ![w] = clock + 1]
      /\ UNCHANGED <<rows, kept, mutex, caller, shown>>
  BY DEF Cat!TakeStamp
<1>3. \A u \in Editors : saving'[u] = IF u = w THEN clock + 1 ELSE saving[u]
  BY <1>1, <1>2 DEF ListTyped
<1>4. /\ clock \in Nat /\ \A a \in Apps : rows[a] \in Nat
      /\ kept # None => kept.loadedAt \in Nat
      /\ \A r \in Readers : caller[r].pc = "queried" => caller[r].stamp.newest \in Nat
      /\ \A u \in Editors : saving[u] # None => saving[u] \in Nat /\ saving[u] <= clock
  BY <1>1, ListNumbers DEF ListAhead
<1>5. AheadOf(clock + 1)
  BY <1>1 DEF ListAhead
<1>6. \A n \in Nat : n < clock + 1 => n < clock + 1 + 1
  BY <1>4
<1>7. AheadOf(clock + 1 + 1)
  BY <1>4, <1>5, <1>6 DEF AheadOf
<1>8. ASSUME NEW n, AheadOf(n) PROVE AheadOf(n)'
  BY <1>2, <1>8 DEF AheadOf
<1>9. ASSUME NEW u \in Editors, saving'[u] # None
      PROVE  /\ AheadOf(saving[u])' /\ saving'[u] <= clock'
             /\ \A v \in Editors \ {u} : saving'[v] # saving'[u]
  <2>1. CASE u = w
    <3>1. AheadOf(saving[u])' /\ saving'[u] <= clock'
      BY <1>2, <1>3, <1>4, <1>5, <1>8, <2>1
    <3>2. \A v \in Editors \ {u} : saving'[v] # saving'[u]
      BY <1>3, <1>4, <2>1, CatConstants
    <3> QED
      BY <3>1, <3>2
  <2>2. CASE u # w
    <3>1. /\ AheadOf(saving[u]) /\ saving'[u] = saving[u] /\ saving[u] # None
          /\ \A v \in Editors \ {u} : saving[v] # saving[u]
      BY <1>1, <1>3, <1>9, <2>2 DEF ListAhead
    <3>2. \A v \in Editors \ {u} : saving'[v] # saving'[u]
      BY <1>3, <1>4, <3>1
    <3>3. AheadOf(saving[u])' /\ saving'[u] <= clock'
      BY <1>2, <1>4, <1>8, <3>1
    <3> QED
      BY <3>2, <3>3
  <2> QED
    BY <2>1, <2>2
<1>10. ListAhead'
  BY <1>2, <1>7, <1>8, <1>9 DEF ListAhead
<1>11. ListKept' /\ ListWatched'
  BY <1>1, <1>2 DEF ListKept, ListWatched, Cat!Calling
<1> QED
  BY <1>10, <1>11 DEF ListInv

\* A write commits, with or without a stamp.
LEMMA ListChanged ==
  ASSUME ListInv, ListTyped', NEW t \in Cat!Rows, Cat!Becomes(t, Cat!Shown(t)),
         \A w \in Editors : saving'[w] # None =>
           /\ saving'[w] = saving[w]
           /\ \A a \in Apps : t[a] \in {rows[a], 0} \/ t[a] < saving[w],
         \A a \in Apps : t[a] \in {rows[a], 0}
           \/ \E w \in Editors : saving[w] # None /\ t[a] = saving[w] /\ saving[w] <= clock
  PROVE  ListInv'
<1>1. ListTyped /\ ListAhead /\ ListKept /\ ListWatched
  BY DEF ListInv
<1>2. rows' = t /\ UNCHANGED <<clock, kept, mutex, caller>>
  BY DEF Cat!Becomes
<1>3. shown' = [r \in Readers |-> [p \in {"list"} |->
        IF Cat!Calling(r) THEN shown[r][p] \cup {t} ELSE shown[r][p]]]
  BY DEF Cat!Becomes, Cat!Shown
<1>4. /\ clock \in Nat /\ \A a \in Apps : rows[a] \in Nat
      /\ kept # None => kept.loadedAt \in Nat
      /\ \A w \in Editors : saving[w] # None => saving[w] \in Nat
  BY <1>1, ListNumbers
<1>7. AheadOf(clock + 1)'
  <2>1. \A a \in Apps : t[a] < clock + 1
    BY <1>1, <1>4 DEF ListAhead, AheadOf
  <2> QED
    BY <1>1, <1>2, <2>1 DEF ListAhead, AheadOf
<1>8. ASSUME NEW w \in Editors, saving'[w] # None
      PROVE  /\ AheadOf(saving[w])' /\ saving'[w] <= clock
             /\ \A v \in Editors \ {w} : saving'[v] # saving'[w]
  <2>1. /\ AheadOf(saving[w]) /\ saving[w] <= clock /\ saving'[w] = saving[w]
        /\ \A v \in Editors \ {w} : saving[v] # saving[w]
        /\ \A a \in Apps : t[a] \in {rows[a], 0} \/ t[a] < saving[w]
    BY <1>1, <1>8 DEF ListAhead
  <2>2. \A a \in Apps : t[a] < saving[w]
    BY <2>1 DEF AheadOf
  <2>3. \A v \in Editors \ {w} : saving'[v] # saving'[w]
    BY <1>8, <2>1
  <2> QED
    BY <1>2, <2>1, <2>2, <2>3 DEF AheadOf
<1>9. ListAhead'
  BY <1>2, <1>7, <1>8 DEF ListAhead
<1>10. ListKept'
  <2> SUFFICES ASSUME kept # None, NEW a \in Apps
               PROVE  t[a] = 0 \/ t[a] = kept.rows[a] \/ kept.loadedAt < t[a]
    BY <1>2 DEF ListKept
  <2>1. CASE t[a] \in {rows[a], 0}
    BY <1>1, <2>1 DEF ListKept
  <2>2. ASSUME NEW w \in Editors, saving[w] # None, t[a] = saving[w]
        PROVE  kept.loadedAt < t[a]
    BY <1>1, <2>2 DEF ListAhead, AheadOf
  <2> QED
    BY <2>1, <2>2
<1>11. ListWatched'
  <2> SUFFICES ASSUME NEW r \in Readers, Cat!Calling(r)
               PROVE  /\ t \in shown'[r]["list"]
                      /\ caller[r].pc = "queried" /\ CurrentOf(kept, caller[r].stamp) =>
                           kept.rows \in shown'[r]["list"]
                      /\ caller[r].pc = "copy" => kept.rows \in shown'[r]["list"]
    BY <1>2 DEF ListWatched, Cat!Calling
  <2>1. shown'[r]["list"] = shown[r]["list"] \cup {t}
    BY <1>3
  <2> QED
    BY <1>1, <2>1 DEF ListWatched
<1> QED
  BY <1>9, <1>10, <1>11 DEF ListInv

LEMMA ListWritten ==
  ASSUME ListInv, ListTyped', Cat!Write, ~Overtakes
  PROVE  ListInv'
<1>1. /\ ListTyped
      /\ \A u \in Editors : saving[u] # None =>
           saving[u] \in Nat /\ saving[u] <= clock /\ \A v \in Editors \ {u} : saving[v] # saving[u]
  BY ListNumbers DEF ListInv, ListAhead
<1>2. ASSUME NEW w \in Editors, NEW t \in Cat!Rows, Cat!Saved(w, t),
             \A a \in Apps : t[a] \in {rows[a], 0, saving[w]}
      PROVE  ListInv'
  <2>1. /\ saving[w] # None /\ saving' = [saving EXCEPT ![w] = None]
        /\ Cat!Becomes(t, Cat!Shown(t))
    BY <1>2 DEF Cat!Saved, Cat!Commit
  <2>2. \A u \in Editors : saving'[u] = IF u = w THEN None ELSE saving[u]
    BY <1>1, <2>1 DEF ListTyped
  <2>3. ASSUME NEW u \in Editors, saving'[u] # None
        PROVE  saving'[u] = saving[u] /\ saving[w] < saving[u]
    <3>1. u # w /\ saving'[u] = saving[u]
      BY <2>2, <2>3
    <3>2. ~(saving[u] < saving[w])
      BY <2>1, <2>2, <2>3, <3>1 DEF Overtakes
    <3> QED
      BY <1>1, <2>1, <2>3, <3>1, <3>2
  <2>4. \A u \in Editors : saving'[u] # None =>
          /\ saving'[u] = saving[u]
          /\ \A a \in Apps : t[a] \in {rows[a], 0} \/ t[a] < saving[u]
    BY <1>2, <2>3
  <2>5. \A a \in Apps : t[a] \in {rows[a], 0}
          \/ \E u \in Editors : saving[u] # None /\ t[a] = saving[u] /\ saving[u] <= clock
    BY <1>1, <1>2, <2>1
  <2> QED
    BY <2>1, <2>4, <2>5, ListChanged
<1>3. ASSUME NEW t \in Cat!Rows, Cat!Erase(t, Cat!Shown(t)), \A a \in Apps : t[a] \in {rows[a], 0}
      PROVE  ListInv'
  BY <1>3, ListChanged DEF Cat!Erase
<1> QED
  BY <1>1, <1>2, <1>3, ListWrites, ListStamped

\* What a step of r leaves to the other calls.
LEMMA ListOthers ==
  ASSUME ListInv, ListTyped', NEW r \in Readers,
         UNCHANGED <<clock, saving, rows, mutex>>,
         \A q \in Readers \ {r} : caller'[q] = caller[q] /\ shown'[q] = shown[q],
         \/ kept' = kept
         \/ caller[r].pc = "queried" /\ kept' = [rows |-> rows, loadedAt |-> caller[r].stamp.newest],
         caller'[r].pc # "idle",
         caller'[r].pc = "queried" =>
           /\ rows \in shown'[r]["list"] /\ kept' = kept
           /\ \A w \in Editors : saving[w] # None => caller'[r].stamp.newest < saving[w]
           /\ caller'[r].stamp.newest < clock + 1
           /\ CurrentOf(kept, caller'[r].stamp) => kept.rows \in shown'[r]["list"],
         caller'[r].pc = "copy" =>
           rows \in shown'[r]["list"] /\ kept'.rows \in shown'[r]["list"]
  PROVE  ListInv'
<1>1. ListTyped /\ ListAhead /\ ListKept /\ ListWatched
  BY DEF ListInv
<1>2. /\ clock \in Nat /\ \A a \in Apps : rows[a] \in Nat
      /\ rows \in Cat!Rows
      /\ caller[r].pc = "queried" => caller[r].stamp.newest \in Cat!Stamp
  BY <1>1, ListNumbers DEF ListTyped
<1>3. kept' # kept =>
        /\ kept' \in [rows : Cat!Rows, loadedAt : Cat!Stamp]
        /\ kept'.rows = rows /\ kept'.loadedAt = caller[r].stamp.newest
        /\ caller[r].pc = "queried"
  BY <1>2
<1>6. ASSUME NEW n, AheadOf(n), caller'[r].pc = "queried" => caller'[r].stamp.newest < n
      PROVE  AheadOf(n)'
  <2>1. kept' # None => kept'.loadedAt < n
    BY <1>3, <1>6 DEF AheadOf
  <2>2. \A q \in Readers : caller'[q].pc = "queried" => caller'[q].stamp.newest < n
    BY <1>6 DEF AheadOf
  <2> QED
    BY <1>6, <2>1, <2>2 DEF AheadOf
<1>7. ListAhead'
  <2>1. AheadOf(clock + 1)'
    BY <1>1, <1>6 DEF ListAhead
  <2>2. \A w \in Editors : saving[w] # None => AheadOf(saving[w])'
    BY <1>1, <1>6 DEF ListAhead
  <2> QED
    BY <1>1, <2>1, <2>2 DEF ListAhead
<1>8. ListKept'
  BY <1>1, <1>3 DEF ListKept
<1>9. ListWatched'
  <2> SUFFICES ASSUME NEW q \in Readers, Cat!Calling(q)'
               PROVE  /\ rows \in shown'[q]["list"]
                      /\ caller'[q].pc = "queried" /\ CurrentOf(kept', caller'[q].stamp) =>
                           kept'.rows \in shown'[q]["list"]
                      /\ caller'[q].pc = "copy" => kept'.rows \in shown'[q]["list"]
    BY DEF ListWatched
  <2>1. CASE q = r
    <3>1. caller'[r].pc \in {"queried", "copy"}
      BY <2>1 DEF Cat!Calling, ListTyped, ListState
    <3>2. caller'[r].pc = "queried" /\ CurrentOf(kept', caller'[q].stamp) =>
            kept'.rows \in shown'[q]["list"]
      BY <2>1
    <3> QED
      BY <2>1, <3>1, <3>2
  <2>2. CASE q # r
    <3>1. /\ rows \in shown[q]["list"]
          /\ caller[q].pc = "queried" /\ CurrentOf(kept, caller[q].stamp) => kept.rows \in shown[q]["list"]
          /\ caller[q].pc = "copy" => kept.rows \in shown[q]["list"]
          /\ caller'[q] = caller[q] /\ shown'[q] = shown[q]
      BY <1>1, <2>2 DEF ListWatched, Cat!Calling
    <3>2. CASE kept' = kept
      BY <3>1, <3>2
    <3>3. CASE kept' # kept
      BY <1>3, <3>1, <3>3
    <3> QED
      BY <3>2, <3>3
  <2> QED
    BY <2>1, <2>2
<1> QED
  BY <1>7, <1>8, <1>9 DEF ListInv

LEMMA ListQueried ==
  ASSUME ListInv, ListTyped', NEW r \in Readers, Cat!Query(r)
  PROVE  ListInv'
<1>1. ListTyped /\ ListAhead /\ ListKept
  BY DEF ListInv
<1>2. PICK s \in Cat!Stamp, n \in Nat :
        /\ caller' = [caller EXCEPT ![r] =
             [pc |-> "queried", stamp |-> [newest |-> s, count |-> n], answer |-> None]]
        /\ shown' = [shown EXCEPT ![r] = [p \in {"list"} |-> {rows}]]
        /\ UNCHANGED <<clock, saving, rows, kept, mutex>>
        /\ s \in Cat!Newest(rows) /\ n = Cat!Count(rows)
  BY <1>1, ListQueries
<1>3. /\ s \in Nat /\ \A a \in Apps : rows[a] <= s
      /\ s # 0 => \E a \in Apps : rows[a] = s
  BY <1>2, CatConstants DEF Cat!Newest, Cat!Stamp
<1>4. /\ caller'[r].pc = "queried" /\ caller'[r].stamp = [newest |-> s, count |-> n]
      /\ shown'[r]["list"] = {rows}
      /\ \A q \in Readers \ {r} : caller'[q] = caller[q] /\ shown'[q] = shown[q]
  BY <1>1, <1>2 DEF ListTyped
<1>5. caller'[r].stamp.newest = s /\ caller'[r].stamp.count = n
  BY <1>4
<1>6. \A m : AheadOf(m) => s < m
  BY <1>3 DEF AheadOf
<1>7. s < clock + 1 /\ \A w \in Editors : saving[w] # None => s < saving[w]
  BY <1>1, <1>6 DEF ListAhead
<1>8. CurrentOf(kept, caller'[r].stamp) => kept.rows \in shown'[r]["list"]
  BY <1>1, <1>2, <1>3, <1>4, <1>5, SameStampSameRows DEF CurrentOf
<1> QED
  BY <1>2, <1>4, <1>5, <1>7, <1>8, ListOthers

LEMMA ListReloaded ==
  ASSUME ListInv, ListTyped', NEW r \in Readers, Cat!Reload(r)
  PROVE  ListInv'
<1>1. ListTyped /\ ListWatched
  BY DEF ListInv
<1>2. /\ caller[r].pc = "queried" /\ UNCHANGED <<clock, saving, rows, mutex, shown>>
      /\ caller'[r].pc = "copy" /\ \A q \in Readers \ {r} : caller'[q] = caller[q]
      /\ \/ kept' = kept /\ Cat!Current(caller[r].stamp)
         \/ kept' = [rows |-> rows, loadedAt |-> caller[r].stamp.newest]
  BY <1>1, ListReloads
<1>3. /\ rows \in shown[r]["list"]
      /\ CurrentOf(kept, caller[r].stamp) => kept.rows \in shown[r]["list"]
  BY <1>1, <1>2 DEF ListWatched, Cat!Calling
<1>4. kept'.rows \in shown[r]["list"]
  BY <1>2, <1>3 DEF Cat!Current, CurrentOf
<1> QED
  BY <1>2, <1>3, <1>4, ListOthers

LEMMA ListListed ==
  ASSUME ListInv, ListTyped', NEW r \in Readers, Cat!List(r)
  PROVE  ListInv'
<1>1. ListTyped
  BY DEF ListInv
<1>2. /\ caller[r].pc = "copy" /\ UNCHANGED <<clock, saving, rows, mutex, kept>>
      /\ Cat!Returned(r, Cat!Shown(kept.rows))
  BY DEF Cat!List
<1>3. kept.rows \in Cat!Rows
  BY <1>1, <1>2, ListNumbers DEF ListTyped
<1>4. /\ \A q \in Readers \ {r} : caller'[q] = caller[q] /\ shown'[q] = shown[q]
      /\ caller'[r].pc = "done"
  BY <1>1, <1>2, <1>3, ListReturned
<1> QED
  BY <1>2, <1>4, ListOthers

LEMMA ListInvNext ==
  ASSUME ListInv, Cat!Next \/ UNCHANGED othervars, ~Overtakes
  PROVE  ListInv'
<1>0. ListTyped'
  BY ListTypedNext DEF ListInv
<1>1. CASE Cat!Write
  BY <1>0, <1>1, ListWritten
<1>2. ASSUME NEW r \in Readers, Cat!Query(r) \/ Cat!Reload(r) \/ Cat!List(r) PROVE ListInv'
  BY <1>0, <1>2, ListQueried, ListReloaded, ListListed
<1>3. CASE UNCHANGED othervars
  <2>1. UNCHANGED <<clock, saving, rows, kept, mutex, caller, shown>>
    BY <1>3 DEF othervars
  <2>2. ListKept'
    BY <2>1 DEF ListInv, ListKept
  <2>3. ListAhead'
    BY <2>1 DEF ListInv, ListAhead, AheadOf
  <2>4. ListWatched'
    BY <2>1 DEF ListInv, ListWatched, Cat!Calling
  <2> QED
    BY <1>0, <2>2, <2>3, <2>4 DEF ListInv
<1> QED
  BY <1>1, <1>2, <1>3 DEF Cat!Next

LEMMA ListTypeOK ==
  ASSUME ListTyped
  PROVE  Cat!TypeOK
<1>1. ASSUME NEW r \in Readers
      PROVE  /\ caller[r].pc \in {"idle", "queried", "copy", "done"}
             /\ caller[r].pc = "queried" => caller[r].stamp \in [newest : Cat!Stamp, count : Nat]
             /\ caller[r].pc = "done" => caller[r].answer \in [{"list"} -> Cat!Rows]
             /\ shown[r] \in [{"list"} -> SUBSET Cat!Rows]
  BY DEF ListTyped, ListState
<1> QED
  BY <1>1 DEF Cat!TypeOK, ListTyped

-----------------------------------------------------------------------------
(* The catalog is a FreshRead.                                             *)

\* What a call is to it.
LEMMA ListCalls ==
  ASSUME ListTyped, NEW r \in Readers
  PROVE  /\ caller[r].pc = "idle" => Cat!CallOf(r) = "idle"
         /\ Cat!Calling(r) => Cat!CallOf(r) = "waiting"
         /\ caller[r].pc = "done" => Cat!CallOf(r) = "answered"
         /\ Cat!CallOf(r) = "waiting" => Cat!Calling(r)
BY DEF ListTyped, Cat!CallOf, Cat!Calling

LEMMA ListFreshInit ==
  ASSUME Cat!Init
  PROVE  Cat!Fresh!Init
<1>1. /\ caller = [r \in Readers |-> Cat!Idle]
      /\ shown = [r \in Readers |-> [p \in {"list"} |-> {}]]
  BY DEF Cat!Init, Cat!Quiet
<1>2. \A r \in Readers : caller[r].pc = "idle" /\ caller[r].answer = None
  BY <1>1 DEF Cat!Idle
<1>3. \A r \in Readers : Cat!CallOf(r) = "idle"
  BY <1>2, ListInvInit, ListCalls DEF ListInv
<1> QED
  BY <1>1, <1>2, <1>3 DEF Cat!Fresh!Init

\* The rows change, and every call under way sees them.
LEMMA ListChanges ==
  ASSUME ListTyped, NEW t, Cat!Becomes(t, Cat!Shown(t))
  PROVE  Cat!Fresh!Change
<1>1. /\ shown' = [r \in Readers |-> [p \in {"list"} |->
           IF Cat!Calling(r) THEN shown[r][p] \cup {Cat!Shown(rows')[p]} ELSE shown[r][p]]]
      /\ caller' = caller
  BY DEF Cat!Becomes, Cat!Shown
<1>2. \A r \in Readers : Cat!Calling(r) <=> Cat!CallOf(r) = "waiting"
  BY ListCalls
<1>3. [q \in Readers |-> Cat!CallOf(q)'] = [q \in Readers |-> Cat!CallOf(q)]
  BY <1>1 DEF Cat!CallOf, Cat!Calling
<1>4. shown' = [r \in Readers |-> [p \in {"list"} |->
        IF [q \in Readers |-> Cat!CallOf(q)][r] = "waiting"
          THEN shown[r][p] \cup {Cat!Shown(rows')[p]} ELSE shown[r][p]]]
  BY <1>1, <1>2
<1> QED
  BY <1>1, <1>3, <1>4 DEF Cat!Fresh!Change

LEMMA ListAsks ==
  ASSUME ListTyped, ListTyped', NEW r \in Readers, Cat!Query(r)
  PROVE  Cat!Fresh!Ask(r)
<1> DEFINE call == [q \in Readers |-> Cat!CallOf(q)]
           callNext == [q \in Readers |-> Cat!CallOf(q)']
           given == [q \in Readers |-> caller[q].answer]
           givenNext == [q \in Readers |-> caller'[q].answer]
<1>1. PICK stamp :
        /\ ~Cat!Calling(r) /\ UNCHANGED rows
        /\ caller' = [caller EXCEPT ![r] = [pc |-> "queried", stamp |-> stamp, answer |-> None]]
        /\ shown' = [shown EXCEPT ![r] = [p \in {"list"} |-> {Cat!Shown(rows)[p]}]]
  BY DEF Cat!Query, Cat!Ask, Cat!Shown
<1>2. /\ \A q \in Readers \ {r} : caller'[q] = caller[q]
      /\ caller'[r].pc = "queried" /\ caller'[r].answer = None
  BY <1>1 DEF ListTyped
<1>3. Cat!CallOf(r)' = "waiting" /\ Cat!CallOf(r) # "waiting"
  BY <1>1, <1>2, ListCalls DEF Cat!CallOf, Cat!Calling
<1>4. \A q \in Readers \ {r} : Cat!CallOf(q)' = Cat!CallOf(q)
  BY <1>2 DEF Cat!CallOf, Cat!Calling
<1>5. callNext = [call EXCEPT ![r] = "waiting"] /\ call[r] # "waiting"
  BY <1>3, <1>4
<1>6. givenNext = [given EXCEPT ![r] = None]
  BY <1>2
<1>7. UNCHANGED Cat!Shown(rows)
  BY <1>1
<1> QED
  BY <1>1, <1>5, <1>6, <1>7 DEF Cat!Fresh!Ask

LEMMA ListAnswers ==
  ASSUME ListTyped, ListTyped', ListWatched, NEW r \in Readers, Cat!List(r)
  PROVE  Cat!Fresh!Answer(r)
<1> DEFINE call == [q \in Readers |-> Cat!CallOf(q)]
           callNext == [q \in Readers |-> Cat!CallOf(q)']
           given == [q \in Readers |-> caller[q].answer]
           givenNext == [q \in Readers |-> caller'[q].answer]
<1>1. /\ caller[r].pc = "copy" /\ UNCHANGED rows /\ Cat!Calling(r)
      /\ Cat!Returned(r, Cat!Shown(kept.rows))
  BY DEF Cat!List, Cat!Calling
<1>2. kept.rows \in Cat!Rows /\ kept.rows \in shown[r]["list"]
  BY <1>1, ListNumbers DEF ListTyped, ListWatched
<1>3. /\ \A q \in Readers \ {r} : caller'[q] = caller[q] /\ shown'[q] = shown[q]
      /\ caller'[r].pc = "done" /\ caller'[r].answer = Cat!Shown(kept.rows)
      /\ shown' = [shown EXCEPT ![r] = [p \in {"list"} |-> {}]]
      /\ Cat!Shown(kept.rows)["list"] = kept.rows
  BY <1>1, <1>2, ListReturned
<1>4. Cat!CallOf(r) = "waiting" /\ Cat!CallOf(r)' = "answered"
  BY <1>1, <1>3, ListCalls DEF Cat!CallOf, Cat!Calling, ListTyped
<1>5. \A q \in Readers \ {r} : Cat!CallOf(q)' = Cat!CallOf(q)
  BY <1>3 DEF Cat!CallOf, Cat!Calling
<1>6. callNext = [call EXCEPT ![r] = "answered"] /\ call[r] = "waiting"
  BY <1>4, <1>5
<1>7. givenNext = [given EXCEPT ![r] = givenNext[r]] /\ givenNext[r]["list"] = kept.rows
  BY <1>3
<1>8. UNCHANGED Cat!Shown(rows)
  BY <1>1
<1> QED
  BY <1>2, <1>3, <1>6, <1>7, <1>8 DEF Cat!Fresh!Answer, Cat!Fresh!MayAnswer, Cat!Fresh!Forget

LEMMA ListStutters ==
  ASSUME ListTyped, ListTyped', UNCHANGED <<rows, shown>>,
         \A q \in Readers : \/ caller'[q] = caller[q]
                            \/ /\ caller[q].pc = "queried" /\ caller'[q].pc = "copy"
                               /\ caller'[q].answer = caller[q].answer
  PROVE  UNCHANGED Cat!Fresh!vars
<1>1. ASSUME NEW q \in Readers
      PROVE  Cat!CallOf(q)' = Cat!CallOf(q) /\ caller'[q].answer = caller[q].answer
  BY DEF Cat!CallOf, Cat!Calling
<1>2. /\ [q \in Readers |-> Cat!CallOf(q)'] = [q \in Readers |-> Cat!CallOf(q)]
      /\ [q \in Readers |-> caller'[q].answer] = [q \in Readers |-> caller[q].answer]
  BY <1>1
<1> QED
  BY <1>2 DEF Cat!Fresh!vars

LEMMA ListFreshNext ==
  ASSUME ListInv, ListTyped', Cat!Next \/ UNCHANGED othervars
  PROVE  Cat!Fresh!Next \/ UNCHANGED Cat!Fresh!vars
<1>1. ListTyped /\ ListTyped' /\ ListWatched
  BY DEF ListInv
<1>2. ASSUME NEW w \in Editors, Cat!TakeStamp(w) PROVE UNCHANGED Cat!Fresh!vars
  BY <1>1, <1>2, ListStutters DEF Cat!TakeStamp
<1>3. ASSUME NEW t, Cat!Becomes(t, Cat!Shown(t)) PROVE Cat!Fresh!Next
  BY <1>1, <1>3, ListChanges DEF Cat!Fresh!Next
<1>4. CASE Cat!Write
  BY <1>2, <1>3, <1>4
     DEF Cat!Write, Cat!Create, Cat!Update, Cat!Import, Cat!Delete, Cat!Saved, Cat!Commit, Cat!Erase
<1>5. ASSUME NEW r \in Readers, Cat!Query(r) PROVE Cat!Fresh!Next
  BY <1>1, <1>5, ListAsks DEF Cat!Fresh!Next
<1>6. ASSUME NEW r \in Readers, Cat!Reload(r) PROVE UNCHANGED Cat!Fresh!vars
  <2>1. /\ caller[r].pc = "queried" /\ UNCHANGED <<rows, shown>>
        /\ caller' = [caller EXCEPT ![r].pc = "copy"]
    BY <1>6 DEF Cat!Reload, Cat!Moved
  <2>2. /\ caller'[r].pc = "copy" /\ caller'[r].answer = caller[r].answer
        /\ \A q \in Readers \ {r} : caller'[q] = caller[q]
    BY <1>1, <2>1 DEF ListTyped, ListState
  <2> QED
    BY <1>1, <2>1, <2>2, ListStutters
<1>7. ASSUME NEW r \in Readers, Cat!List(r) PROVE Cat!Fresh!Next
  BY <1>1, <1>7, ListAnswers DEF Cat!Fresh!Next
<1>8. CASE UNCHANGED othervars
  BY <1>1, <1>8, ListStutters DEF othervars
<1> QED
  BY <1>4, <1>5, <1>6, <1>7, <1>8 DEF Cat!Next

-----------------------------------------------------------------------------
(* The theme.                                                              *)
PagePaths == {Thm!Meta} \cup Thm!Files

PageStamp == [newest : Thm!Stamp, count : Nat]

PageState ==
  [pc : {"idle", "queried", "meta", "files", "take", "done"},
   stamp : PageStamp \cup {None},
   answer : [Thm!Served -> Thm!Row] \cup Thm!Row \cup {None}]

PageTyped ==
  /\ clock \in Thm!Stamp
  /\ saving \in [Editors -> Thm!Stamp \cup {None}]
  /\ rows \in Thm!Theme
  /\ kept = None \/ kept \in [theme : [Thm!Served -> Thm!Row], newestAt : Thm!Stamp]
  /\ mutex \in Readers \cup {None}
  /\ caller \in [Readers -> PageState]
  /\ shown \in [Readers -> [Thm!Served -> SUBSET Thm!Row]]

\* The calls: the one that loads has the mutex, and what is served was loaded.
HasStamp(c) == c.pc \in {"queried", "meta", "files"}
Loads(c) == c.pc \in {"meta", "files"}

PageCalls ==
  \A r \in Readers :
    /\ HasStamp(caller[r]) => caller[r].stamp \in PageStamp
    /\ Loads(caller[r]) <=> mutex = r
    /\ caller[r].pc = "files" => caller[r].answer \in Thm!Row
    /\ caller[r].pc = "take" => kept # None
    /\ caller[r].pc = "done" => caller[r].answer \in [Thm!Served -> Thm!Row] \cup {None}

\* As for the list.
LaterThanAll(n) ==
  /\ 0 < n
  /\ \A p \in PagePaths : rows[p].at < n
  /\ kept # None => kept.newestAt < n
  /\ \A r \in Readers : HasStamp(caller[r]) => caller[r].stamp.newest < n

PageAhead ==
  /\ LaterThanAll(clock + 1)
  /\ \A w \in Editors : saving[w] # None =>
       /\ LaterThanAll(saving[w]) /\ saving[w] <= clock
       /\ \A v \in Editors \ {w} : saving[v] # saving[w]

\* What became of a row that was read to be filed under the stamp n: it was
\* deleted, or written after that stamp, or it is the same.
Since(new, row, n) == new = Thm!Absent \/ new = row \/ n < new.at

PageKept ==
  /\ kept # None =>
       \A p \in Thm!Served : Since(rows[p], kept.theme[p], kept.newestAt)
  /\ \A r \in Readers : caller[r].pc = "files" =>
       Since(rows[Thm!Meta], caller[r].answer, caller[r].stamp.newest)

\* What a call may be served that has seen this of the part.
Servable(was, row) == row \in was \/ Thm!Absent \in was

\* A call that may come to be served what is filed under n.
Awaits(c, n) == c.pc = "take" \/ (c.pc = "queried" /\ c.stamp.newest = n)

PageWatched ==
  \A r \in Readers : Thm!Calling(r) =>
    /\ \A p \in Thm!Served : rows[p] \in shown[r][p]
    /\ kept # None /\ Awaits(caller[r], kept.newestAt) =>
         \A p \in Thm!Served : Servable(shown[r][p], kept.theme[p])
    /\ \A q \in Readers :
         caller[q].pc = "files" /\ (q = r \/ Awaits(caller[r], caller[q].stamp.newest)) =>
           Servable(shown[r][Thm!Meta], caller[q].answer)

PageInv == PageTyped /\ PageCalls /\ PageAhead /\ PageKept /\ PageWatched

-----------------------------------------------------------------------------
LEMMA ThmFinite == \A S : Thm!IsFiniteSet(S) = IsFiniteSet(S)
BY DEF Thm!IsFiniteSet, IsFiniteSet

LEMMA ThmCardinality == \A S : Thm!Cardinality(S) = Cardinality(S)
BY ThmFinite, Zenon DEF Thm!Cardinality, Cardinality

LEMMA ThmConstants ==
  /\ IsFiniteSet(Thm!Files)
  /\ MaxStamp \in Nat \ {0} /\ None \notin Nat /\ None \notin Readers
  /\ None \notin [theme : [Thm!Served -> Thm!Row], newestAt : Thm!Stamp]
  /\ None \notin [Thm!Served -> Thm!Row]
  /\ Thm!Meta \in Thm!Served /\ Thm!Meta \notin Thm!Files
  /\ Thm!Served \subseteq PagePaths /\ Thm!Files \subseteq PagePaths /\ Thm!Meta \in PagePaths
  /\ 0 \in Thm!Stamp /\ 1 \in Thm!Stamp /\ Thm!Absent \in Thm!Row /\ Thm!Absent.at = 0
<1>1. 0 \in Thm!Stamp /\ 1 \in Thm!Stamp
  BY HotReloadAssumption DEF Thm!Stamp
<1>2. Thm!Absent \in Thm!Row /\ Thm!Absent.at = 0
  BY <1>1 DEF Thm!Absent, Thm!Row
<1> QED
  BY <1>1, <1>2, HotReloadAssumption, SurfacesAssumption, ThmFinite
     DEF Thm!ThemeAssumption, Cat!CatalogAssumption, Thm!Served, Thm!Files, PagePaths

\* The stamps are numbers.
LEMMA PageNumbers ==
  ASSUME PageTyped, PageCalls
  PROVE  /\ clock \in Nat
         /\ \A p \in PagePaths : rows[p] \in Thm!Row /\ rows[p].at \in Nat
         /\ kept # None => /\ kept.newestAt \in Thm!Stamp /\ kept.newestAt \in Nat
                           /\ kept.theme \in [Thm!Served -> Thm!Row]
         /\ \A w \in Editors : saving[w] # None => saving[w] \in Nat /\ saving[w] \in Thm!Stamp
         /\ \A r \in Readers :
              /\ caller[r] \in PageState
              /\ HasStamp(caller[r]) =>
                   caller[r].stamp.newest \in Thm!Stamp /\ caller[r].stamp.newest \in Nat
<1>1. \A n \in Thm!Stamp : n \in Nat
  BY ThmConstants DEF Thm!Stamp
<1>2. \A p \in PagePaths : rows[p] \in Thm!Row
  BY DEF PageTyped, Thm!Theme, PagePaths
<1>3. \A row \in Thm!Row : row.at \in Nat
  BY <1>1 DEF Thm!Row
<1>4. \A r \in Readers : HasStamp(caller[r]) => caller[r].stamp.newest \in Thm!Stamp
  BY DEF PageCalls, PageStamp
<1> QED
  BY <1>1, <1>2, <1>3, <1>4 DEF PageTyped

LEMMA PageInvInit ==
  ASSUME Thm!Init
  PROVE  PageInv
<1>1. /\ clock = 1 /\ kept = None /\ mutex = None
      /\ saving = [w \in Editors |-> None]
      /\ caller = [r \in Readers |-> Thm!Idle]
      /\ shown = [r \in Readers |-> [p \in Thm!Served |-> {}]]
  BY DEF Thm!Init, Thm!Quiet
<1>2. PICK row \in {Thm!Absent, [at |-> 1, ok |-> TRUE]} : rows = [p \in PagePaths |-> row]
  BY DEF Thm!Init, PagePaths
<1>3. row \in Thm!Row /\ row.at < 2
  <2>1. CASE row = Thm!Absent
    BY <2>1, ThmConstants
  <2>2. CASE row = [at |-> 1, ok |-> TRUE]
    BY <2>2, ThmConstants DEF Thm!Row
  <2> QED
    BY <2>1, <2>2
<1>4. Thm!Idle \in PageState /\ Thm!Idle.pc = "idle"
  BY DEF Thm!Idle, PageState
<1>5. \A r \in Readers : caller[r].pc = "idle" /\ mutex # r
  BY <1>1, <1>4, ThmConstants
<1>6. PageTyped
  BY <1>1, <1>2, <1>3, <1>4, ThmConstants DEF PageTyped, Thm!Theme, PagePaths
<1>7. PageCalls
  BY <1>5 DEF PageCalls, HasStamp, Loads
<1>8. LaterThanAll(2)
  BY <1>1, <1>2, <1>3, <1>5 DEF LaterThanAll, HasStamp
<1>9. PageAhead
  BY <1>1, <1>8 DEF PageAhead
<1>10. PageKept /\ PageWatched
  BY <1>1, <1>5 DEF PageKept, PageWatched, Thm!Calling
<1> QED
  BY <1>6, <1>7, <1>9, <1>10 DEF PageInv

\* The call of r ends.
LEMMA PageReturned ==
  ASSUME PageTyped, NEW r \in Readers, NEW a \in [Thm!Served -> Thm!Row] \cup {None},
         Thm!Returned(r, a)
  PROVE  /\ caller' \in [Readers -> PageState]
         /\ shown' \in [Readers -> [Thm!Served -> SUBSET Thm!Row]]
         /\ \A q \in Readers \ {r} : caller'[q] = caller[q] /\ shown'[q] = shown[q]
         /\ caller'[r].pc = "done" /\ caller'[r].answer = a
         /\ shown' = [shown EXCEPT ![r] = [p \in Thm!Served |-> {}]]
<1>1. /\ caller \in [Readers -> PageState] /\ shown \in [Readers -> [Thm!Served -> SUBSET Thm!Row]]
      /\ DOMAIN shown[r] = Thm!Served
  BY DEF PageTyped
<1>2. /\ caller' = [caller EXCEPT ![r] = [pc |-> "done", stamp |-> None, answer |-> a]]
      /\ shown' = [shown EXCEPT ![r] = [p \in Thm!Served |-> {}]]
  BY <1>1 DEF Thm!Returned
<1>3. [pc |-> "done", stamp |-> None, answer |-> a] \in PageState
  BY DEF PageState
<1>4. [p \in Thm!Served |-> {}] \in [Thm!Served -> SUBSET Thm!Row]
  OBVIOUS
<1> QED
  BY <1>1, <1>2, <1>3, <1>4

\* The call of r goes on.
LEMMA PageMoved ==
  ASSUME PageTyped, NEW r \in Readers, NEW pc \in {"meta", "take"}, Thm!Moved(r, pc)
  PROVE  /\ caller' \in [Readers -> PageState] /\ shown' = shown
         /\ \A q \in Readers \ {r} : caller'[q] = caller[q] /\ shown'[q] = shown[q]
         /\ caller'[r].pc = pc /\ caller'[r].stamp = caller[r].stamp
         /\ caller'[r].answer = caller[r].answer
BY DEF PageTyped, Thm!Moved, PageState

\* The stamp a call queries is the newest there is.
LEMMA PageQueries ==
  ASSUME PageTyped, NEW r \in Readers, Thm!Query(r)
  PROVE  \E s \in Thm!Stamp, n \in Nat :
           /\ ~Thm!Calling(r)
           /\ caller' = [caller EXCEPT ![r] =
                [pc |-> "queried", stamp |-> [newest |-> s, count |-> n], answer |-> None]]
           /\ shown' = [shown EXCEPT ![r] = [p \in Thm!Served |-> {rows[p]}]]
           /\ UNCHANGED <<clock, saving, rows, kept, mutex>>
           /\ s \in Thm!Newest(rows)
<1>1. PICK s \in Thm!Newest(rows) :
        Thm!Ask(r, [newest |-> s, count |-> Thm!FileCount(rows)], Thm!Shown(rows))
  BY DEF Thm!Query
<1>2. PICK n \in Nat : n = Thm!FileCount(rows)
  <2>1. IsFiniteSet(Thm!Present(rows, Thm!Files))
    BY FS_Subset, ThmConstants DEF Thm!Present
  <2> QED
    BY <2>1, FS_CardinalityType, ThmCardinality DEF Thm!FileCount
<1>3. [p \in DOMAIN Thm!Shown(rows) |-> {Thm!Shown(rows)[p]}] = [p \in Thm!Served |-> {rows[p]}]
  BY DEF Thm!Shown
<1>4. s \in Thm!Stamp
  BY DEF Thm!Newest
<1> QED
  BY <1>1, <1>2, <1>3, <1>4 DEF Thm!Ask

\* The theme a reload leaves.
LEMMA PageReloads ==
  ASSUME PageTyped, PageCalls, NEW r \in Readers, Thm!LoadFiles(r), Thm!Parses
  PROVE  /\ caller' \in [Readers -> PageState] /\ shown' = shown
         /\ \A q \in Readers \ {r} : caller'[q] = caller[q] /\ shown'[q] = shown[q]
         /\ caller'[r].pc = "take"
         /\ kept' # None /\ kept' \in [theme : [Thm!Served -> Thm!Row], newestAt : Thm!Stamp]
         /\ kept'.newestAt = caller[r].stamp.newest /\ kept'.theme[Thm!Meta] = caller[r].answer
         /\ \A p \in Thm!Served \ {Thm!Meta} : kept'.theme[p] = rows[p]
<1> DEFINE theme == [p \in Thm!Served |-> IF p = Thm!Meta THEN caller[r].answer ELSE rows[p]]
<1>1. /\ kept' = [theme |-> theme, newestAt |-> caller[r].stamp.newest]
      /\ caller[r].pc = "files" /\ Thm!Moved(r, "take")
  BY DEF Thm!LoadFiles
<1>2. /\ caller' \in [Readers -> PageState] /\ shown' = shown
      /\ \A q \in Readers \ {r} : caller'[q] = caller[q] /\ shown'[q] = shown[q]
      /\ caller'[r].pc = "take"
  BY <1>1, PageMoved
<1>3. /\ caller[r].answer \in Thm!Row /\ caller[r].stamp.newest \in Thm!Stamp
      /\ \A p \in Thm!Served : rows[p] \in Thm!Row
  BY <1>1, PageNumbers, ThmConstants DEF PageCalls, HasStamp
<1>4. /\ theme \in [Thm!Served -> Thm!Row] /\ theme[Thm!Meta] = caller[r].answer
      /\ \A p \in Thm!Served \ {Thm!Meta} : theme[p] = rows[p]
  BY <1>3, ThmConstants
<1> HIDE DEF theme
<1>5. /\ kept' \in [theme : [Thm!Served -> Thm!Row], newestAt : Thm!Stamp]
      /\ kept'.newestAt = caller[r].stamp.newest /\ kept'.theme = theme
  BY <1>1, <1>3, <1>4
<1> QED
  BY <1>2, <1>4, <1>5, ThmConstants

\* The writes: each row stays, goes, or gets the editor's stamp.
LEMMA PageWrites ==
  ASSUME PageTyped, PageCalls, Thm!Write
  PROVE  \/ \E w \in Editors : Thm!TakeStamp(w)
         \/ \E w \in Editors, t \in Thm!Theme :
              /\ Thm!Saved(w, t)
              /\ \A p \in PagePaths : t[p] \in {rows[p], Thm!Absent} \/ t[p].at = saving[w]
         \/ \E t \in Thm!Theme : /\ Thm!Erase(t, Thm!Shown(t))
                                 /\ \A p \in PagePaths : t[p] \in {rows[p], Thm!Absent}
<1>1. /\ rows \in [PagePaths -> Thm!Row] /\ Thm!Theme = [PagePaths -> Thm!Row]
      /\ \A w \in Editors : saving[w] # None => saving[w] \in Thm!Stamp
  BY PageNumbers DEF PageTyped, Thm!Theme, PagePaths
<1>2. ASSUME NEW w \in Editors, NEW t, Thm!Saved(w, t) PROVE saving[w] \in Thm!Stamp
  BY <1>1, <1>2 DEF Thm!Saved, Thm!Commit
<1>3. ASSUME NEW w \in Editors, NEW p \in PagePaths, NEW ok \in BOOLEAN,
             Thm!Saved(w, [rows EXCEPT ![p] = [at |-> saving[w], ok |-> ok]])
      PROVE  \E t \in Thm!Theme :
               /\ Thm!Saved(w, t)
               /\ \A x \in PagePaths : t[x] \in {rows[x], Thm!Absent} \/ t[x].at = saving[w]
  <2>1. PICK row : row = [at |-> saving[w], ok |-> ok]
    OBVIOUS
  <2>2. row \in Thm!Row /\ row.at = saving[w]
    BY <1>2, <1>3, <2>1 DEF Thm!Row
  <2>3. PICK t : t = [rows EXCEPT ![p] = row]
    OBVIOUS
  <2>4. Thm!Saved(w, t)
    BY <1>3, <2>1, <2>3
  <2>5. t \in [PagePaths -> Thm!Row] /\ \A x \in PagePaths : t[x] = IF x = p THEN row ELSE rows[x]
    BY <1>1, <2>2, <2>3
  <2> QED
    BY <1>1, <2>2, <2>4, <2>5
<1>4. ASSUME NEW w \in Editors, NEW shipped \in SUBSET Thm!Files, Thm!ImportTheme(w, shipped)
      PROVE  \E t \in Thm!Theme :
               /\ Thm!Saved(w, t)
               /\ \A x \in PagePaths : t[x] \in {rows[x], Thm!Absent} \/ t[x].at = saving[w]
  <2>1. PICK row : row = [at |-> saving[w], ok |-> TRUE]
    OBVIOUS
  <2>2. PICK t : /\ t = [p \in PagePaths |-> IF p = Thm!Meta \/ p \in shipped THEN row ELSE Thm!Absent]
                 /\ Thm!Saved(w, t)
    BY <1>4, <2>1 DEF Thm!ImportTheme, PagePaths
  <2>3. row \in Thm!Row /\ row.at = saving[w]
    BY <1>2, <2>1, <2>2 DEF Thm!Row
  <2>4. t \in [PagePaths -> Thm!Row] /\ \A x \in PagePaths : t[x] = Thm!Absent \/ t[x] = row
    BY <2>2, <2>3, ThmConstants
  <2> QED
    BY <1>1, <2>2, <2>3, <2>4
<1>5. ASSUME NEW path \in Thm!Files, Thm!DeleteFile(path)
      PROVE  \E t \in Thm!Theme : /\ Thm!Erase(t, Thm!Shown(t))
                                  /\ \A x \in PagePaths : t[x] \in {rows[x], Thm!Absent}
  <2>1. PICK t : t = [rows EXCEPT ![path] = Thm!Absent] /\ Thm!Erase(t, Thm!Shown(t))
    BY <1>5 DEF Thm!DeleteFile
  <2>2. t \in Thm!Theme /\ \A x \in PagePaths : t[x] \in {rows[x], Thm!Absent}
    BY <1>1, <2>1, ThmConstants
  <2> QED
    BY <2>1, <2>2
<1>6. ASSUME NEW w \in Editors,
             Thm!UpsertMeta(w) \/ \E p \in Thm!Files, ok \in BOOLEAN : Thm!PutFile(w, p, ok)
      PROVE  \E t \in Thm!Theme :
               /\ Thm!Saved(w, t)
               /\ \A x \in PagePaths : t[x] \in {rows[x], Thm!Absent} \/ t[x].at = saving[w]
  <2>1. PICK p \in PagePaths, ok \in BOOLEAN :
          Thm!Saved(w, [rows EXCEPT ![p] = [at |-> saving[w], ok |-> ok]])
    BY <1>6, ThmConstants DEF Thm!UpsertMeta, Thm!PutFile
  <2> QED
    BY <1>3, <2>1
<1>7. CASE \E w \in Editors : Thm!TakeStamp(w) \/ Thm!UpsertMeta(w)
  BY <1>6, <1>7
<1>8. CASE \E w \in Editors, p \in Thm!Files, ok \in BOOLEAN : Thm!PutFile(w, p, ok)
  BY <1>6, <1>8
<1>9. CASE \E w \in Editors, shipped \in SUBSET Thm!Files : Thm!ImportTheme(w, shipped)
  BY <1>4, <1>9
<1>10. CASE \E p \in Thm!Files : Thm!DeleteFile(p)
  BY <1>5, <1>10
<1> QED
  BY <1>7, <1>8, <1>9, <1>10 DEF Thm!Write

\* The type and the mutex, which need nothing else.
LEMMA PageTypedNext ==
  ASSUME PageTyped, PageCalls, Thm!Next \/ UNCHANGED othervars
  PROVE  PageTyped' /\ PageCalls'
<1>0. \A r \in Readers : caller[r] \in PageState
  BY DEF PageTyped
<1>1. ASSUME NEW w \in Editors, Thm!TakeStamp(w) PROVE PageTyped' /\ PageCalls'
  <2>1. /\ clock < MaxStamp /\ clock' = clock + 1
        /\ saving' = [saving EXCEPT ![w] = clock + 1]
        /\ UNCHANGED <<rows, kept, mutex, caller, shown>>
    BY <1>1 DEF Thm!TakeStamp
  <2>2. clock + 1 \in Thm!Stamp
    BY <2>1, PageNumbers, ThmConstants DEF Thm!Stamp
  <2>3. saving' \in [Editors -> Thm!Stamp \cup {None}]
    BY <2>1, <2>2 DEF PageTyped
  <2> QED
    BY <2>1, <2>2, <2>3 DEF PageTyped, PageCalls
<1>2. ASSUME NEW t \in Thm!Theme, Thm!Becomes(t, Thm!Shown(t)),
             saving' \in [Editors -> Thm!Stamp \cup {None}]
      PROVE  PageTyped' /\ PageCalls'
  <2>1. rows' = t /\ UNCHANGED <<clock, kept, mutex, caller>>
    BY <1>2 DEF Thm!Becomes
  <2>2. shown' = [r \in Readers |-> [p \in Thm!Served |->
          IF Thm!Calling(r) THEN shown[r][p] \cup {t[p]} ELSE shown[r][p]]]
    BY <1>2 DEF Thm!Becomes, Thm!Shown
  <2>3. \A p \in Thm!Served : t[p] \in Thm!Row
    BY ThmConstants DEF Thm!Theme, PagePaths
  <2>4. shown' \in [Readers -> [Thm!Served -> SUBSET Thm!Row]]
    BY <2>2, <2>3 DEF PageTyped
  <2> QED
    BY <1>2, <2>1, <2>4 DEF PageTyped, PageCalls
<1>3. CASE Thm!Write
  <2>1. ASSUME NEW w \in Editors, NEW t \in Thm!Theme, Thm!Saved(w, t) PROVE PageTyped' /\ PageCalls'
    <3>1. saving' \in [Editors -> Thm!Stamp \cup {None}]
      BY <2>1 DEF Thm!Saved, Thm!Commit, PageTyped
    <3> QED
      BY <1>2, <2>1, <3>1 DEF Thm!Saved, Thm!Commit
  <2>2. ASSUME NEW t \in Thm!Theme, Thm!Erase(t, Thm!Shown(t)) PROVE PageTyped' /\ PageCalls'
    BY <1>2, <2>2 DEF Thm!Erase, PageTyped
  <2> QED
    BY <1>1, <1>3, <2>1, <2>2, PageWrites
\* A step of one call.
<1>4. ASSUME NEW r \in Readers, UNCHANGED <<clock, saving, rows>>,
             caller' \in [Readers -> PageState],
             shown' \in [Readers -> [Thm!Served -> SUBSET Thm!Row]],
             \A q \in Readers \ {r} : caller'[q] = caller[q],
             mutex' \in {mutex, r, None}, mutex' # mutex => mutex \in {r, None},
             Loads(caller'[r]) <=> mutex' = r,
             kept' \in {kept} \cup [theme : [Thm!Served -> Thm!Row], newestAt : Thm!Stamp],
             HasStamp(caller'[r]) => caller'[r].stamp \in PageStamp,
             caller'[r].pc = "files" => caller'[r].answer \in Thm!Row,
             caller'[r].pc = "take" => kept' # None,
             caller'[r].pc = "done" => caller'[r].answer \in [Thm!Served -> Thm!Row] \cup {None}
      PROVE  PageTyped' /\ PageCalls'
  <2>1. kept # None => kept' # None
    BY <1>4, ThmConstants
  <2>2. PageTyped'
    <3>1. mutex' \in Readers \cup {None}
      BY <1>4 DEF PageTyped
    <3>2. kept' = None \/ kept' \in [theme : [Thm!Served -> Thm!Row], newestAt : Thm!Stamp]
      BY <1>4 DEF PageTyped
    <3> QED
      BY <1>4, <3>1, <3>2 DEF PageTyped
  <2>3. ASSUME NEW q \in Readers \ {r} PROVE Loads(caller'[q]) <=> mutex' = q
    <3>1. Loads(caller[q]) <=> mutex = q
      BY DEF PageCalls
    <3> QED
      BY <1>4, <3>1, ThmConstants
  <2>4. ASSUME NEW q \in Readers
        PROVE  /\ HasStamp(caller'[q]) => caller'[q].stamp \in PageStamp
               /\ Loads(caller'[q]) <=> mutex' = q
               /\ caller'[q].pc = "files" => caller'[q].answer \in Thm!Row
               /\ caller'[q].pc = "take" => kept' # None
               /\ caller'[q].pc = "done" =>
                    caller'[q].answer \in [Thm!Served -> Thm!Row] \cup {None}
    <3>1. CASE q = r
      BY <1>4, <3>1
    <3>2. CASE q # r
      BY <1>4, <2>1, <2>3, <3>2 DEF PageCalls
    <3> QED
      BY <3>1, <3>2
  <2> QED
    BY <2>2, <2>4 DEF PageCalls
<1>5. ASSUME NEW r \in Readers, Thm!Query(r) PROVE PageTyped' /\ PageCalls'
  <2>1. PICK s \in Thm!Stamp, n \in Nat :
          /\ ~Thm!Calling(r)
          /\ caller' = [caller EXCEPT ![r] =
               [pc |-> "queried", stamp |-> [newest |-> s, count |-> n], answer |-> None]]
          /\ shown' = [shown EXCEPT ![r] = [p \in Thm!Served |-> {rows[p]}]]
          /\ UNCHANGED <<clock, saving, rows, kept, mutex>>
    BY <1>5, PageQueries
  <2>2. [pc |-> "queried", stamp |-> [newest |-> s, count |-> n], answer |-> None] \in PageState
    BY DEF PageState, PageStamp
  <2>3. /\ caller' \in [Readers -> PageState] /\ \A q \in Readers \ {r} : caller'[q] = caller[q]
        /\ caller'[r].pc = "queried" /\ caller'[r].stamp = [newest |-> s, count |-> n]
    BY <2>1, <2>2 DEF PageTyped
  <2>4. \A p \in Thm!Served : rows[p] \in Thm!Row
    BY PageNumbers, ThmConstants
  <2>5. shown' \in [Readers -> [Thm!Served -> SUBSET Thm!Row]]
    BY <2>1, <2>4 DEF PageTyped
  <2>6. caller'[r].stamp \in PageStamp /\ ~Loads(caller'[r]) /\ mutex' # r
    BY <2>1, <2>3 DEF PageStamp, PageCalls, Loads, Thm!Calling
  <2> QED
    BY <1>4, <2>1, <2>3, <2>5, <2>6
<1>6. ASSUME NEW r \in Readers, Thm!Keeps(r) PROVE PageTyped' /\ PageCalls'
  <2>1. /\ mutex = None /\ kept # None
        /\ Thm!Moved(r, "take") /\ UNCHANGED <<clock, saving, rows, kept, mutex>>
    BY <1>6 DEF Thm!Keeps, Thm!Current
  <2> QED
    BY <1>4, <2>1, PageMoved, ThmConstants DEF HasStamp, Loads, PageTyped
<1>7. ASSUME NEW r \in Readers, Thm!Locks(r) PROVE PageTyped' /\ PageCalls'
  <2>1. /\ caller[r].pc = "queried" /\ mutex = None /\ mutex' = r
        /\ Thm!Moved(r, "meta") /\ UNCHANGED <<clock, saving, rows, kept>>
    BY <1>7 DEF Thm!Locks
  <2>2. caller[r].stamp \in PageStamp
    BY <2>1 DEF PageCalls, HasStamp
  <2> QED
    BY <1>4, <2>1, <2>2, PageMoved DEF Loads, PageTyped
<1>8. ASSUME NEW r \in Readers, mutex = r, mutex' = None, Thm!Returned(r, None),
             UNCHANGED <<clock, saving, rows, kept>>
      PROVE  PageTyped' /\ PageCalls'
  BY <1>4, <1>8, PageReturned, ThmConstants DEF HasStamp, Loads
<1>9. ASSUME NEW r \in Readers, Thm!LoadMeta(r) PROVE PageTyped' /\ PageCalls'
  <2>1. /\ caller[r].pc = "meta" /\ UNCHANGED <<clock, saving, rows, kept>>
        /\ mutex = r /\ caller[r].stamp \in PageStamp
    BY <1>9 DEF Thm!LoadMeta, PageCalls, Loads, HasStamp
  <2>2. CASE rows[Thm!Meta] = Thm!Absent
    BY <1>8, <1>9, <2>1, <2>2 DEF Thm!LoadMeta, Thm!Unlock
  <2>3. CASE rows[Thm!Meta] # Thm!Absent
    <3>1. /\ caller' = [caller EXCEPT ![r].pc = "files", ![r].answer = rows[Thm!Meta]]
          /\ UNCHANGED <<mutex, shown>>
      BY <1>9, <2>3 DEF Thm!LoadMeta
    <3>2. rows[Thm!Meta] \in Thm!Row
      BY PageNumbers, ThmConstants
    <3>3. /\ caller' \in [Readers -> PageState] /\ \A q \in Readers \ {r} : caller'[q] = caller[q]
          /\ caller'[r].pc = "files" /\ caller'[r].answer = rows[Thm!Meta]
          /\ caller'[r].stamp = caller[r].stamp
      BY <3>1, <3>2 DEF PageTyped, PageState
    <3> QED
      BY <1>4, <2>1, <3>1, <3>2, <3>3 DEF Loads, PageTyped
  <2> QED
    BY <2>2, <2>3
<1>10. ASSUME NEW r \in Readers, Thm!LoadFiles(r) PROVE PageTyped' /\ PageCalls'
  <2>1. /\ caller[r].pc = "files" /\ UNCHANGED <<clock, saving, rows>>
        /\ mutex = r /\ mutex' = None
    BY <1>10 DEF Thm!LoadFiles, Thm!Unlock, PageCalls, Loads
  <2>2. CASE ~Thm!Parses
    BY <1>8, <1>10, <2>1, <2>2 DEF Thm!LoadFiles
  <2>3. CASE Thm!Parses
    BY <1>4, <1>10, <2>1, <2>3, PageReloads, ThmConstants DEF HasStamp, Loads, PageTyped
  <2> QED
    BY <2>2, <2>3
<1>11. ASSUME NEW r \in Readers, Thm!Take(r) PROVE PageTyped' /\ PageCalls'
  <2>1. /\ caller[r].pc = "take" /\ mutex = None /\ Thm!Returned(r, kept.theme)
        /\ UNCHANGED <<clock, saving, rows, kept, mutex>>
    BY <1>11 DEF Thm!Take
  <2>2. kept.theme \in [Thm!Served -> Thm!Row]
    BY <2>1, PageNumbers DEF PageCalls
  <2> QED
    BY <1>4, <2>1, <2>2, PageReturned, ThmConstants DEF HasStamp, Loads
<1>12. CASE UNCHANGED othervars
  BY <1>12 DEF othervars, PageTyped, PageCalls
<1> QED
  BY <1>3, <1>5, <1>6, <1>7, <1>9, <1>10, <1>11, <1>12 DEF Thm!Next

\* An editor takes its stamp.
LEMMA PageStamped ==
  ASSUME PageInv, PageTyped', PageCalls', NEW w \in Editors, Thm!TakeStamp(w)
  PROVE  PageInv'
<1>1. PageTyped /\ PageCalls /\ PageAhead /\ PageKept /\ PageWatched
  BY DEF PageInv
<1>2. /\ clock' = clock + 1 /\ saving' = [saving EXCEPT ![w] = clock + 1]
      /\ UNCHANGED <<rows, kept, mutex, caller, shown>>
  BY DEF Thm!TakeStamp
<1>3. \A u \in Editors : saving'[u] = IF u = w THEN clock + 1 ELSE saving[u]
  BY <1>1, <1>2 DEF PageTyped
<1>4. /\ clock \in Nat /\ \A p \in PagePaths : rows[p].at \in Nat
      /\ kept # None => kept.newestAt \in Nat
      /\ \A r \in Readers : HasStamp(caller[r]) => caller[r].stamp.newest \in Nat
      /\ \A u \in Editors : saving[u] # None => saving[u] \in Nat /\ saving[u] <= clock
  BY <1>1, PageNumbers DEF PageAhead
<1>5. LaterThanAll(clock + 1)
  BY <1>1 DEF PageAhead
<1>6. \A n \in Nat : n < clock + 1 => n < clock + 1 + 1
  BY <1>4
<1>7. LaterThanAll(clock + 1 + 1)
  BY <1>4, <1>5, <1>6 DEF LaterThanAll
<1>8. ASSUME NEW n, LaterThanAll(n) PROVE LaterThanAll(n)'
  BY <1>2, <1>8 DEF LaterThanAll
<1>9. ASSUME NEW u \in Editors, saving'[u] # None
      PROVE  /\ LaterThanAll(saving[u])' /\ saving'[u] <= clock'
             /\ \A v \in Editors \ {u} : saving'[v] # saving'[u]
  <2>1. CASE u = w
    <3>1. LaterThanAll(saving[u])' /\ saving'[u] <= clock'
      BY <1>2, <1>3, <1>4, <1>5, <1>8, <2>1
    <3>2. \A v \in Editors \ {u} : saving'[v] # saving'[u]
      BY <1>3, <1>4, <2>1, ThmConstants
    <3> QED
      BY <3>1, <3>2
  <2>2. CASE u # w
    <3>1. /\ LaterThanAll(saving[u]) /\ saving'[u] = saving[u] /\ saving[u] # None
          /\ \A v \in Editors \ {u} : saving[v] # saving[u]
      BY <1>1, <1>3, <1>9, <2>2 DEF PageAhead
    <3>2. \A v \in Editors \ {u} : saving'[v] # saving'[u]
      BY <1>3, <1>4, <3>1
    <3>3. LaterThanAll(saving[u])' /\ saving'[u] <= clock'
      BY <1>2, <1>4, <1>8, <3>1
    <3> QED
      BY <3>2, <3>3
  <2> QED
    BY <2>1, <2>2
<1>10. PageAhead'
  BY <1>2, <1>7, <1>8, <1>9 DEF PageAhead
<1>11. PageKept' /\ PageWatched'
  BY <1>1, <1>2 DEF PageKept, PageWatched, Thm!Calling
<1> QED
  BY <1>10, <1>11 DEF PageInv

\* A write commits, with or without a stamp.
LEMMA PageChanged ==
  ASSUME PageInv, PageTyped', PageCalls', NEW t \in Thm!Theme, Thm!Becomes(t, Thm!Shown(t)),
         \A w \in Editors : saving'[w] # None =>
           /\ saving'[w] = saving[w]
           /\ \A p \in PagePaths : t[p] \in {rows[p], Thm!Absent} \/ t[p].at < saving[w],
         \A p \in PagePaths : t[p] \in {rows[p], Thm!Absent}
           \/ \E w \in Editors : saving[w] # None /\ t[p].at = saving[w]
  PROVE  PageInv'
<1>1. PageTyped /\ PageCalls /\ PageAhead /\ PageKept /\ PageWatched
  BY DEF PageInv
<1>2. rows' = t /\ UNCHANGED <<clock, kept, mutex, caller>>
  BY DEF Thm!Becomes
<1>3. shown' = [r \in Readers |-> [p \in Thm!Served |->
        IF Thm!Calling(r) THEN shown[r][p] \cup {t[p]} ELSE shown[r][p]]]
  BY DEF Thm!Becomes, Thm!Shown
<1>4. /\ clock \in Nat /\ \A p \in PagePaths : rows[p].at \in Nat /\ t[p] \in Thm!Row
      /\ kept # None => kept.newestAt \in Nat
      /\ \A w \in Editors : saving[w] # None => saving[w] \in Nat
      /\ \A r \in Readers : HasStamp(caller[r]) => caller[r].stamp.newest \in Nat
  BY <1>1, PageNumbers DEF Thm!Theme, PagePaths
<1>7. LaterThanAll(clock + 1)'
  <2>1. \A w \in Editors : saving[w] # None => saving[w] < clock + 1
    BY <1>1, <1>4 DEF PageAhead
  <2>2. \A p \in PagePaths : t[p].at < clock + 1
    BY <1>1, <2>1, ThmConstants DEF PageAhead, LaterThanAll
  <2> QED
    BY <1>1, <1>2, <2>2 DEF PageAhead, LaterThanAll
<1>8. ASSUME NEW w \in Editors, saving'[w] # None
      PROVE  /\ LaterThanAll(saving[w])' /\ saving'[w] <= clock
             /\ \A v \in Editors \ {w} : saving'[v] # saving'[w]
  <2>1. /\ LaterThanAll(saving[w]) /\ saving'[w] = saving[w] /\ saving[w] <= clock
        /\ \A v \in Editors \ {w} : saving[v] # saving[w]
        /\ \A p \in PagePaths : t[p] \in {rows[p], Thm!Absent} \/ t[p].at < saving[w]
    BY <1>1, <1>8 DEF PageAhead
  <2>2. \A p \in PagePaths : t[p].at < saving[w]
    BY <2>1, ThmConstants DEF LaterThanAll
  <2>3. \A v \in Editors \ {w} : saving'[v] # saving'[w]
    BY <1>8, <2>1
  <2> QED
    BY <1>2, <2>1, <2>2, <2>3 DEF LaterThanAll
<1>9. PageAhead'
  BY <1>2, <1>7, <1>8 DEF PageAhead
<1>10. ASSUME NEW p \in PagePaths, NEW row, NEW n, Since(rows[p], row, n),
              \A w \in Editors : saving[w] # None => n < saving[w]
       PROVE  Since(t[p], row, n)
  <2>1. CASE t[p] \in {rows[p], Thm!Absent}
    BY <1>10, <2>1 DEF Since
  <2>2. CASE \E w \in Editors : saving[w] # None /\ t[p].at = saving[w]
    BY <1>10, <2>2 DEF Since
  <2> QED
    BY <2>1, <2>2
<1>11. PageKept'
  <2>1. ASSUME kept # None, NEW p \in Thm!Served
        PROVE  Since(t[p], kept.theme[p], kept.newestAt)
    <3>1. Since(rows[p], kept.theme[p], kept.newestAt) /\ p \in PagePaths
      BY <1>1, <2>1, ThmConstants DEF PageKept
    <3>2. \A w \in Editors : saving[w] # None => kept.newestAt < saving[w]
      BY <1>1, <2>1 DEF PageAhead, LaterThanAll
    <3> QED
      BY <1>10, <3>1, <3>2
  <2>2. ASSUME NEW r \in Readers, caller[r].pc = "files"
        PROVE  Since(t[Thm!Meta], caller[r].answer, caller[r].stamp.newest)
    <3>1. Since(rows[Thm!Meta], caller[r].answer, caller[r].stamp.newest) /\ Thm!Meta \in PagePaths
      BY <1>1, <2>2, ThmConstants DEF PageKept
    <3>2. \A w \in Editors : saving[w] # None => caller[r].stamp.newest < saving[w]
      BY <1>1, <2>2 DEF PageAhead, LaterThanAll, HasStamp
    <3> QED
      BY <1>10, <3>1, <3>2
  <2> QED
    BY <1>2, <2>1, <2>2 DEF PageKept
<1>12. PageWatched'
  <2>1. \A r \in Readers : Thm!Calling(r) =>
          \A p \in Thm!Served : shown'[r][p] = shown[r][p] \cup {t[p]}
    BY <1>3
  <2>2. \A r \in Readers : Thm!Calling(r)' <=> Thm!Calling(r)
    BY <1>2 DEF Thm!Calling
  <2> SUFFICES ASSUME NEW r \in Readers, Thm!Calling(r)
               PROVE  /\ \A p \in Thm!Served : t[p] \in shown'[r][p]
                      /\ kept # None /\ Awaits(caller[r], kept.newestAt) =>
                           \A p \in Thm!Served : Servable(shown'[r][p], kept.theme[p])
                      /\ \A q \in Readers :
                           caller[q].pc = "files"
                             /\ (q = r \/ Awaits(caller[r], caller[q].stamp.newest)) =>
                           Servable(shown'[r][Thm!Meta], caller[q].answer)
    BY <1>2, <2>2 DEF PageWatched
  <2>3. \A p \in Thm!Served : t[p] \in shown'[r][p]
    BY <2>1
  <2>4. kept # None /\ Awaits(caller[r], kept.newestAt) =>
          \A p \in Thm!Served : Servable(shown'[r][p], kept.theme[p])
    <3>1. kept # None /\ Awaits(caller[r], kept.newestAt) =>
            \A p \in Thm!Served : Servable(shown[r][p], kept.theme[p])
      BY <1>1 DEF PageWatched
    <3> QED
      BY <2>1, <3>1 DEF Servable
  <2>5. ASSUME NEW q \in Readers, caller[q].pc = "files",
               q = r \/ Awaits(caller[r], caller[q].stamp.newest)
        PROVE  Servable(shown'[r][Thm!Meta], caller[q].answer)
    <3>1. Servable(shown[r][Thm!Meta], caller[q].answer)
      BY <1>1, <2>5 DEF PageWatched
    <3> QED
      BY <2>1, <3>1, ThmConstants DEF Servable
  <2> QED
    BY <2>3, <2>4, <2>5
<1> QED
  BY <1>9, <1>11, <1>12 DEF PageInv

LEMMA PageWritten ==
  ASSUME PageInv, PageTyped', PageCalls', Thm!Write, ~Overtakes
  PROVE  PageInv'
<1>1. /\ PageTyped /\ PageCalls
      /\ \A u \in Editors : saving[u] # None =>
           saving[u] \in Nat /\ \A v \in Editors \ {u} : saving[v] # saving[u]
  BY PageNumbers DEF PageInv, PageAhead
<1>2. ASSUME NEW w \in Editors, NEW t \in Thm!Theme, Thm!Saved(w, t),
             \A p \in PagePaths : t[p] \in {rows[p], Thm!Absent} \/ t[p].at = saving[w]
      PROVE  PageInv'
  <2>1. /\ saving[w] # None /\ saving' = [saving EXCEPT ![w] = None]
        /\ Thm!Becomes(t, Thm!Shown(t))
    BY <1>2 DEF Thm!Saved, Thm!Commit
  <2>2. \A u \in Editors : saving'[u] = IF u = w THEN None ELSE saving[u]
    BY <1>1, <2>1 DEF PageTyped
  <2>3. ASSUME NEW u \in Editors, saving'[u] # None
        PROVE  saving'[u] = saving[u] /\ saving[w] < saving[u]
    <3>1. u # w /\ saving'[u] = saving[u]
      BY <2>2, <2>3
    <3>2. ~(saving[u] < saving[w])
      BY <2>1, <2>2, <2>3, <3>1 DEF Overtakes
    <3> QED
      BY <1>1, <2>1, <2>3, <3>1, <3>2
  <2>4. \A u \in Editors : saving'[u] # None =>
          /\ saving'[u] = saving[u]
          /\ \A p \in PagePaths : t[p] \in {rows[p], Thm!Absent} \/ t[p].at < saving[u]
    BY <1>2, <2>3
  <2>5. \A p \in PagePaths : t[p] \in {rows[p], Thm!Absent}
          \/ \E u \in Editors : saving[u] # None /\ t[p].at = saving[u]
    BY <1>2, <2>1
  <2> QED
    BY <2>1, <2>4, <2>5, PageChanged
<1>3. ASSUME NEW t \in Thm!Theme, Thm!Erase(t, Thm!Shown(t)),
             \A p \in PagePaths : t[p] \in {rows[p], Thm!Absent}
      PROVE  PageInv'
  BY <1>3, PageChanged DEF Thm!Erase
<1> QED
  BY <1>1, <1>2, <1>3, PageWrites, PageStamped

\* What a step of r leaves to the other calls, and what it must see to itself.
LEMMA PageOthers ==
  ASSUME PageInv, PageTyped', PageCalls', NEW r \in Readers,
         UNCHANGED <<clock, saving, rows>>,
         \A q \in Readers \ {r} : caller'[q] = caller[q] /\ shown'[q] = shown[q],
         \/ kept' = kept
         \/ /\ caller[r].pc = "files"
            /\ kept' # None /\ kept'.newestAt = caller[r].stamp.newest
            /\ kept'.theme[Thm!Meta] = caller[r].answer
            /\ \A p \in Thm!Served \ {Thm!Meta} : kept'.theme[p] = rows[p],
         HasStamp(caller'[r]) => \A n : LaterThanAll(n) => caller'[r].stamp.newest < n,
         caller'[r].pc = "files" =>
           caller'[r].answer = rows[Thm!Meta] /\ rows[Thm!Meta] \in shown'[r][Thm!Meta],
         caller'[r].pc = "take" => mutex = r \/ mutex = None,
         Thm!Calling(r)' => \A p \in Thm!Served : rows[p] \in shown'[r][p],
         Awaits(caller'[r], kept'.newestAt) /\ kept' # None =>
           \A p \in Thm!Served : Servable(shown'[r][p], kept'.theme[p]),
         \A q \in Readers \ {r} :
           caller[q].pc = "files" /\ caller'[r].pc = "queried"
             /\ caller'[r].stamp.newest = caller[q].stamp.newest =>
           Servable(shown'[r][Thm!Meta], caller[q].answer)
  PROVE  PageInv'
<1>1. PageTyped /\ PageCalls /\ PageAhead /\ PageKept /\ PageWatched
  BY DEF PageInv
<1>2. kept' # kept => kept' # None /\ caller[r].pc = "files" /\ HasStamp(caller[r])
  BY DEF HasStamp
<1>6. ASSUME NEW n, LaterThanAll(n) PROVE LaterThanAll(n)'
  <2>1. kept' # None => kept'.newestAt < n
    BY <1>2, <1>6 DEF LaterThanAll
  <2>2. \A q \in Readers : HasStamp(caller'[q]) => caller'[q].stamp.newest < n
    BY <1>6 DEF LaterThanAll
  <2> QED
    BY <1>6, <2>1, <2>2 DEF LaterThanAll
<1>7. PageAhead'
  BY <1>1, <1>6 DEF PageAhead
<1>8. PageKept'
  <2>1. ASSUME kept' # None, NEW p \in Thm!Served
        PROVE  Since(rows[p], kept'.theme[p], kept'.newestAt)
    <3>1. CASE kept' = kept
      BY <1>1, <2>1, <3>1 DEF PageKept
    <3>2. CASE kept' # kept /\ p # Thm!Meta
      BY <2>1, <3>2 DEF Since
    <3>3. CASE kept' # kept /\ p = Thm!Meta
      BY <1>1, <1>2, <3>3 DEF PageKept
    <3> QED
      BY <3>1, <3>2, <3>3
  <2>2. ASSUME NEW q \in Readers, caller'[q].pc = "files"
        PROVE  Since(rows[Thm!Meta], caller'[q].answer, caller'[q].stamp.newest)
    <3>1. CASE q = r
      BY <2>2, <3>1 DEF Since
    <3>2. CASE q # r
      BY <1>1, <2>2, <3>2 DEF PageKept
    <3> QED
      BY <3>1, <3>2
  <2> QED
    BY <2>1, <2>2 DEF PageKept
<1>9. PageWatched'
  <2>1. \A q \in Readers \ {r} : Thm!Calling(q)' <=> Thm!Calling(q)
    BY DEF Thm!Calling
  <2>2. \A q \in Readers : caller[q].pc = "files" => mutex = q
    BY <1>1 DEF PageCalls, Loads
  <2>3. ASSUME NEW q \in Readers \ {r}, Thm!Calling(q)
        PROVE  /\ \A p \in Thm!Served : rows[p] \in shown[q][p]
               /\ kept' # None /\ Awaits(caller[q], kept'.newestAt) =>
                    \A p \in Thm!Served : Servable(shown[q][p], kept'.theme[p])
               /\ \A u \in Readers :
                    caller'[u].pc = "files"
                      /\ (u = q \/ Awaits(caller[q], caller'[u].stamp.newest)) =>
                    Servable(shown[q][Thm!Meta], caller'[u].answer)
    <3>1. \A p \in Thm!Served : rows[p] \in shown[q][p]
      BY <1>1, <2>3 DEF PageWatched
    <3>2. ASSUME kept' # None, Awaits(caller[q], kept'.newestAt), NEW p \in Thm!Served
          PROVE  Servable(shown[q][p], kept'.theme[p])
      <4>1. CASE kept' = kept
        BY <1>1, <2>3, <3>2, <4>1 DEF PageWatched
      <4>2. CASE kept' # kept /\ p # Thm!Meta
        BY <3>1, <4>2 DEF Servable
      <4>3. CASE kept' # kept /\ p = Thm!Meta
        <5>1. caller[r].pc = "files" /\ Awaits(caller[q], caller[r].stamp.newest)
          BY <1>2, <3>2, <4>3
        <5>2. Servable(shown[q][Thm!Meta], caller[r].answer)
          BY <1>1, <2>3, <5>1 DEF PageWatched
        <5> QED
          BY <4>3, <5>2
      <4> QED
        BY <4>1, <4>2, <4>3
    <3>3. ASSUME NEW u \in Readers, caller'[u].pc = "files",
                 u = q \/ Awaits(caller[q], caller'[u].stamp.newest)
          PROVE  Servable(shown[q][Thm!Meta], caller'[u].answer)
      <4>1. CASE u = r
        BY <3>1, <3>3, <4>1, ThmConstants DEF Servable
      <4>2. CASE u # r
        BY <1>1, <2>3, <3>3, <4>2 DEF PageWatched
      <4> QED
        BY <4>1, <4>2
    <3> QED
      BY <3>1, <3>2, <3>3
  <2>4. ASSUME Thm!Calling(r)', NEW u \in Readers, caller'[u].pc = "files",
               u = r \/ Awaits(caller'[r], caller'[u].stamp.newest)
        PROVE  Servable(shown'[r][Thm!Meta], caller'[u].answer)
    <3>1. CASE u = r
      BY <2>4, <3>1 DEF Servable
    <3>2. CASE u # r
      <4>1. caller[u].pc = "files" /\ mutex = u
        BY <2>2, <2>4, <3>2
      <4>2. caller'[r].pc # "take"
        BY <3>2, <4>1, ThmConstants
      <4> QED
        BY <2>4, <3>2, <4>1, <4>2 DEF Awaits
    <3> QED
      BY <3>1, <3>2
  <2>5. ASSUME NEW q \in Readers, Thm!Calling(q)'
        PROVE  /\ \A p \in Thm!Served : rows[p] \in shown'[q][p]
               /\ kept' # None /\ Awaits(caller'[q], kept'.newestAt) =>
                    \A p \in Thm!Served : Servable(shown'[q][p], kept'.theme[p])
               /\ \A u \in Readers :
                    caller'[u].pc = "files"
                      /\ (u = q \/ Awaits(caller'[q], caller'[u].stamp.newest)) =>
                    Servable(shown'[q][Thm!Meta], caller'[u].answer)
    <3>1. CASE q = r
      BY <2>4, <2>5, <3>1
    <3>2. CASE q # r
      BY <2>1, <2>3, <2>5, <3>2
    <3> QED
      BY <3>1, <3>2
  <2> QED
    BY <2>5 DEF PageWatched
<1> QED
  BY <1>7, <1>8, <1>9 DEF PageInv

LEMMA PageQueried ==
  ASSUME PageInv, PageTyped', PageCalls', NEW r \in Readers, Thm!Query(r)
  PROVE  PageInv'
<1>1. PageTyped /\ PageCalls /\ PageAhead /\ PageKept
  BY DEF PageInv
<1>2. PICK s \in Thm!Stamp, n \in Nat :
        /\ ~Thm!Calling(r)
        /\ caller' = [caller EXCEPT ![r] =
             [pc |-> "queried", stamp |-> [newest |-> s, count |-> n], answer |-> None]]
        /\ shown' = [shown EXCEPT ![r] = [p \in Thm!Served |-> {rows[p]}]]
        /\ UNCHANGED <<clock, saving, rows, kept, mutex>>
        /\ s \in Thm!Newest(rows)
  BY <1>1, PageQueries
<1>3. /\ s \in Nat /\ \A p \in PagePaths : rows[p].at <= s
      /\ s # 0 => \E p \in PagePaths : rows[p].at = s
  BY <1>2, ThmConstants DEF Thm!Newest, Thm!Stamp, PagePaths
<1>4. /\ caller'[r].pc = "queried" /\ caller'[r].stamp = [newest |-> s, count |-> n]
      /\ \A q \in Readers \ {r} : caller'[q] = caller[q] /\ shown'[q] = shown[q]
      /\ \A p \in Thm!Served : shown'[r][p] = {rows[p]}
  BY <1>1, <1>2 DEF PageTyped
<1>5. caller'[r].stamp.newest = s
  BY <1>4
<1>6. \A p \in PagePaths : rows[p] \in Thm!Row /\ rows[p].at \in Nat
  BY <1>1, PageNumbers
<1>7. \A m : LaterThanAll(m) => s < m
  BY <1>3 DEF LaterThanAll
<1>8. \A p \in PagePaths : \A row : Since(rows[p], row, s) => rows[p] = row \/ rows[p] = Thm!Absent
  BY <1>3, <1>6 DEF Since
<1>9. ASSUME kept # None, kept.newestAt = s, NEW p \in Thm!Served
      PROVE  Servable(shown'[r][p], kept.theme[p])
  <2>1. Since(rows[p], kept.theme[p], s)
    BY <1>1, <1>9 DEF PageKept
  <2>2. rows[p] = kept.theme[p] \/ rows[p] = Thm!Absent
    BY <1>8, <2>1, ThmConstants
  <2> QED
    BY <1>4, <2>2 DEF Servable
<1>10. ASSUME NEW q \in Readers \ {r}, caller[q].pc = "files", caller[q].stamp.newest = s
       PROVE  Servable(shown'[r][Thm!Meta], caller[q].answer)
  <2>1. Since(rows[Thm!Meta], caller[q].answer, s)
    BY <1>1, <1>10 DEF PageKept
  <2>2. rows[Thm!Meta] = caller[q].answer \/ rows[Thm!Meta] = Thm!Absent
    BY <1>8, <2>1, ThmConstants
  <2> QED
    BY <1>4, <2>2, ThmConstants DEF Servable
<1>11. Awaits(caller'[r], kept'.newestAt) /\ kept' # None =>
         \A p \in Thm!Served : Servable(shown'[r][p], kept'.theme[p])
  BY <1>2, <1>4, <1>5, <1>9 DEF Awaits
<1>12. /\ \A m : LaterThanAll(m) => caller'[r].stamp.newest < m
       /\ \A p \in Thm!Served : rows[p] \in shown'[r][p]
       /\ caller'[r].pc \notin {"files", "take"}
  BY <1>4, <1>5, <1>7
<1>13. \A q \in Readers \ {r} :
         caller[q].pc = "files" /\ caller'[r].stamp.newest = caller[q].stamp.newest =>
           Servable(shown'[r][Thm!Meta], caller[q].answer)
  BY <1>5, <1>10
<1> QED
  BY <1>2, <1>4, <1>11, <1>12, <1>13, PageOthers

LEMMA PageKeeps ==
  ASSUME PageInv, PageTyped', PageCalls', NEW r \in Readers, Thm!Keeps(r)
  PROVE  PageInv'
<1>1. PageTyped /\ PageCalls /\ PageWatched
  BY DEF PageInv
<1>2. /\ mutex = None /\ Thm!Current(caller[r].stamp) /\ caller[r].pc = "queried"
      /\ Thm!Moved(r, "take") /\ UNCHANGED <<clock, saving, rows, kept>>
  BY DEF Thm!Keeps
<1>3. /\ shown' = shown /\ caller'[r].pc = "take"
      /\ \A q \in Readers \ {r} : caller'[q] = caller[q] /\ shown'[q] = shown[q]
  BY <1>1, <1>2, PageMoved
<1>4. kept # None /\ Awaits(caller[r], kept.newestAt) /\ Thm!Calling(r)
  BY <1>2 DEF Thm!Current, Awaits, Thm!Calling
<1>5. \A p \in Thm!Served : rows[p] \in shown[r][p] /\ Servable(shown[r][p], kept.theme[p])
  BY <1>1, <1>4 DEF PageWatched
<1> QED
  BY <1>2, <1>3, <1>5, PageOthers DEF HasStamp

LEMMA PageLocks ==
  ASSUME PageInv, PageTyped', PageCalls', NEW r \in Readers, Thm!Locks(r)
  PROVE  PageInv'
<1>1. PageTyped /\ PageWatched
  BY DEF PageInv
<1>2. /\ caller[r].pc = "queried" /\ mutex = None
      /\ Thm!Moved(r, "meta") /\ UNCHANGED <<clock, saving, rows, kept>>
  BY DEF Thm!Locks
<1>3. /\ shown' = shown /\ caller'[r].pc = "meta" /\ caller'[r].stamp = caller[r].stamp
      /\ \A q \in Readers \ {r} : caller'[q] = caller[q] /\ shown'[q] = shown[q]
  BY <1>1, <1>2, PageMoved
<1>4. \A p \in Thm!Served : rows[p] \in shown[r][p]
  BY <1>1, <1>2 DEF PageWatched, Thm!Calling
<1>5. \A n : LaterThanAll(n) => caller'[r].stamp.newest < n
  BY <1>2, <1>3 DEF LaterThanAll, HasStamp
<1>6. ~Awaits(caller'[r], kept'.newestAt)
  BY <1>3 DEF Awaits
<1> QED
  BY <1>2, <1>3, <1>4, <1>5, <1>6, PageOthers

\* A call that fails.
LEMMA PageFailed ==
  ASSUME PageInv, PageTyped', PageCalls', NEW r \in Readers, Thm!Returned(r, None),
         UNCHANGED <<clock, saving, rows, kept>>
  PROVE  PageInv'
<1>1. /\ \A q \in Readers \ {r} : caller'[q] = caller[q] /\ shown'[q] = shown[q]
      /\ caller'[r].pc = "done"
  BY PageReturned DEF PageInv
<1>2. ~HasStamp(caller'[r]) /\ ~Thm!Calling(r)' /\ ~Awaits(caller'[r], kept'.newestAt)
  BY <1>1 DEF HasStamp, Thm!Calling, Awaits
<1> QED
  BY <1>1, <1>2, PageOthers

LEMMA PageLoadsMeta ==
  ASSUME PageInv, PageTyped', PageCalls', NEW r \in Readers, Thm!LoadMeta(r)
  PROVE  PageInv'
<1>1. PageTyped /\ PageCalls /\ PageWatched
  BY DEF PageInv
<1>2. /\ caller[r].pc = "meta" /\ UNCHANGED <<clock, saving, rows, kept>>
      /\ Thm!Calling(r) /\ HasStamp(caller[r])
  BY DEF Thm!LoadMeta, HasStamp, Thm!Calling
<1>3. CASE rows[Thm!Meta] = Thm!Absent
  BY <1>2, <1>3, PageFailed DEF Thm!LoadMeta
<1>4. CASE rows[Thm!Meta] # Thm!Absent
  <2>1. /\ caller' = [caller EXCEPT ![r].pc = "files", ![r].answer = rows[Thm!Meta]]
        /\ shown' = shown
    BY <1>4 DEF Thm!LoadMeta
  <2>2. /\ \A q \in Readers \ {r} : caller'[q] = caller[q]
        /\ caller'[r].pc = "files" /\ caller'[r].answer = rows[Thm!Meta]
        /\ caller'[r].stamp = caller[r].stamp
    BY <1>1, <2>1 DEF PageTyped, PageState
  <2>3. /\ \A p \in Thm!Served : rows[p] \in shown[r][p]
        /\ rows[Thm!Meta] \in shown[r][Thm!Meta]
    BY <1>1, <1>2, ThmConstants DEF PageWatched
  <2>4. \A n : LaterThanAll(n) => caller'[r].stamp.newest < n
    BY <1>2, <2>2 DEF LaterThanAll
  <2>5. ~Awaits(caller'[r], kept'.newestAt)
    BY <2>2 DEF Awaits
  <2> QED
    BY <1>2, <2>1, <2>2, <2>3, <2>4, <2>5, PageOthers
<1> QED
  BY <1>3, <1>4

LEMMA PageLoadsFiles ==
  ASSUME PageInv, PageTyped', PageCalls', NEW r \in Readers, Thm!LoadFiles(r)
  PROVE  PageInv'
<1>1. PageTyped /\ PageCalls /\ PageWatched
  BY DEF PageInv
<1>2. /\ caller[r].pc = "files" /\ UNCHANGED <<clock, saving, rows>>
      /\ mutex = r /\ Thm!Calling(r)
  BY <1>1 DEF Thm!LoadFiles, PageCalls, Loads, Thm!Calling
<1>3. CASE ~Thm!Parses
  BY <1>2, <1>3, PageFailed DEF Thm!LoadFiles
<1>4. CASE Thm!Parses
  <2>1. /\ shown' = shown /\ caller'[r].pc = "take"
        /\ \A q \in Readers \ {r} : caller'[q] = caller[q] /\ shown'[q] = shown[q]
        /\ kept' # None
        /\ kept'.newestAt = caller[r].stamp.newest /\ kept'.theme[Thm!Meta] = caller[r].answer
        /\ \A p \in Thm!Served \ {Thm!Meta} : kept'.theme[p] = rows[p]
    BY <1>1, <1>4, PageReloads
  <2>2. /\ \A p \in Thm!Served : rows[p] \in shown[r][p]
        /\ Servable(shown[r][Thm!Meta], caller[r].answer)
    BY <1>1, <1>2 DEF PageWatched
  <2>3. \A p \in Thm!Served : Servable(shown'[r][p], kept'.theme[p])
    BY <2>1, <2>2 DEF Servable
  <2>4. ~HasStamp(caller'[r])
    BY <2>1 DEF HasStamp
  <2> QED
    BY <1>2, <2>1, <2>2, <2>3, <2>4, PageOthers
<1> QED
  BY <1>3, <1>4

LEMMA PageTakes ==
  ASSUME PageInv, PageTyped', PageCalls', NEW r \in Readers, Thm!Take(r)
  PROVE  PageInv'
<1>1. PageTyped /\ PageCalls
  BY DEF PageInv
<1>2. /\ caller[r].pc = "take" /\ Thm!Returned(r, kept.theme)
      /\ UNCHANGED <<clock, saving, rows, kept>>
  BY DEF Thm!Take
<1>3. kept.theme \in [Thm!Served -> Thm!Row]
  BY <1>1, <1>2, PageNumbers DEF PageCalls
<1>4. /\ \A q \in Readers \ {r} : caller'[q] = caller[q] /\ shown'[q] = shown[q]
      /\ caller'[r].pc = "done"
  BY <1>1, <1>2, <1>3, PageReturned
<1>5. ~HasStamp(caller'[r]) /\ ~Thm!Calling(r)' /\ ~Awaits(caller'[r], kept'.newestAt)
  BY <1>4 DEF HasStamp, Thm!Calling, Awaits
<1> QED
  BY <1>2, <1>4, <1>5, PageOthers

LEMMA PageInvNext ==
  ASSUME PageInv, Thm!Next \/ UNCHANGED othervars, ~Overtakes
  PROVE  PageInv'
<1>0. PageTyped' /\ PageCalls'
  BY PageTypedNext DEF PageInv
<1>1. CASE Thm!Write
  BY <1>0, <1>1, PageWritten
<1>2. ASSUME NEW r \in Readers,
             Thm!Query(r) \/ Thm!Keeps(r) \/ Thm!Locks(r) \/ Thm!LoadMeta(r)
               \/ Thm!LoadFiles(r) \/ Thm!Take(r)
      PROVE  PageInv'
  BY <1>0, <1>2, PageQueried, PageKeeps, PageLocks, PageLoadsMeta, PageLoadsFiles, PageTakes
<1>3. CASE UNCHANGED othervars
  <2>1. UNCHANGED <<clock, saving, rows, kept, mutex, caller, shown>>
    BY <1>3 DEF othervars
  <2>2. PageKept'
    BY <2>1 DEF PageInv, PageKept
  <2>3. PageAhead'
    BY <2>1 DEF PageInv, PageAhead, LaterThanAll
  <2>4. PageWatched'
    BY <2>1 DEF PageInv, PageWatched, Thm!Calling
  <2> QED
    BY <1>0, <2>2, <2>3, <2>4 DEF PageInv
<1> QED
  BY <1>1, <1>2, <1>3 DEF Thm!Next

LEMMA PageTypeOK ==
  ASSUME PageTyped, PageCalls
  PROVE  Thm!TypeOK
<1>1. ASSUME NEW r \in Readers
      PROVE  /\ caller[r].pc \in {"idle", "queried", "meta", "files", "take", "done"}
             /\ caller[r].pc \in {"meta", "files"} <=> mutex = r
             /\ caller[r].pc = "done" =>
                  caller[r].answer \in [Thm!Served -> Thm!Row] \cup {None}
             /\ shown[r] \in [Thm!Served -> SUBSET Thm!Row]
  BY DEF PageTyped, PageCalls, PageState, Loads
<1> QED
  BY <1>1 DEF Thm!TypeOK, PageTyped
-----------------------------------------------------------------------------
(* The theme is a FreshRead, where a part may outlive its row.             *)

\* What a call is to it.
LEMMA PageAsCall ==
  ASSUME NEW r \in Readers
  PROVE  /\ caller[r].pc = "idle" => Thm!CallOf(r) = "idle"
         /\ Thm!Calling(r) => Thm!CallOf(r) = "waiting"
         /\ caller[r].pc = "done" /\ caller[r].answer = None => Thm!CallOf(r) = "failed"
         /\ caller[r].pc = "done" /\ caller[r].answer # None => Thm!CallOf(r) = "answered"
         /\ Thm!CallOf(r) = "waiting" => Thm!Calling(r)
BY DEF Thm!CallOf, Thm!Calling

LEMMA PageFreshInit ==
  ASSUME Thm!Init
  PROVE  Thm!Fresh!Init
<1>1. /\ caller = [r \in Readers |-> Thm!Idle]
      /\ shown = [r \in Readers |-> [p \in Thm!Served |-> {}]]
  BY DEF Thm!Init, Thm!Quiet
<1>2. \A r \in Readers : caller[r].pc = "idle"
  BY <1>1 DEF Thm!Idle
<1>3. \A r \in Readers : Thm!CallOf(r) = "idle"
  BY <1>2, PageAsCall
<1> QED
  BY <1>1, <1>2, <1>3 DEF Thm!Fresh!Init

\* The rows change, and every call under way sees them.
LEMMA PageChanges ==
  ASSUME NEW t, Thm!Becomes(t, Thm!Shown(t))
  PROVE  Thm!Fresh!Change
<1>1. /\ shown' = [r \in Readers |-> [p \in Thm!Served |->
           IF Thm!Calling(r) THEN shown[r][p] \cup {Thm!Shown(rows')[p]} ELSE shown[r][p]]]
      /\ caller' = caller
  BY DEF Thm!Becomes, Thm!Shown
<1>2. \A r \in Readers : Thm!Calling(r) <=> Thm!CallOf(r) = "waiting"
  BY PageAsCall
<1>3. [q \in Readers |-> Thm!CallOf(q)'] = [q \in Readers |-> Thm!CallOf(q)]
  BY <1>1 DEF Thm!CallOf, Thm!Calling
<1>4. shown' = [r \in Readers |-> [p \in Thm!Served |->
        IF [q \in Readers |-> Thm!CallOf(q)][r] = "waiting"
          THEN shown[r][p] \cup {Thm!Shown(rows')[p]} ELSE shown[r][p]]]
  BY <1>1, <1>2
<1> QED
  BY <1>1, <1>3, <1>4 DEF Thm!Fresh!Change

LEMMA PageAsks ==
  ASSUME PageTyped, NEW r \in Readers, Thm!Query(r)
  PROVE  Thm!Fresh!Ask(r)
<1> DEFINE call == [q \in Readers |-> Thm!CallOf(q)]
           callNext == [q \in Readers |-> Thm!CallOf(q)']
           given == [q \in Readers |-> IF caller[q].pc = "done" THEN caller[q].answer ELSE None]
           givenNext == [q \in Readers |-> IF caller'[q].pc = "done" THEN caller'[q].answer ELSE None]
<1>1. PICK stamp :
        /\ ~Thm!Calling(r) /\ UNCHANGED rows
        /\ caller' = [caller EXCEPT ![r] = [pc |-> "queried", stamp |-> stamp, answer |-> None]]
        /\ shown' = [shown EXCEPT ![r] = [p \in Thm!Served |-> {Thm!Shown(rows)[p]}]]
  <2>1. DOMAIN Thm!Shown(rows) = Thm!Served
    BY DEF Thm!Shown
  <2> QED
    BY <2>1 DEF Thm!Query, Thm!Ask
<1>2. \A q \in Readers \ {r} : caller'[q] = caller[q]
  BY <1>1 DEF PageTyped
<1>3. caller'[r].pc = "queried"
  BY <1>1 DEF PageTyped
<1>4. Thm!CallOf(r)' = "waiting" /\ Thm!CallOf(r) # "waiting"
  BY <1>1, <1>3, PageAsCall DEF Thm!CallOf, Thm!Calling
<1>5. \A q \in Readers \ {r} : Thm!CallOf(q)' = Thm!CallOf(q)
  BY <1>2 DEF Thm!CallOf, Thm!Calling
<1>6. callNext = [call EXCEPT ![r] = "waiting"] /\ call[r] # "waiting"
  BY <1>4, <1>5
<1>7. givenNext = [given EXCEPT ![r] = None]
  BY <1>2, <1>3
<1>8. UNCHANGED Thm!Shown(rows)
  BY <1>1
<1> QED
  BY <1>1, <1>6, <1>7, <1>8 DEF Thm!Fresh!Ask

LEMMA PageAnswers ==
  ASSUME PageInv, NEW r \in Readers, Thm!Take(r)
  PROVE  Thm!Fresh!Answer(r)
<1> DEFINE call == [q \in Readers |-> Thm!CallOf(q)]
           callNext == [q \in Readers |-> Thm!CallOf(q)']
           given == [q \in Readers |-> IF caller[q].pc = "done" THEN caller[q].answer ELSE None]
           givenNext == [q \in Readers |-> IF caller'[q].pc = "done" THEN caller'[q].answer ELSE None]
<1>1. /\ caller[r].pc = "take" /\ UNCHANGED rows /\ Thm!Calling(r)
      /\ Thm!Returned(r, kept.theme) /\ PageTyped /\ PageCalls /\ PageWatched
  BY DEF Thm!Take, Thm!Calling, PageInv
<1>2. /\ kept # None /\ kept.theme \in [Thm!Served -> Thm!Row]
      /\ \A p \in Thm!Served : Servable(shown[r][p], kept.theme[p])
  <2>1. kept # None /\ Awaits(caller[r], kept.newestAt)
    BY <1>1 DEF PageCalls, Awaits
  <2> QED
    BY <1>1, <2>1, PageNumbers DEF PageWatched
<1>3. /\ \A q \in Readers \ {r} : caller'[q] = caller[q]
      /\ caller'[r].pc = "done" /\ caller'[r].answer = kept.theme
      /\ shown' = [shown EXCEPT ![r] = [p \in Thm!Served |-> {}]]
  BY <1>1, <1>2, PageReturned
<1>4. Thm!CallOf(r) = "waiting" /\ Thm!CallOf(r)' = "answered"
  BY <1>1, <1>2, <1>3, ThmConstants, PageAsCall DEF Thm!CallOf, Thm!Calling
<1>5. \A q \in Readers \ {r} : Thm!CallOf(q)' = Thm!CallOf(q)
  BY <1>3 DEF Thm!CallOf, Thm!Calling
<1>6. callNext = [call EXCEPT ![r] = "answered"] /\ call[r] = "waiting"
  BY <1>4, <1>5
<1>7. givenNext = [given EXCEPT ![r] = givenNext[r]] /\ givenNext[r] = kept.theme
  BY <1>3
<1>8. UNCHANGED Thm!Shown(rows)
  BY <1>1
<1>9. \A p \in Thm!Served : Thm!Fresh!MayAnswer(r, p, givenNext[r][p])
  BY <1>2, <1>7 DEF Thm!Fresh!MayAnswer, Servable
<1> QED
  BY <1>3, <1>6, <1>7, <1>8, <1>9 DEF Thm!Fresh!Answer, Thm!Fresh!Forget

\* A call fails for a row it saw missing or broken.
LEMMA PageFails ==
  ASSUME PageInv, NEW r \in Readers, Thm!Calling(r), Thm!Returned(r, None), UNCHANGED rows,
         rows[Thm!Meta] = Thm!Absent \/ ~Thm!Parses
  PROVE  Thm!Fresh!Fail(r)
<1> DEFINE call == [q \in Readers |-> Thm!CallOf(q)]
           callNext == [q \in Readers |-> Thm!CallOf(q)']
           given == [q \in Readers |-> IF caller[q].pc = "done" THEN caller[q].answer ELSE None]
           givenNext == [q \in Readers |-> IF caller'[q].pc = "done" THEN caller'[q].answer ELSE None]
           broken == [p \in Thm!Served |-> IF p = Thm!Meta THEN {Thm!Absent} ELSE
                        IF p \in Html THEN [at : Thm!Stamp, ok : {FALSE}] ELSE {}]
<1>1. PageTyped /\ PageCalls /\ PageWatched
  BY DEF PageInv
<1>2. /\ \A q \in Readers \ {r} : caller'[q] = caller[q]
      /\ caller'[r].pc = "done" /\ caller'[r].answer = None
      /\ shown' = [shown EXCEPT ![r] = [p \in Thm!Served |-> {}]]
  BY <1>1, PageReturned
<1>3. Thm!CallOf(r) = "waiting" /\ Thm!CallOf(r)' = "failed"
  BY <1>2, PageAsCall DEF Thm!CallOf, Thm!Calling
<1>4. \A q \in Readers \ {r} : Thm!CallOf(q)' = Thm!CallOf(q)
  BY <1>2 DEF Thm!CallOf, Thm!Calling
<1>5. callNext = [call EXCEPT ![r] = "failed"] /\ call[r] = "waiting"
  BY <1>3, <1>4
<1>6. givenNext = given
  BY <1>2 DEF Thm!Calling
<1>7. \A p \in Thm!Served : rows[p] \in shown[r][p]
  BY <1>1 DEF PageWatched
<1>8. \E p \in Thm!Served : shown[r][p] \cap broken[p] # {}
  <2>1. CASE rows[Thm!Meta] = Thm!Absent
    BY <1>7, <2>1, ThmConstants
  <2>2. CASE ~Thm!Parses
    <3>1. PICK p \in Html : ~rows[p].ok
      BY <2>2 DEF Thm!Parses
    <3>2. p \in Thm!Served /\ p \in PagePaths /\ p # Thm!Meta
      BY ThmConstants DEF Thm!Served, PagePaths, Thm!Files
    <3>3. rows[p] \in Thm!Row
      BY <1>1, <3>2, PageNumbers
    <3>4. rows[p] \in [at : Thm!Stamp, ok : {FALSE}]
      BY <3>1, <3>3 DEF Thm!Row
    <3> QED
      BY <1>7, <3>2, <3>4
  <2> QED
    BY <2>1, <2>2
<1>9. UNCHANGED Thm!Shown(rows)
  OBVIOUS
<1> QED
  BY <1>2, <1>5, <1>6, <1>8, <1>9 DEF Thm!Fresh!Fail, Thm!Fresh!Forget

LEMMA PageStutters ==
  ASSUME UNCHANGED <<rows, shown>>,
         \A q \in Readers : \/ caller'[q] = caller[q]
                            \/ /\ caller[q].pc \in {"queried", "meta", "files"}
                               /\ caller'[q].pc \in {"meta", "files", "take"}
  PROVE  UNCHANGED Thm!Fresh!vars
<1>1. ASSUME NEW q \in Readers
      PROVE  /\ Thm!CallOf(q)' = Thm!CallOf(q)
             /\ (IF caller'[q].pc = "done" THEN caller'[q].answer ELSE None)
                  = (IF caller[q].pc = "done" THEN caller[q].answer ELSE None)
  BY DEF Thm!CallOf, Thm!Calling
<1>2. /\ [q \in Readers |-> Thm!CallOf(q)'] = [q \in Readers |-> Thm!CallOf(q)]
      /\ [q \in Readers |-> IF caller'[q].pc = "done" THEN caller'[q].answer ELSE None]
           = [q \in Readers |-> IF caller[q].pc = "done" THEN caller[q].answer ELSE None]
  BY <1>1
<1> QED
  BY <1>2 DEF Thm!Fresh!vars

LEMMA PageFreshNext ==
  ASSUME PageInv, Thm!Next \/ UNCHANGED othervars
  PROVE  Thm!Fresh!Next \/ UNCHANGED Thm!Fresh!vars
<1>1. PageTyped
  BY DEF PageInv
<1>2. ASSUME NEW w \in Editors, Thm!TakeStamp(w) PROVE UNCHANGED Thm!Fresh!vars
  BY <1>2, PageStutters DEF Thm!TakeStamp
<1>3. ASSUME NEW t, Thm!Becomes(t, Thm!Shown(t)) PROVE Thm!Fresh!Next
  BY <1>3, PageChanges DEF Thm!Fresh!Next
<1>4. CASE Thm!Write
  BY <1>2, <1>3, <1>4
     DEF Thm!Write, Thm!UpsertMeta, Thm!PutFile, Thm!ImportTheme, Thm!DeleteFile,
         Thm!Saved, Thm!Commit, Thm!Erase
<1>5. ASSUME NEW r \in Readers, Thm!Query(r) PROVE Thm!Fresh!Next
  BY <1>1, <1>5, PageAsks DEF Thm!Fresh!Next
<1>6. ASSUME NEW r \in Readers, NEW pc \in {"meta", "take"}, Thm!Moved(r, pc), UNCHANGED rows,
             caller[r].pc \in {"queried", "files"}
      PROVE  UNCHANGED Thm!Fresh!vars
  BY <1>1, <1>6, PageMoved, PageStutters
<1>7. ASSUME NEW r \in Readers, Thm!LoadMeta(r) PROVE Thm!Fresh!Next \/ UNCHANGED Thm!Fresh!vars
  <2>1. caller[r].pc = "meta" /\ Thm!Calling(r) /\ UNCHANGED rows
    BY <1>7 DEF Thm!LoadMeta, Thm!Calling
  <2>2. CASE rows[Thm!Meta] = Thm!Absent
    BY <1>7, <2>1, <2>2, PageFails DEF Thm!LoadMeta, Thm!Fresh!Next
  <2>3. CASE rows[Thm!Meta] # Thm!Absent
    <3>1. /\ caller' = [caller EXCEPT ![r].pc = "files", ![r].answer = rows[Thm!Meta]]
          /\ shown' = shown
      BY <1>7, <2>3 DEF Thm!LoadMeta
    <3>2. caller'[r].pc = "files" /\ \A q \in Readers \ {r} : caller'[q] = caller[q]
      BY <1>1, <3>1 DEF PageTyped, PageState
    <3> QED
      BY <2>1, <3>1, <3>2, PageStutters
  <2> QED
    BY <2>2, <2>3
<1>8. ASSUME NEW r \in Readers, Thm!LoadFiles(r) PROVE Thm!Fresh!Next \/ UNCHANGED Thm!Fresh!vars
  <2>1. caller[r].pc = "files" /\ Thm!Calling(r) /\ UNCHANGED rows
    BY <1>8 DEF Thm!LoadFiles, Thm!Calling
  <2>2. CASE ~Thm!Parses
    BY <1>8, <2>1, <2>2, PageFails DEF Thm!LoadFiles, Thm!Fresh!Next
  <2>3. CASE Thm!Parses
    BY <1>6, <1>8, <2>1, <2>3 DEF Thm!LoadFiles
  <2> QED
    BY <2>2, <2>3
<1>9. ASSUME NEW r \in Readers, Thm!Keeps(r) \/ Thm!Locks(r) PROVE UNCHANGED Thm!Fresh!vars
  BY <1>6, <1>9 DEF Thm!Keeps, Thm!Locks
<1>10. ASSUME NEW r \in Readers, Thm!Take(r) PROVE Thm!Fresh!Next
  BY <1>10, PageAnswers DEF Thm!Fresh!Next
<1>11. CASE UNCHANGED othervars
  BY <1>11, PageStutters DEF othervars
<1> QED
  BY <1>4, <1>5, <1>7, <1>8, <1>9, <1>10, <1>11 DEF Thm!Next

-----------------------------------------------------------------------------
(* The surfaces together.                                                  *)

SurfacesInv ==
  /\ Inv
  /\ surface = "catalog" => ListTyped /\ (InOrder => ListInv)
  /\ surface = "theme" => PageTyped /\ PageCalls /\ (InOrder => PageInv)

LEMMA SurfacesInvInit ==
  ASSUME SurfacesInit
  PROVE  SurfacesInv
<1>1. SettingsAssumption /\ Init
  BY SurfacesAssumption DEF SurfacesInit, NoSettings
<1>2. Inv
  BY <1>1, InvInit
<1>3. surface = "catalog" => Cat!Init
  BY DEF SurfacesInit
<1>4. surface = "theme" => Thm!Init
  BY DEF SurfacesInit
<1> QED
  BY <1>2, <1>3, <1>4, ListInvInit, PageInvInit DEF SurfacesInv, ListInv, PageInv

\* Each step is one of the surface's own and leaves the others as they are; after
\* one that keeps the order, nothing was overtaken.
LEMMA SurfacesStep ==
  ASSUME [SurfacesNext]_allvars
  PROVE  /\ surface' = surface /\ [Next]_vars
         /\ surface = "catalog" => /\ Cat!Next \/ UNCHANGED othervars
                                   /\ InOrder' => InOrder /\ ~Overtakes
         /\ surface = "theme" => /\ Thm!Next \/ UNCHANGED othervars
                                 /\ InOrder' => InOrder /\ ~Overtakes
<1>1. CASE UNCHANGED allvars
  <2>1. UNCHANGED <<surface, vars, othervars, order, saving>>
    BY <1>1 DEF allvars, othervars
  <2>2. ~Overtakes
    BY <2>1 DEF Overtakes
  <2> QED
    BY <2>1, <2>2 DEF InOrder
<1>2. CASE SurfacesNext
  <2>1. Ordering /\ InOrder' => InOrder /\ ~Overtakes
    BY DEF Ordering, InOrder
  <2> QED
    BY <1>2, <2>1 DEF SurfacesNext
<1> QED
  BY <1>1, <1>2

LEMMA SurfacesInvNext ==
  ASSUME SurfacesInv, [SurfacesNext]_allvars
  PROVE  SurfacesInv'
<1>1. Inv /\ SettingsAssumption
  BY SurfacesAssumption DEF SurfacesInv
<1>2. Inv'
  BY <1>1, SurfacesStep, InvNext
<1>3. surface' = "catalog" => ListTyped' /\ (InOrder' => ListInv')
  BY SurfacesStep, ListTypedNext, ListInvNext DEF SurfacesInv
<1>4. surface' = "theme" => PageTyped' /\ PageCalls' /\ (InOrder' => PageInv')
  BY SurfacesStep, PageTypedNext, PageInvNext DEF SurfacesInv
<1> QED
  BY <1>2, <1>3, <1>4 DEF SurfacesInv

LEMMA SurfacesInvariance == SurfacesSpec => []SurfacesInv
<1>1. SurfacesInit => SurfacesInv
  BY SurfacesInvInit
<1>2. SurfacesInv /\ [SurfacesNext]_allvars => SurfacesInv'
  BY SurfacesInvNext
<1> QED
  BY <1>1, <1>2, PTL DEF SurfacesSpec

\* Each surface's state keeps its type; a call of the catalog or of the theme that
\* has queried has a stamp, one that copies finds a copy to take
\* (reloadIfNeeded in apps.go and theme.go).
THEOREM SurfacesTyped == SurfacesSpec => []ReloadTypeOK
<1>1. ASSUME SurfacesInv PROVE ReloadTypeOK
  <2>1. TypeOK
    <3>1. Typed /\ Loadable(table)
      BY <1>1 DEF SurfacesInv, Inv
    <3>2. ASSUME NEW r \in Readers
          PROVE  /\ reader[r].pc \in {"idle", "queried", "reload", "done"}
                 /\ reader[r].pc \in {"queried", "reload"} => reader[r].stamp \in Stamp
                 /\ reader[r].pc = "done" => reader[r].answer \in [{Panel} -> Row] \cup {None}
                 /\ seen[r] \in [{Panel} -> SUBSET Row]
      <4>1. reader[r] \in ReaderState /\ seen[r] \in [{Panel} -> SUBSET Row]
        BY <3>1 DEF Typed
      <4>2. reader[r].pc \in {"queried", "reload"} => reader[r].stamp # None
        BY <3>1 DEF Typed, Calling
      <4> QED
        BY <4>1, <4>2 DEF ReaderState
    <3>3. /\ now \in Stamp /\ writing \in [Writers -> Stamp \cup {None}]
          /\ table \in Settings /\ lock = None
          /\ cache = None \/ cache \in [client : Row, loadedAt : Stamp]
      BY <3>1 DEF Typed
    <3> QED
      BY <3>2, <3>3 DEF TypeOK
  <2> QED
    BY <1>1, <2>1, ListTypeOK, PageTypeOK DEF SurfacesInv, ReloadTypeOK
<1> QED
  BY <1>1, SurfacesInvariance, PTL

\* The catalog implements FreshRead until a write overtakes another: a list that is
\* returned is one the table held during the call, at whichever statement of the
\* reload a write or a delete commits (Catalog.List and reloadIfNeeded in apps.go).
THEOREM CatalogFresh == SurfacesSpec => CatalogFollowsTable
<1>1. SurfacesInit => (surface = "catalog" => Cat!Fresh!Init)
  BY ListFreshInit DEF SurfacesInit
<1>2. SurfacesInv /\ [SurfacesNext]_allvars =>
        [surface = "catalog" /\ InOrder => Cat!Fresh!Next \/ UNCHANGED Cat!Fresh!vars]_allvars
  BY SurfacesStep, ListTypedNext, ListFreshNext DEF SurfacesInv
<1> QED
  BY <1>1, <1>2, SurfacesInvariance, PTL DEF SurfacesSpec, CatalogFollowsTable

\* The theme implements FreshRead until a write overtakes another: each part that is
\* served is one its table held during the call, or its row was deleted during it,
\* though metadata and files are loaded by separate statements (Engine.Render,
\* ServeStatic and reloadIfNeeded in theme.go).
THEOREM ThemeFresh == SurfacesSpec => ThemeFollowsTables
<1>1. SurfacesInit => (surface = "theme" => Thm!Fresh!Init)
  BY PageFreshInit DEF SurfacesInit
<1>2. SurfacesInv /\ [SurfacesNext]_allvars =>
        [surface = "theme" /\ InOrder => Thm!Fresh!Next \/ UNCHANGED Thm!Fresh!vars]_allvars
  BY SurfacesStep, PageFreshNext DEF SurfacesInv
<1> QED
  BY <1>1, <1>2, SurfacesInvariance, PTL DEF SurfacesSpec, ThemeFollowsTables
=============================================================================
