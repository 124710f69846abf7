--------------------------- MODULE TtlCacheProofs ---------------------------
(***************************************************************************)
(* Theorems about TtlCache, for every number of readers, every TTL and     *)
(* every timeout.                                                          *)
(***************************************************************************)
EXTENDS TtlCache, TLAPS

Executing == {"recheck", "fetch", "answered", "store", "release"}
Holding == {"fetch", "answered", "store", "release"}

\* SeesCalmInvalidate with what makes it inductive.  calmFloor moves only while
\* no call is executing, so whatever the leader got from the panel or from the
\* cache, and whatever is in the cache, is no older than calmFloor.
FloorInv ==
  /\ calmFloor <= upstream
  /\ cache.fetchedAt # None => cache.value >= calmFloor
  /\ \A r \in Readers :
       /\ reader[r].pc \in Executing => leader = r
       /\ reader[r].calmFloor <= calmFloor
       /\ reader[r].pc \in Holding /\ reader[r].answer.ver # 0 =>
            reader[r].answer.ver >= calmFloor
       /\ reader[r].pc = "done" /\ reader[r].answer.ver # 0 =>
            reader[r].answer.ver >= reader[r].calmFloor

ReaderState ==
  [pc : {"idle", "join", "wait", "recheck", "fetch", "answered", "store", "release", "done"},
   began : Time, floor : 0..MaxVersion, calmFloor : 0..MaxVersion, answer : Answer]

-----------------------------------------------------------------------------
\* What the cache answers is an answer, and a fresh value's is the value.
LEMMA HitTyped ==
  ASSUME TypeOK, Fresh \/ FreshErr
  PROVE  Hit \in Answer /\ (Hit.ver # 0 => Hit.ver = cache.value /\ cache.fetchedAt # None)
<1>1. CASE Fresh
  <2>1. cache.value \in 0..MaxVersion /\ cache.fetchedAt \in Time /\ cache.fetchedAt # None
    BY <1>1, Zenon DEF TypeOK, Fresh, Within
  <2>2. Hit = [ver |-> cache.value, at |-> cache.fetchedAt]
    BY <1>1 DEF Hit
  <2> QED
    BY <2>1, <2>2 DEF Answer
<1>2. CASE ~Fresh
  <2>1. cache.erroredAt \in Time
    BY <1>2, Zenon DEF TypeOK, FreshErr, Within
  <2>2. Hit = [ver |-> 0, at |-> cache.erroredAt]
    BY <1>2 DEF Hit
  <2>3. 0 \in 0..MaxVersion
    BY TtlCacheAssumption
  <2> QED
    BY <2>1, <2>2, <2>3 DEF Answer
<1> QED
  BY <1>1, <1>2

\* The clock, the cache, the readers and the history keep their types.
THEOREM TypeCorrect == Spec => []TypeOK
<1> USE TtlCacheAssumption
<1>1. Init => TypeOK
  <2> SUFFICES ASSUME Init PROVE TypeOK
    OBVIOUS
  <2>1. cleared \in BOOLEAN
    BY Zenon DEF Init
  <2>2. NeverBegan \in ReaderState
    BY DEF NeverBegan, ReaderState, NoAnswer, Answer, Time
  <2>3. reader \in [Readers -> ReaderState]
    BY <2>2 DEF Init
  <2> QED
    BY <2>1, <2>3 DEF Init, TypeOK, ReaderState, Empty, Time, Version
<1>2. TypeOK /\ [Next]_vars => TypeOK'
  <2> SUFFICES ASSUME TypeOK, [Next]_vars PROVE TypeOK'
    OBVIOUS
  <2>0. \A r \in Readers : reader[r] \in ReaderState
    BY DEF TypeOK, ReaderState
  <2>00. reader \in [Readers -> ReaderState]
    BY DEF TypeOK, ReaderState
  <2> DEFINE Others == UNCHANGED <<now, upstream, superseded, cache, leader, worker, history>>
  <2>1. ASSUME Others, reader' \in [Readers -> ReaderState] PROVE TypeOK'
    BY <2>1 DEF TypeOK, ReaderState, history
  <2>2. ASSUME NEW r \in Readers, Check(r) PROVE TypeOK'
    <3>1. NoAnswer \in Answer
      BY DEF NoAnswer, Answer, Time
    <3>2. CASE Fresh \/ FreshErr
      <4>1. Hit \in Answer
        BY <3>2, HitTyped
      <4>2. reader' = [reader EXCEPT ![r] = [pc |-> "done", began |-> now, floor |-> floor,
                         calmFloor |-> calmFloor, answer |-> Hit]]
        BY <2>2, <3>2 DEF Check
      <4>3. reader' \in [Readers -> ReaderState]
        BY <2>00, <4>1, <4>2 DEF TypeOK, ReaderState
      <4> QED
        BY <2>1, <2>2, <4>3 DEF Check
    <3>3. CASE ~(Fresh \/ FreshErr)
      <4>2. reader' = [reader EXCEPT ![r] = [pc |-> "join", began |-> now, floor |-> floor,
                         calmFloor |-> calmFloor, answer |-> NoAnswer]]
        BY <2>2, <3>3 DEF Check
      <4>3. reader' \in [Readers -> ReaderState]
        BY <2>00, <3>1, <4>2 DEF TypeOK, ReaderState
      <4> QED
        BY <2>1, <2>2, <4>3 DEF Check
    <3> QED
      BY <3>2, <3>3
  <2>3. ASSUME NEW r \in Readers, Join(r) PROVE TypeOK'
    <3>1. reader' \in [Readers -> ReaderState]
      BY <2>00, <2>3 DEF Join, ReaderState
    <3>2. leader' \in Readers \cup {None}
      BY <2>3 DEF Join, TypeOK
    <3> QED
      BY <2>3, <3>1, <3>2 DEF Join, TypeOK, ReaderState, history
  <2>4. ASSUME NEW r \in Readers, Recheck(r) PROVE TypeOK'
    <3>1. CASE Fresh \/ FreshErr
      <4>1. Hit \in Answer
        BY <3>1, HitTyped
      <4>2. reader' = [reader EXCEPT ![r].pc = "release", ![r].answer = Hit]
        BY <2>4, <3>1 DEF Recheck
      <4>3. reader' \in [Readers -> ReaderState]
        BY <2>00, <4>1, <4>2 DEF ReaderState
      <4> QED
        BY <2>1, <2>4, <4>3 DEF Recheck
    <3>2. CASE ~(Fresh \/ FreshErr)
      <4>1. [ver |-> 0, at |-> now] \in Answer
        BY DEF TypeOK, Answer
      <4>2. reader' = [reader EXCEPT ![r].pc = "fetch", ![r].answer = [ver |-> 0, at |-> now]]
        BY <2>4, <3>2 DEF Recheck, StartFetch
      <4>3. reader' \in [Readers -> ReaderState]
        BY <2>00, <4>1, <4>2 DEF ReaderState
      <4> QED
        BY <2>1, <2>4, <4>3 DEF Recheck
    <3> QED
      BY <3>1, <3>2
  <2>5. ASSUME NEW r \in Readers, Respond(r) PROVE TypeOK'
    <3>1. PICK v \in {reader[r].answer.ver, 0} :
            reader' = [reader EXCEPT ![r].pc = "store", ![r].answer = [ver |-> v, at |-> now]]
      BY <2>5 DEF Respond
    <3>2. [ver |-> v, at |-> now] \in Answer
      BY <2>0 DEF TypeOK, Answer, ReaderState
    <3>3. reader' \in [Readers -> ReaderState]
      BY <2>00, <3>1, <3>2 DEF ReaderState
    <3> QED
      BY <2>1, <2>5, <3>3 DEF Respond
  <2>5a. ASSUME NEW r \in Readers, PanelReads(r) PROVE TypeOK'
    <3>1. upstream \in 0..MaxVersion
      BY DEF TypeOK, Version
    <3>2. /\ [reader[r].answer EXCEPT !.ver = upstream] \in Answer
          /\ reader' = [reader EXCEPT ![r].pc = "answered",
                                      ![r].answer = [reader[r].answer EXCEPT !.ver = upstream]]
      BY <2>0, <2>00, <2>5a, <3>1 DEF PanelReads, ReaderState, Answer
    <3>3. reader' \in [Readers -> ReaderState]
      BY <2>00, <3>2 DEF ReaderState
    <3> QED
      BY <2>1, <2>5a, <3>3 DEF PanelReads
  <2>6. ASSUME NEW r \in Readers, Store(r) PROVE TypeOK'
    <3>1. reader' \in [Readers -> ReaderState]
      BY <2>00, <2>6 DEF Store, ReaderState
    <3>2. reader[r].answer.ver \in 0..MaxVersion
      BY <2>0 DEF ReaderState, Answer
    <3>3. cache' \in [value : 0..MaxVersion, fetchedAt : Time \cup {None},
                      erroredAt : Time \cup {None}]
      BY <2>6, <3>2 DEF Store, Stored, TypeOK
    <3>4. cleared' \in BOOLEAN
      BY <2>6, Zenon DEF Store
    <3> QED
      BY <2>6, <3>1, <3>3, <3>4 DEF Store, TypeOK, ReaderState
  <2>7. ASSUME NEW r \in Readers, Release(r) PROVE TypeOK'
    <3>1. reader' \in [Readers -> ReaderState]
      BY <2>00, <2>7 DEF Release, ReaderState
    <3>2. leader' \in Readers \cup {None}
      BY <2>7 DEF Release
    <3> QED
      BY <2>7, <3>1, <3>2 DEF Release, TypeOK, ReaderState, history
  <2>8. CASE Write \/ AnswerLost \/ Elsewhere
    BY <2>8 DEF Write, AnswerLost, Elsewhere, NewVersion, TypeOK, Version, history
  <2>9. CASE Invalidate
    <3>1. cleared' \in BOOLEAN
      BY <2>9, Zenon DEF Invalidate
    <3>2. cache' \in [value : 0..MaxVersion, fetchedAt : Time \cup {None},
                      erroredAt : Time \cup {None}]
      BY <2>9 DEF Invalidate, Cleared, Empty
    <3> QED
      BY <2>9, <3>1, <3>2 DEF Invalidate, TypeOK, Version
  <2>10. CASE Tick
    BY <2>10 DEF Tick, TypeOK, Time, history
  <2>11. CASE UNCHANGED vars
    BY <2>11 DEF vars, TypeOK
  <2> QED
    BY <2>2, <2>3, <2>4, <2>5, <2>5a, <2>6, <2>7, <2>8, <2>9, <2>10, <2>11 DEF Next, Get
<1> QED
  BY <1>1, <1>2, PTL DEF Spec

-----------------------------------------------------------------------------
\* The numbers FloorInv compares are numbers.
LEMMA Numbers ==
  ASSUME TypeOK
  PROVE  /\ upstream \in Nat /\ calmFloor \in Nat /\ cache.value \in Nat
         /\ \A r \in Readers : /\ reader[r].calmFloor \in Nat
                               /\ reader[r].answer.ver \in Nat
                               /\ reader[r] \in ReaderState
<1>1. upstream \in Nat /\ calmFloor \in Nat /\ cache.value \in Nat
  BY TtlCacheAssumption DEF TypeOK, Version
<1>2. \A r \in Readers : reader[r] \in ReaderState
  BY DEF TypeOK, ReaderState
<1> QED
  BY <1>1, <1>2 DEF ReaderState, Answer

\* The part of FloorInv about one reader.
ReaderOK(r) ==
  /\ reader[r].pc \in Executing => leader = r
  /\ reader[r].calmFloor <= calmFloor
  /\ reader[r].pc \in Holding /\ reader[r].answer.ver # 0 =>
       reader[r].answer.ver >= calmFloor
  /\ reader[r].pc = "done" /\ reader[r].answer.ver # 0 =>
       reader[r].answer.ver >= reader[r].calmFloor

LEMMA FloorInvariant == Spec => []FloorInv
<1> USE TtlCacheAssumption
<1>1. Init => FloorInv
  BY DEF Init, FloorInv, Empty, NeverBegan, NoAnswer, Executing, Holding
<1>2. TypeOK /\ TypeOK' /\ FloorInv /\ [Next]_vars => FloorInv'
  <2> SUFFICES ASSUME TypeOK, TypeOK', FloorInv, [Next]_vars PROVE FloorInv'
    OBVIOUS
  <2>1. /\ upstream \in Nat /\ calmFloor \in Nat /\ cache.value \in Nat
        /\ \A r \in Readers : /\ reader[r].calmFloor \in Nat
                              /\ reader[r].answer.ver \in Nat
                              /\ reader[r] \in ReaderState
    BY Numbers
  <2>2. reader \in [Readers -> ReaderState]
    BY DEF TypeOK, ReaderState
  <2>3. \A r \in Readers : ReaderOK(r)
    BY DEF FloorInv, ReaderOK
  <2>4. calmFloor <= upstream /\ (cache.fetchedAt # None => cache.value >= calmFloor)
    BY DEF FloorInv
  \* A step of one reader that moves neither the floor nor the panel.
  <2>5. ASSUME UNCHANGED <<upstream, calmFloor>>,
               cache'.fetchedAt # None => cache'.value >= calmFloor,
               \A q \in Readers : ReaderOK(q)'
        PROVE  FloorInv'
    BY <2>4, <2>5 DEF FloorInv, ReaderOK
  <2>6. ASSUME NEW r \in Readers, Check(r) PROVE FloorInv'
    <3>1. UNCHANGED <<upstream, calmFloor, cache, leader>>
      BY <2>6 DEF Check, history
    <3>2. \A q \in Readers \ {r} : reader'[q] = reader[q]
      BY <2>2, <2>6 DEF Check
    <3>3. reader'[r].calmFloor = calmFloor
      BY <2>2, <2>6 DEF Check
    <3>4. CASE Fresh \/ FreshErr
      <4>1. reader'[r].pc = "done" /\ reader'[r].answer = Hit
        BY <2>2, <2>6, <3>4 DEF Check
      <4>2. Hit.ver # 0 => Hit.ver >= calmFloor
        BY <2>4, <3>4, HitTyped
      <4>3. ReaderOK(r)'
        BY <2>1, <3>1, <3>3, <4>1, <4>2 DEF ReaderOK, Executing, Holding
      <4> QED
        BY <2>3, <2>4, <2>5, <3>1, <3>2, <4>3 DEF ReaderOK
    <3>5. CASE ~(Fresh \/ FreshErr)
      <4>1. reader'[r].pc = "join"
        BY <2>2, <2>6, <3>5 DEF Check
      <4>2. ReaderOK(r)'
        BY <2>1, <3>1, <3>3, <4>1 DEF ReaderOK, Executing, Holding
      <4> QED
        BY <2>3, <2>4, <2>5, <3>1, <3>2, <4>2 DEF ReaderOK
    <3> QED
      BY <3>4, <3>5
  <2>7. ASSUME NEW r \in Readers, Join(r) PROVE FloorInv'
    <3>1. UNCHANGED <<upstream, calmFloor, cache>>
      BY <2>7 DEF Join, history
    <3>2. \A q \in Readers \ {r} : reader'[q] = reader[q]
      BY <2>2, <2>7 DEF Join
    <3>3. /\ reader'[r].calmFloor = reader[r].calmFloor
          /\ reader'[r].pc = IF leader = None THEN "recheck" ELSE "wait"
          /\ leader' = IF leader = None THEN r ELSE leader
      BY <2>2, <2>7 DEF Join, ReaderState
    <3>4. ReaderOK(r)'
      BY <2>3, <3>1, <3>3 DEF ReaderOK, Executing, Holding
    <3>5. \A q \in Readers \ {r} : ReaderOK(q)'
      BY <2>3, <3>1, <3>2, <3>3 DEF ReaderOK
    <3> QED
      BY <2>4, <2>5, <3>1, <3>4, <3>5
  <2>8. ASSUME NEW r \in Readers, Recheck(r) \/ PanelReads(r) \/ Respond(r) PROVE FloorInv'
    <3>1. UNCHANGED <<upstream, calmFloor, cache, leader>>
      BY <2>8 DEF Recheck, PanelReads, Respond, history
    <3>2. \A q \in Readers \ {r} : reader'[q] = reader[q]
      BY <2>2, <2>8 DEF Recheck, PanelReads, Respond, StartFetch
    <3>3. leader = r /\ reader'[r].calmFloor = reader[r].calmFloor
      BY <2>2, <2>3, <2>8 DEF Recheck, PanelReads, Respond, StartFetch, ReaderOK, Executing,
             ReaderState
    <3>4. /\ reader'[r].pc # "done"
          /\ reader'[r].pc \in Holding /\ reader'[r].answer.ver # 0 =>
               reader'[r].answer.ver >= calmFloor
      <4>1. CASE Recheck(r) /\ (Fresh \/ FreshErr)
        <5>1. reader'[r].pc = "release" /\ reader'[r].answer = Hit
          BY <2>2, <4>1 DEF Recheck, ReaderState
        <5> QED
          BY <2>4, <4>1, <5>1, HitTyped
      <4>2. CASE Recheck(r) /\ ~(Fresh \/ FreshErr)
        BY <2>2, <4>2 DEF Recheck, StartFetch, ReaderState, Holding
      <4>3. CASE PanelReads(r)
        BY <2>1, <2>2, <2>4, <4>3 DEF PanelReads, ReaderState, Answer
      <4>4. CASE Respond(r)
        <5>1. reader[r].answer.ver # 0 => reader[r].answer.ver >= calmFloor
          BY <2>3, <4>4 DEF Respond, ReaderOK, Holding
        <5> QED
          BY <2>1, <2>2, <4>4, <5>1 DEF Respond, ReaderState
      <4> QED
        BY <2>8, <4>1, <4>2, <4>3, <4>4
    <3>5. ReaderOK(r)'
      BY <2>3, <3>1, <3>3, <3>4 DEF ReaderOK
    <3> QED
      BY <2>3, <2>4, <2>5, <3>1, <3>2, <3>5 DEF ReaderOK
  <2>9. ASSUME NEW r \in Readers, Store(r) PROVE FloorInv'
    <3>1. UNCHANGED <<upstream, calmFloor, leader>>
      BY <2>9 DEF Store
    <3>2. /\ \A q \in Readers \ {r} : reader'[q] = reader[q]
          /\ reader'[r].answer = reader[r].answer /\ reader'[r].pc = "release"
          /\ reader'[r].calmFloor = reader[r].calmFloor
      BY <2>2, <2>9 DEF Store, ReaderState
    <3>3. \A q \in Readers : ReaderOK(q)'
      BY <2>3, <2>9, <3>1, <3>2 DEF ReaderOK, Executing, Holding, Store
    <3>4. CASE reader[r].answer.ver = 0
      <4>1. cache'.fetchedAt = cache.fetchedAt /\ cache'.value = cache.value
        BY <2>9, <3>4 DEF Store, Stored, TypeOK
      <4> QED
        BY <2>4, <2>5, <3>1, <3>3, <4>1
    <3>5. CASE reader[r].answer.ver # 0
      <4>1. cache'.value = reader[r].answer.ver
        BY <2>9, <3>5 DEF Store, Stored
      <4>2. reader[r].answer.ver >= calmFloor
        BY <2>3, <2>9, <3>5 DEF ReaderOK, Store, Holding
      <4> QED
        BY <2>5, <3>1, <3>3, <4>1, <4>2
    <3> QED
      BY <3>4, <3>5
  <2>10. ASSUME NEW r \in Readers, Release(r) PROVE FloorInv'
    <3>1. UNCHANGED <<upstream, calmFloor, cache>>
      BY <2>10 DEF Release, history
    <3>2. \A q \in Readers : reader[q].pc \in Executing => q = r
      BY <2>3, <2>10 DEF ReaderOK, Release, Executing
    <3>3. ASSUME NEW q \in Readers PROVE ReaderOK(q)'
      <4>1. CASE q = r \/ reader[q].pc = "wait"
        <5>1. /\ reader'[q].pc = "done" /\ reader'[q].answer = reader[r].answer
              /\ reader'[q].calmFloor = reader[q].calmFloor
          BY <2>1, <2>10, <4>1 DEF Release, ReaderState
        <5>2. reader[r].answer.ver # 0 => reader[r].answer.ver >= calmFloor
          BY <2>3, <2>10 DEF Release, ReaderOK, Holding
        <5>3. reader[q].calmFloor <= calmFloor
          BY <2>3 DEF ReaderOK
        <5> QED
          BY <2>1, <3>1, <5>1, <5>2, <5>3 DEF ReaderOK, Executing, Holding
      <4>2. CASE ~(q = r \/ reader[q].pc = "wait")
        <5>1. reader'[q] = reader[q]
          BY <2>10, <4>2 DEF Release
        <5> QED
          BY <2>3, <3>1, <3>2, <4>2, <5>1 DEF ReaderOK
      <4> QED
        BY <4>1, <4>2
    <3> QED
      BY <2>4, <2>5, <3>1, <3>3
  <2>11. CASE Write \/ AnswerLost \/ Elsewhere \/ Tick \/ UNCHANGED vars
    <3>1. UNCHANGED <<cache, leader, reader, calmFloor>> /\ (upstream' = upstream \/ upstream' = upstream + 1)
      BY <2>11 DEF Write, AnswerLost, Elsewhere, Tick, NewVersion, vars, history
    <3> QED
      BY <2>1, <3>1 DEF FloorInv
  <2>12. CASE Invalidate
    <3>1. UNCHANGED <<upstream, leader, reader>> /\ cache'.fetchedAt = None
      BY <2>12 DEF Invalidate, Cleared, Empty
    <3>2. CASE leader = None
      <4>1. calmFloor' = upstream
        BY <2>12, <3>2 DEF Invalidate
      <4>2. \A q \in Readers : reader[q].pc \notin Executing
        BY <2>3, <3>2 DEF ReaderOK
      <4>3. \A q \in Readers : ReaderOK(q)'
        BY <2>1, <2>3, <2>4, <3>1, <4>1, <4>2 DEF ReaderOK, Executing, Holding
      <4> QED
        BY <2>1, <3>1, <4>1, <4>3 DEF FloorInv, ReaderOK
    <3>3. CASE leader # None
      <4>1. calmFloor' = calmFloor
        BY <2>12, <3>3 DEF Invalidate
      <4> QED
        BY <3>1, <4>1 DEF FloorInv
    <3> QED
      BY <3>2, <3>3
  <2> QED
    BY <2>6, <2>7, <2>8, <2>9, <2>10, <2>11, <2>12 DEF Next, Get
<1> QED
  BY <1>1, <1>2, TypeCorrect, PTL DEF Spec

\* A call of get that begins after an Invalidate which met no call executing
\* returns the panel's list as of that Invalidate or later (or an error),
\* however many goroutines call get and whatever they wait for.
THEOREM CalmInvalidateSeen == Spec => []SeesCalmInvalidate
<1>1. FloorInv => SeesCalmInvalidate
  BY DEF FloorInv, SeesCalmInvalidate
<1> QED
  BY <1>1, FloorInvariant, PTL

-----------------------------------------------------------------------------
\* The part of StaleInv about one reader: what it holds was the panel's at most
\* Timeout ago when it arrived from the panel, and at most TTL more when it comes
\* from the cache.  No time passes between an arrival and the release.
AgeOK(r) ==
  LET a == reader[r].answer
      gone == superseded[a.ver]
  IN
  /\ reader[r].began <= now
  /\ reader[r].pc \in {"fetch", "answered"} => a.at <= now /\ now <= a.at + Timeout
  /\ reader[r].pc = "fetch" => a.ver = 0
  /\ reader[r].pc = "answered" => a.ver # 0 /\ (gone # None => gone >= a.at)
  /\ reader[r].pc = "store" =>
       a.at = now /\ (a.ver # 0 /\ gone # None => gone + Timeout >= now)
  /\ reader[r].pc = "release" =>
       IF a.ver = 0 THEN a.at + TTL >= now
                    ELSE gone # None => gone + TTL + Timeout >= now
  /\ reader[r].pc = "done" =>
       IF a.ver = 0 THEN a.at + TTL >= reader[r].began
                    ELSE gone # None => gone + TTL + Timeout >= reader[r].began

\* The same of the value in the cache.
CacheAge ==
  /\ cache.erroredAt # None => cache.erroredAt <= now
  /\ cache.fetchedAt # None =>
       /\ cache.value # 0 /\ cache.fetchedAt <= now
       /\ superseded[cache.value] # None =>
            superseded[cache.value] + Timeout >= cache.fetchedAt

\* The panel's version is not superseded, and a superseded one was so by now.
PanelAge ==
  /\ superseded[upstream] = None
  /\ \A v \in Version : superseded[v] # None => superseded[v] <= now
  /\ \A v \in Version : v > upstream => superseded[v] = None

\* NeverStalerThanTTL with what makes it inductive.
StaleInv == PanelAge /\ CacheAge /\ \A r \in Readers : AgeOK(r)

\* The clock and the stamps are numbers.
LEMMA Stamps ==
  ASSUME TypeOK
  PROVE  /\ now \in Nat /\ TTL \in Nat /\ Timeout \in Nat /\ None \notin Nat
         /\ cache.fetchedAt \in Nat \cup {None} /\ cache.erroredAt \in Nat \cup {None}
         /\ cache.value \in Nat
         /\ cache.value # 0 => cache.value \in Version
         /\ upstream \in Version /\ Version \subseteq Nat
         /\ \A v \in Version : superseded[v] \in Nat \cup {None}
         /\ \A r \in Readers : /\ reader[r].began \in Nat
                               /\ reader[r].answer.at \in Nat
                               /\ reader[r].answer.ver \in Nat
                               /\ reader[r].answer.ver # 0 => reader[r].answer.ver \in Version
                               /\ reader[r] \in ReaderState
<1> USE TtlCacheAssumption
<1>1. \A r \in Readers : reader[r] \in ReaderState
  BY DEF TypeOK, ReaderState
<1>2. \A r \in Readers : reader[r].began \in Time /\ reader[r].answer \in Answer
  BY <1>1 DEF ReaderState
<1>3. \A a \in Answer : a.at \in Nat /\ a.ver \in Nat /\ (a.ver # 0 => a.ver \in Version)
  BY DEF Answer, Time, Version
<1>4. cache.value \in Nat /\ (cache.value # 0 => cache.value \in Version)
  BY DEF TypeOK, Version
<1>5. cache.fetchedAt \in Nat \cup {None} /\ cache.erroredAt \in Nat \cup {None}
  BY DEF TypeOK, Time
<1>6. now \in Nat /\ upstream \in Version /\ Version \subseteq Nat
  BY DEF TypeOK, Time, Version
<1>7. \A v \in Version : superseded[v] \in Nat \cup {None}
  BY DEF TypeOK, Time
<1> QED
  BY <1>1, <1>2, <1>3, <1>4, <1>5, <1>6, <1>7 DEF Time

\* What the cache answers now: a version that was the panel's at most TTL and
\* Timeout ago, or a failure of at most TTL ago.
LEMMA HitAge ==
  ASSUME TypeOK, CacheAge, Fresh \/ FreshErr
  PROVE  IF Hit.ver = 0 THEN Hit.at + TTL >= now
                        ELSE superseded[Hit.ver] # None => superseded[Hit.ver] + TTL + Timeout >= now
<1>0. /\ now \in Nat /\ TTL \in Nat /\ Timeout \in Nat
      /\ cache.fetchedAt \in Nat \cup {None} /\ cache.erroredAt \in Nat \cup {None}
      /\ cache.value \in Nat /\ (cache.value # 0 => cache.value \in Version)
      /\ \A v \in Version : superseded[v] \in Nat \cup {None}
  BY Stamps
<1>1. CASE Fresh
  <2>1. cache.fetchedAt # None /\ now - cache.fetchedAt < TTL
    BY <1>1 DEF Fresh, Within
  <2>2. Hit.ver = cache.value
    BY <1>1 DEF Hit
  <2>3. /\ cache.value # 0
        /\ superseded[cache.value] # None => superseded[cache.value] + Timeout >= cache.fetchedAt
    BY <2>1 DEF CacheAge
  <2>4. superseded[cache.value] \in Nat \cup {None} /\ cache.fetchedAt \in Nat
    BY <1>0, <2>1, <2>3
  <2>5. superseded[cache.value] # None => superseded[cache.value] + TTL + Timeout >= now
    BY <1>0, <2>1, <2>3, <2>4
  <2> QED
    BY <2>2, <2>3, <2>5
<1>2. CASE ~Fresh
  <2>1. cache.erroredAt # None /\ now - cache.erroredAt < TTL
    BY <1>2 DEF FreshErr, Within
  <2>2. Hit.ver = 0 /\ Hit.at = cache.erroredAt
    BY <1>2 DEF Hit
  <2> QED
    BY <1>0, <2>1, <2>2
<1> QED
  BY <1>1, <1>2

LEMMA StaleInvariant == Spec => []StaleInv
<1> USE TtlCacheAssumption
<1>1. Init => StaleInv
  BY DEF Init, StaleInv, PanelAge, CacheAge, AgeOK, Empty, NeverBegan, NoAnswer, Version
<1>2. TypeOK /\ StaleInv /\ [Next]_vars => StaleInv'
  <2> SUFFICES ASSUME TypeOK, StaleInv, [Next]_vars PROVE StaleInv'
    OBVIOUS
  <2>1. /\ now \in Nat /\ TTL \in Nat /\ Timeout \in Nat /\ None \notin Nat
        /\ cache.fetchedAt \in Nat \cup {None} /\ cache.erroredAt \in Nat \cup {None}
        /\ cache.value \in Nat
        /\ cache.value # 0 => cache.value \in Version
        /\ upstream \in Version /\ Version \subseteq Nat
        /\ \A v \in Version : superseded[v] \in Nat \cup {None}
        /\ \A r \in Readers : /\ reader[r].began \in Nat
                              /\ reader[r].answer.at \in Nat
                              /\ reader[r].answer.ver \in Nat
                              /\ reader[r].answer.ver # 0 => reader[r].answer.ver \in Version
                              /\ reader[r] \in ReaderState
    BY Stamps
  <2>2. reader \in [Readers -> ReaderState]
    BY DEF TypeOK, ReaderState
  <2>3. PanelAge /\ CacheAge /\ \A r \in Readers : AgeOK(r)
    BY DEF StaleInv
  \* A step of one reader that moves neither the clock nor the panel nor the cache.
  <2>4. ASSUME NEW r \in Readers, UNCHANGED <<now, upstream, superseded, cache>>,
               \A q \in Readers \ {r} : reader'[q] = reader[q],
               AgeOK(r)'
        PROVE  StaleInv'
    <3>1. PanelAge' /\ CacheAge'
      BY <2>3, <2>4 DEF PanelAge, CacheAge
    <3>2. \A q \in Readers \ {r} : AgeOK(q)'
      BY <2>3, <2>4 DEF AgeOK
    <3> QED
      BY <2>4, <3>1, <3>2 DEF StaleInv
  <2>5. ASSUME NEW r \in Readers, Check(r) PROVE StaleInv'
    <3>1. UNCHANGED <<now, upstream, superseded, cache>>
      BY <2>5 DEF Check
    <3>2. \A q \in Readers \ {r} : reader'[q] = reader[q]
      BY <2>2, <2>5 DEF Check
    <3>3. reader'[r].began = now
      BY <2>2, <2>5 DEF Check
    <3>4. CASE Fresh \/ FreshErr
      <4>1. reader'[r].pc = "done" /\ reader'[r].answer = Hit
        BY <2>2, <2>5, <3>4 DEF Check
      <4>2. IF Hit.ver = 0 THEN Hit.at + TTL >= now
                           ELSE superseded[Hit.ver] # None => superseded[Hit.ver] + TTL + Timeout >= now
        BY <2>3, <3>4, HitAge
      <4>3. AgeOK(r)'
        BY <2>1, <3>1, <3>3, <4>1, <4>2 DEF AgeOK
      <4> QED
        BY <2>4, <3>1, <3>2, <4>3
    <3>5. CASE ~(Fresh \/ FreshErr)
      <4>1. reader'[r].pc = "join"
        BY <2>2, <2>5, <3>5 DEF Check
      <4>2. AgeOK(r)'
        BY <2>1, <3>1, <3>3, <4>1 DEF AgeOK
      <4> QED
        BY <2>4, <3>1, <3>2, <4>2
    <3> QED
      BY <3>4, <3>5
  <2>6. ASSUME NEW r \in Readers, Join(r) PROVE StaleInv'
    <3>1. UNCHANGED <<now, upstream, superseded, cache>>
      BY <2>6 DEF Join
    <3>2. \A q \in Readers \ {r} : reader'[q] = reader[q]
      BY <2>2, <2>6 DEF Join
    <3>3. reader'[r].began = reader[r].began /\ reader'[r].pc \in {"recheck", "wait"}
      BY <2>2, <2>6 DEF Join, ReaderState
    <3>4. AgeOK(r)'
      BY <2>3, <3>1, <3>3 DEF AgeOK
    <3> QED
      BY <2>4, <3>1, <3>2, <3>4
  <2>7. ASSUME NEW r \in Readers, Recheck(r) PROVE StaleInv'
    <3>1. UNCHANGED <<now, upstream, superseded, cache>>
      BY <2>7 DEF Recheck
    <3>2. \A q \in Readers \ {r} : reader'[q] = reader[q]
      BY <2>2, <2>7 DEF Recheck, StartFetch
    <3>3. reader'[r].began = reader[r].began /\ reader[r].began <= now
      BY <2>2, <2>3, <2>7 DEF Recheck, StartFetch, ReaderState, AgeOK
    <3>4. CASE Fresh \/ FreshErr
      <4>1. reader'[r].pc = "release" /\ reader'[r].answer = Hit
        BY <2>2, <2>7, <3>4 DEF Recheck, ReaderState
      <4>2. IF Hit.ver = 0 THEN Hit.at + TTL >= now
                           ELSE superseded[Hit.ver] # None => superseded[Hit.ver] + TTL + Timeout >= now
        BY <2>3, <3>4, HitAge
      <4>3. AgeOK(r)'
        BY <2>1, <3>1, <3>3, <4>1, <4>2 DEF AgeOK
      <4> QED
        BY <2>4, <3>1, <3>2, <4>3
    <3>5. CASE ~(Fresh \/ FreshErr)
      <4>1. reader'[r].pc = "fetch" /\ reader'[r].answer = [ver |-> 0, at |-> now]
        BY <2>2, <2>7, <3>5 DEF Recheck, StartFetch, ReaderState
      <4>2. AgeOK(r)'
        BY <2>1, <3>1, <3>3, <4>1 DEF AgeOK
      <4> QED
        BY <2>4, <3>1, <3>2, <4>2
    <3> QED
      BY <3>4, <3>5
  <2>8. ASSUME NEW r \in Readers, PanelReads(r) PROVE StaleInv'
    <3>1. UNCHANGED <<now, upstream, superseded, cache>>
      BY <2>8 DEF PanelReads
    <3>2. \A q \in Readers \ {r} : reader'[q] = reader[q]
      BY <2>2, <2>8 DEF PanelReads
    <3>3. /\ reader'[r].began = reader[r].began /\ reader'[r].pc = "answered"
          /\ reader'[r].answer.ver = upstream /\ reader'[r].answer.at = reader[r].answer.at
      BY <2>2, <2>8 DEF PanelReads, ReaderState, Answer
    <3>4. upstream # 0 /\ superseded[upstream] = None
      BY <2>1, <2>3 DEF PanelAge, Version
    <3>5. /\ reader[r].began <= now /\ reader[r].answer.at <= now
          /\ now <= reader[r].answer.at + Timeout
      BY <2>3, <2>8 DEF PanelReads, AgeOK
    <3>6. AgeOK(r)'
      BY <2>1, <3>1, <3>3, <3>4, <3>5 DEF AgeOK
    <3> QED
      BY <2>4, <3>1, <3>2, <3>6
  <2>9. ASSUME NEW r \in Readers, Respond(r) PROVE StaleInv'
    <3>1. UNCHANGED <<now, upstream, superseded, cache>>
      BY <2>9 DEF Respond
    <3>2. \A q \in Readers \ {r} : reader'[q] = reader[q]
      BY <2>2, <2>9 DEF Respond
    <3>3. /\ reader'[r].began = reader[r].began /\ reader'[r].pc = "store"
          /\ reader'[r].answer.at = now
          /\ reader'[r].answer.ver \in {reader[r].answer.ver, 0}
      BY <2>2, <2>9 DEF Respond, ReaderState
    <3> DEFINE ver == reader[r].answer.ver
    <3>4. ver # 0 /\ superseded[ver] # None => superseded[ver] + Timeout >= now
      <4>1. CASE ver # 0 /\ superseded[ver] # None
        <5>1. reader[r].pc = "answered"
          BY <2>3, <2>9, <4>1 DEF Respond, AgeOK
        <5>2. superseded[ver] >= reader[r].answer.at /\ now <= reader[r].answer.at + Timeout
          BY <2>3, <4>1, <5>1 DEF AgeOK
        <5>3. superseded[ver] \in Nat
          BY <2>1, <4>1
        <5>4. reader[r].answer.at \in Nat /\ now \in Nat /\ Timeout \in Nat
          BY <2>1
        <5> QED
          BY <5>2, <5>3, <5>4
      <4> QED
        BY <4>1
    <3>5. AgeOK(r)'
      <4>1. reader[r].began <= now
        BY <2>3 DEF AgeOK
      <4> QED
        BY <2>1, <3>1, <3>3, <3>4, <4>1 DEF AgeOK
    <3> QED
      BY <2>4, <3>1, <3>2, <3>5
  <2>10. ASSUME NEW r \in Readers, Store(r) PROVE StaleInv'
    <3>1. UNCHANGED <<now, upstream, superseded>>
      BY <2>10 DEF Store
    <3>2. /\ \A q \in Readers \ {r} : reader'[q] = reader[q]
          /\ reader'[r].answer = reader[r].answer /\ reader'[r].pc = "release"
          /\ reader'[r].began = reader[r].began
      BY <2>2, <2>10 DEF Store, ReaderState
    <3> DEFINE ver == reader[r].answer.ver
    <3>3. /\ reader[r].began <= now /\ reader[r].answer.at = now
          /\ ver # 0 /\ superseded[ver] # None => superseded[ver] + Timeout >= now
      BY <2>3, <2>10 DEF Store, AgeOK
    <3>4. ver # 0 => superseded[ver] \in Nat \cup {None}
      BY <2>1
    <3>5. AgeOK(r)'
      BY <2>1, <3>1, <3>2, <3>3, <3>4 DEF AgeOK
    <3>6. \A q \in Readers \ {r} : AgeOK(q)'
      BY <2>3, <3>1, <3>2 DEF AgeOK
    <3>7. CacheAge'
      <4>1. CASE ver = 0
        <5>1. cache'.erroredAt = now /\ cache'.fetchedAt = cache.fetchedAt /\ cache'.value = cache.value
          BY <2>10, <4>1 DEF Store, Stored, TypeOK
        <5> QED
          BY <2>1, <2>3, <3>1, <5>1 DEF CacheAge
      <4>2. CASE ver # 0
        <5>1. cache' = [value |-> ver, fetchedAt |-> now, erroredAt |-> None]
          BY <2>10, <4>2 DEF Store, Stored
        <5> QED
          BY <2>1, <3>1, <3>3, <4>2, <5>1 DEF CacheAge
      <4> QED
        BY <4>1, <4>2
    <3>8. PanelAge'
      BY <2>3, <3>1 DEF PanelAge
    <3> QED
      BY <3>5, <3>6, <3>7, <3>8 DEF StaleInv
  <2>11. ASSUME NEW r \in Readers, Release(r) PROVE StaleInv'
    <3>1. UNCHANGED <<now, upstream, superseded, cache>>
      BY <2>11 DEF Release
    <3> DEFINE a == reader[r].answer
    <3>2. IF a.ver = 0 THEN a.at + TTL >= now
                       ELSE superseded[a.ver] # None => superseded[a.ver] + TTL + Timeout >= now
      BY <2>3, <2>11 DEF Release, AgeOK
    <3>3. a.ver # 0 => superseded[a.ver] \in Nat \cup {None}
      BY <2>1
    <3>4. ASSUME NEW q \in Readers PROVE AgeOK(q)'
      <4>0. reader[q].began \in Nat /\ reader[q].began <= now
        BY <2>1, <2>3 DEF AgeOK
      <4>1. CASE q = r \/ reader[q].pc = "wait"
        <5>1. /\ reader'[q].pc = "done" /\ reader'[q].answer = a
              /\ reader'[q].began = reader[q].began
          BY <2>1, <2>11, <4>1 DEF Release, ReaderState
        <5>2. IF a.ver = 0 THEN a.at + TTL >= reader[q].began
                           ELSE superseded[a.ver] # None =>
                                  superseded[a.ver] + TTL + Timeout >= reader[q].began
          BY <2>1, <3>2, <3>3, <4>0
        <5> QED
          BY <3>1, <4>0, <5>1, <5>2 DEF AgeOK
      <4>2. CASE ~(q = r \/ reader[q].pc = "wait")
        <5>1. reader'[q] = reader[q]
          BY <2>11, <4>2 DEF Release
        <5> QED
          BY <2>3, <3>1, <5>1 DEF AgeOK
      <4> QED
        BY <4>1, <4>2
    <3>5. PanelAge' /\ CacheAge'
      BY <2>3, <3>1 DEF PanelAge, CacheAge
    <3> QED
      BY <3>4, <3>5 DEF StaleInv
  <2>12. CASE Write \/ Elsewhere
    <3>1. UNCHANGED <<now, cache, reader>> /\ NewVersion
      BY <2>12 DEF Write, Elsewhere
    <3>2. /\ upstream' = upstream + 1 /\ upstream < MaxVersion
          /\ superseded' = [superseded EXCEPT ![upstream] = now]
      BY <3>1 DEF NewVersion
    <3>3. /\ superseded' \in [Version -> Nat \cup {None}]
          /\ \A v \in Version : superseded'[v] = IF v = upstream THEN now ELSE superseded[v]
      BY <2>1, <3>2 DEF TypeOK, Time
    <3>4. PanelAge'
      <4>1. upstream' \in Version
        BY <2>1, <3>2 DEF Version
      <4>2. superseded'[upstream'] = None
        BY <2>1, <2>3, <3>2, <3>3, <4>1 DEF PanelAge
      <4>3. \A v \in Version : superseded'[v] # None => superseded'[v] <= now'
        BY <2>1, <2>3, <3>1, <3>3 DEF PanelAge
      <4>4. \A v \in Version : v > upstream' => superseded'[v] = None
        BY <2>1, <2>3, <3>2, <3>3 DEF PanelAge
      <4> QED
        BY <4>2, <4>3, <4>4 DEF PanelAge
    <3>5. CacheAge'
      BY <2>1, <2>3, <3>1, <3>3 DEF CacheAge
    <3>6. ASSUME NEW q \in Readers PROVE AgeOK(q)'
      <4> DEFINE v == reader[q].answer.ver
      <4>1. /\ AgeOK(q)
            /\ reader[q].began \in Nat /\ reader[q].answer.at \in Nat
        BY <2>1, <2>3
      <4>2. CASE v \in Version /\ v # upstream
        <5>1. superseded'[v] = superseded[v]
          BY <3>3, <4>2
        <5> QED
          BY <3>1, <4>1, <5>1 DEF AgeOK
      <4>3. CASE v = upstream
        <5>1. superseded'[v] = now
          BY <2>1, <3>3, <4>3
        <5> QED
          BY <2>1, <3>1, <4>1, <5>1 DEF AgeOK
      <4>4. CASE v = 0
        BY <3>1, <4>1, <4>4 DEF AgeOK
      <4> QED
        BY <2>1, <4>2, <4>3, <4>4
    <3> QED
      BY <3>4, <3>5, <3>6 DEF StaleInv
  <2>13. CASE AnswerLost \/ UNCHANGED vars
    BY <2>3, <2>13 DEF AnswerLost, vars, StaleInv, PanelAge, CacheAge, AgeOK
  <2>14. CASE Invalidate
    <3>1. /\ UNCHANGED <<now, upstream, superseded, reader>>
          /\ cache'.fetchedAt = None /\ cache'.erroredAt = None
      BY <2>14 DEF Invalidate, Cleared, Empty
    <3> QED
      BY <2>3, <3>1 DEF StaleInv, PanelAge, CacheAge, AgeOK
  <2>15. CASE Tick
    <3>1. UNCHANGED <<upstream, superseded, cache, reader>> /\ now' = now + 1
      BY <2>15 DEF Tick
    <3>2. ASSUME NEW q \in Readers PROVE AgeOK(q)'
      <4>1. /\ AgeOK(q) /\ reader[q].began \in Nat /\ reader[q].answer.at \in Nat
        BY <2>1, <2>3
      <4>2. /\ reader[q].pc \notin {"recheck", "store", "release"}
            /\ reader[q].pc \in {"fetch", "answered"} => now < reader[q].answer.at + Timeout
        BY <2>15 DEF Tick
      <4> QED
        BY <2>1, <3>1, <4>1, <4>2 DEF AgeOK
    <3>3. PanelAge' /\ CacheAge'
      BY <2>1, <2>3, <3>1 DEF PanelAge, CacheAge
    <3> QED
      BY <3>2, <3>3 DEF StaleInv
  <2> QED
    BY <2>5, <2>6, <2>7, <2>8, <2>9, <2>10, <2>11, <2>12, <2>13, <2>14, <2>15 DEF Next, Get
<1> QED
  BY <1>1, <1>2, TypeCorrect, PTL DEF Spec

\* What get returns was the panel's at most TTL and one fetch before the call
\* began, and a failure is replayed for at most TTL: for any number of readers,
\* whoever executes the call and however the panel and the Worker interfere.
THEOREM AnswersNeverStale == Spec => []NeverStalerThanTTL
<1>1. StaleInv => NeverStalerThanTTL
  BY DEF StaleInv, AgeOK, NeverStalerThanTTL
<1> QED
  BY <1>1, StaleInvariant, PTL

-----------------------------------------------------------------------------
\* Until the Worker clears the cache, the stamp of the last answer stored is in
\* it: a failure leaves the value's stamp and sets its own, a success is newest.
StoreInv ==
  lastStore # None =>
    /\ lastStore <= now
    /\ ~cleared => cache.fetchedAt = lastStore \/ cache.erroredAt = lastStore

LEMMA StoreInvariant == Spec => []StoreInv
<1>1. Init => StoreInv
  BY DEF Init, StoreInv
<1>2. TypeOK /\ StoreInv /\ [Next]_vars => StoreInv'
  <2> SUFFICES ASSUME TypeOK, StoreInv, [Next]_vars PROVE StoreInv'
    OBVIOUS
  <2>1. now \in Nat /\ (lastStore # None => lastStore \in Nat)
    BY DEF TypeOK, Time
  <2>2. ASSUME NEW r \in Readers, Store(r) PROVE StoreInv'
    <3>1. now' = now /\ lastStore' = now
      BY <2>2 DEF Store
    <3>2. cache'.fetchedAt = now \/ cache'.erroredAt = now
      BY <2>2 DEF Store, Stored, TypeOK
    <3> QED
      BY <2>1, <3>1, <3>2 DEF StoreInv
  <2>3. CASE Invalidate
    BY <2>3 DEF Invalidate, StoreInv
  <2>4. CASE Tick
    BY <2>1, <2>4 DEF Tick, StoreInv, history
  <2>5. ASSUME UNCHANGED <<now, cache, lastStore, cleared>> PROVE StoreInv'
    BY <2>5 DEF StoreInv
  <2>6. ASSUME NEW r \in Readers,
               Check(r) \/ Join(r) \/ Recheck(r) \/ PanelReads(r) \/ Respond(r) \/ Release(r)
        PROVE  StoreInv'
    BY <2>5, <2>6 DEF Check, Join, Recheck, PanelReads, Respond, Release, history
  <2>7. CASE Write \/ AnswerLost \/ Elsewhere \/ UNCHANGED vars
    BY <2>5, <2>7 DEF Write, AnswerLost, Elsewhere, vars, history
  <2> QED
    BY <2>2, <2>3, <2>4, <2>6, <2>7 DEF Next, Get
<1> QED
  BY <1>1, <1>2, TypeCorrect, PTL DEF Spec

\* However many goroutines call get, and whether the panel is up or down, it is
\* asked at most once per TTL unless the Worker invalidated between.
THEOREM FetchedOncePerTTL == Spec => OneFetchPerTTL
<1> USE TtlCacheAssumption
<1> DEFINE Asks(r) == reader[r].pc = "recheck" /\ reader'[r].pc = "fetch"
           Due == lastStore = None \/ cleared \/ now - lastStore >= TTL
<1>1. TypeOK /\ StoreInv /\ [Next]_vars => [\A r \in Readers : Asks(r) => Due]_vars
  <2> SUFFICES ASSUME TypeOK, StoreInv, Next, NEW r \in Readers, Asks(r) PROVE Due
    OBVIOUS
  <2>1. reader \in [Readers -> ReaderState]
    BY DEF TypeOK, ReaderState
  <2>2. Recheck(r)
    <3>1. ASSUME NEW q \in Readers, Check(q) PROVE FALSE
      BY <2>1, <3>1 DEF Check
    <3>2. ASSUME NEW q \in Readers, Join(q) PROVE FALSE
      BY <2>1, <3>2 DEF Join, ReaderState
    <3>3. ASSUME NEW q \in Readers, PanelReads(q) \/ Respond(q) \/ Store(q) PROVE FALSE
      BY <2>1, <3>3 DEF PanelReads, Respond, Store, ReaderState
    <3>4. ASSUME NEW q \in Readers, Release(q) PROVE FALSE
      <4>1. CASE r = q
        BY <3>4, <4>1 DEF Release
      <4>2. CASE r # q
        <5>1. reader'[r] = reader[r]
          BY <3>4, <4>2 DEF Release
        <5> QED
          BY <5>1
      <4> QED
        BY <4>1, <4>2
    <3>5. ASSUME NEW q \in Readers, q # r, Recheck(q) PROVE FALSE
      <4>1. reader'[r] = reader[r]
        BY <2>1, <3>5 DEF Recheck, StartFetch
      <4> QED
        BY <4>1
    <3>6. CASE Write \/ Invalidate \/ AnswerLost \/ Elsewhere \/ Tick
      BY <3>6 DEF Write, Invalidate, AnswerLost, Elsewhere, Tick
    <3> QED
      BY <3>1, <3>2, <3>3, <3>4, <3>5, <3>6 DEF Next, Get
  <2>3. ~Fresh /\ ~FreshErr
    BY <2>1, <2>2 DEF Recheck, ReaderState
  <2>4. CASE lastStore # None /\ ~cleared
    <3>1. cache.fetchedAt = lastStore \/ cache.erroredAt = lastStore
      BY <2>4 DEF StoreInv
    <3>2. ~Within(lastStore)
      BY <2>3, <3>1 DEF Fresh, FreshErr
    <3>3. now \in Nat /\ lastStore \in Nat /\ TTL \in Nat /\ lastStore <= now
      BY <2>4 DEF TypeOK, Time, StoreInv
    <3> QED
      BY <2>4, <3>2, <3>3 DEF Within
  <2> QED
    BY <2>4
<1>2. Spec => [][\A r \in Readers : Asks(r) => Due]_vars
  BY <1>1, TypeCorrect, StoreInvariant, PTL DEF Spec
<1> QED
  BY <1>2 DEF OneFetchPerTTL
=============================================================================
