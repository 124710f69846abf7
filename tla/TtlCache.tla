------------------------------ MODULE TtlCache ------------------------------
(***************************************************************************)
(* The cache between the readers of the panel's inbound and host lists     *)
(* (subscription requests, the admin's user list) and the panel:           *)
(* internal/xui/cache.go, ttlCache.  Any number of goroutines call get;    *)
(* singleflight lets one of them fetch while the others wait for what it   *)
(* gets; the sync Worker invalidates after each push that succeeded.       *)
(*                                                                         *)
(* The panel's list is abstracted to its version.  Time is a counter whose *)
(* unit is coarse: in-memory steps take none of it, a fetch at most        *)
(* Timeout (the HTTP client's, with its retries).                          *)
(***************************************************************************)
EXTENDS Naturals

CONSTANTS
  Readers,      \* goroutines calling get
  TTL,          \* ttlCache.ttl; 0 disables caching
  Timeout,      \* the longest a fetch can take
  MaxTime,      \* bound: the clock
  MaxVersion,   \* bound: versions of the panel's list
  None          \* no time stamp, no leader

ASSUME TtlCacheAssumption ==
  /\ TTL \in Nat
  /\ Timeout \in Nat
  /\ MaxTime \in Nat
  /\ MaxVersion \in Nat \ {0}
  /\ None \notin Nat /\ None \notin Readers

VARIABLES
  now,          \* the clock
  upstream,     \* version of the list on the panel
  superseded,   \* history: when each version stopped being the panel's
  cache,        \* value, fetchedAt and erroredAt (lastErr is set with it)
  leader,       \* the reader whose call singleflight is executing
  reader,       \* each reader: where it is, when its call began, its answer
  worker,       \* the sync Worker: "idle", or "wrote" with Invalidate to come
  lastStore,    \* history: when an answer was last stored
  cleared,      \* history: Invalidate came after that
  floor,        \* history: the panel's version at the last Invalidate
  calmFloor     \* history: the same, of those that came with no call executing

history == <<lastStore, cleared, floor, calmFloor>>
vars == <<now, upstream, superseded, cache, leader, reader, worker, lastStore,
          cleared, floor, calmFloor>>

Version == 1..MaxVersion
Time == 0..MaxTime

\* What get returns: a version of the list, or 0 for an error, and when it
\* was obtained.
Answer == [ver : 0..MaxVersion, at : Time]
NoAnswer == [ver |-> 0, at |-> 0]
NeverBegan == [pc |-> "idle", began |-> 0, floor |-> 0, calmFloor |-> 0, answer |-> NoAnswer]

Empty == [value |-> 0, fetchedAt |-> None, erroredAt |-> None]

TypeOK ==
  /\ now \in Time
  /\ upstream \in Version
  /\ superseded \in [Version -> Time \cup {None}]
  /\ cache \in [value : 0..MaxVersion, fetchedAt : Time \cup {None},
                erroredAt : Time \cup {None}]
  /\ leader \in Readers \cup {None}
  /\ reader \in [Readers ->
       [pc : {"idle", "join", "wait", "recheck", "fetch", "answered", "store", "release",
              "done"},
        began : Time, floor : 0..MaxVersion, calmFloor : 0..MaxVersion, answer : Answer]]
  /\ worker \in {"idle", "wrote"}
  /\ lastStore \in Time \cup {None}
  /\ cleared \in BOOLEAN
  /\ floor \in 0..MaxVersion
  /\ calmFloor \in 0..MaxVersion

Init ==
  /\ now = 0
  /\ upstream = 1
  /\ superseded = [v \in Version |-> None]
  /\ cache = Empty
  /\ leader = None
  /\ reader = [r \in Readers |-> NeverBegan]
  /\ worker = "idle"
  /\ lastStore = None
  /\ cleared = FALSE
  /\ floor = 0
  /\ calmFloor = 0

-----------------------------------------------------------------------------
(* get.                                                                    *)

Within(stamp) == TTL > 0 /\ stamp # None /\ now - stamp < TTL

Fresh == Within(cache.fetchedAt)
FreshErr == Within(cache.erroredAt)

\* Mutant of Hit: a cached failure answered with the old value.
HitUnchecked == [ver |-> cache.value, at |-> cache.fetchedAt]

\* What the cache has to say, a fresh value before a fresh failure.
Hit ==
  IF Fresh THEN [ver |-> cache.value, at |-> cache.fetchedAt]
           ELSE [ver |-> 0, at |-> cache.erroredAt]

\* A call begins: the first look, under the read lock.
Check(r) ==
  /\ reader[r].pc \in {"idle", "done"}
  /\ reader' = [reader EXCEPT ![r] =
       [pc |-> IF Fresh \/ FreshErr THEN "done" ELSE "join", began |-> now,
        floor |-> floor, calmFloor |-> calmFloor,
        answer |-> IF Fresh \/ FreshErr THEN Hit ELSE NoAnswer]]
  /\ UNCHANGED <<now, upstream, superseded, cache, leader, worker, history>>

\* singleflight: one executes the call, who comes later waits for it.
Join(r) ==
  /\ reader[r].pc = "join"
  /\ leader' = IF leader = None THEN r ELSE leader
  /\ reader' = [reader EXCEPT ![r].pc = IF leader = None THEN "recheck" ELSE "wait"]
  /\ UNCHANGED <<now, upstream, superseded, cache, worker, history>>

\* The leader sends its request (answer.at holds when).
StartFetch(r) == [reader EXCEPT ![r].pc = "fetch", ![r].answer = [ver |-> 0, at |-> now]]

\* Mutant of Recheck: who leads fetches, without the second look.
RecheckNot(r) ==
  /\ reader[r].pc = "recheck"
  /\ reader' = StartFetch(r)
  /\ UNCHANGED <<now, upstream, superseded, cache, leader, worker, history>>

\* Mutant of Recheck: the early return leaves the call marked as executing.
RecheckStuck(r) ==
  /\ reader[r].pc = "recheck"
  /\ reader' = IF Fresh \/ FreshErr
                 THEN [reader EXCEPT ![r].pc = "done", ![r].answer = Hit]
                 ELSE StartFetch(r)
  /\ UNCHANGED <<now, upstream, superseded, cache, leader, worker, history>>

\* The second look, inside the call.
Recheck(r) ==
  /\ reader[r].pc = "recheck"
  /\ reader' = IF Fresh \/ FreshErr
                 THEN [reader EXCEPT ![r].pc = "release", ![r].answer = Hit]
                 ELSE StartFetch(r)
  /\ UNCHANGED <<now, upstream, superseded, cache, leader, worker, history>>

\* The panel reads its list for the request; the answer is still to arrive.
PanelReads(r) ==
  /\ reader[r].pc = "fetch"
  /\ reader' = [reader EXCEPT ![r].pc = "answered", ![r].answer.ver = upstream]
  /\ UNCHANGED <<now, upstream, superseded, cache, leader, worker, history>>

\* fetch returns: the list as the panel had it, or an error; the panel's, or
\* that of the leader's own context when its request is cancelled.
Respond(r) ==
  /\ reader[r].pc \in {"fetch", "answered"}
  /\ \E v \in {reader[r].answer.ver, 0} :
       reader' = [reader EXCEPT ![r].pc = "store", ![r].answer = [ver |-> v, at |-> now]]
  /\ UNCHANGED <<now, upstream, superseded, cache, leader, worker, history>>

\* Mutant of Stored: a failure renews the old value too.
StoredRenewing(v) ==
  IF v = 0 THEN [cache EXCEPT !.erroredAt = now, !.fetchedAt = IF @ = None THEN None ELSE now]
           ELSE [value |-> v, fetchedAt |-> now, erroredAt |-> None]

\* The cache with a new answer: a failure keeps the old value and its stamp.
Stored(v) ==
  IF v = 0 THEN [cache EXCEPT !.erroredAt = now]
           ELSE [value |-> v, fetchedAt |-> now, erroredAt |-> None]

Store(r) ==
  /\ reader[r].pc = "store"
  /\ cache' = Stored(reader[r].answer.ver)
  /\ reader' = [reader EXCEPT ![r].pc = "release"]
  /\ lastStore' = now
  /\ cleared' = FALSE
  /\ UNCHANGED <<now, upstream, superseded, leader, worker, floor, calmFloor>>

\* singleflight: the call is over and all who waited have its answer.
Release(r) ==
  /\ reader[r].pc = "release"
  /\ leader' = None
  /\ reader' = [q \in Readers |->
       IF q = r \/ reader[q].pc = "wait"
         THEN [reader[q] EXCEPT !.pc = "done", !.answer = reader[r].answer]
         ELSE reader[q]]
  /\ UNCHANGED <<now, upstream, superseded, cache, worker, history>>

-----------------------------------------------------------------------------
(* The Worker, the panel and the clock.                                    *)

NewVersion ==
  /\ upstream < MaxVersion
  /\ upstream' = upstream + 1
  /\ superseded' = [superseded EXCEPT ![upstream] = now]

\* A push by the Worker takes effect on the panel.
Write ==
  /\ worker = "idle"
  /\ worker' = "wrote"
  /\ NewVersion
  /\ UNCHANGED <<now, cache, leader, reader, history>>

\* Mutant of Cleared: the stamp of the value is left.
ClearedErrOnly == [cache EXCEPT !.erroredAt = None]

Cleared == Empty

\* ... and the Worker has its answer: CachedLister.Invalidate.
Invalidate ==
  /\ worker = "wrote"
  /\ worker' = "idle"
  /\ cache' = Cleared
  /\ cleared' = TRUE
  /\ floor' = upstream
  /\ calmFloor' = IF leader = None THEN upstream ELSE calmFloor
  /\ UNCHANGED <<now, upstream, superseded, leader, reader, lastStore>>

\* ... or the answer is lost: the job is retried, nothing is invalidated.
AnswerLost ==
  /\ worker = "wrote"
  /\ worker' = "idle"
  /\ UNCHANGED <<now, upstream, superseded, cache, leader, reader, history>>

\* Somebody changes the panel directly.
Elsewhere ==
  /\ NewVersion
  /\ UNCHANGED <<now, cache, leader, reader, worker, history>>

Tick ==
  /\ now < MaxTime
  /\ \A r \in Readers :
       /\ reader[r].pc \notin {"recheck", "store", "release"}
       /\ reader[r].pc \in {"fetch", "answered"} => now < reader[r].answer.at + Timeout
  /\ now' = now + 1
  /\ UNCHANGED <<upstream, superseded, cache, leader, reader, worker, history>>

-----------------------------------------------------------------------------
Get(r) == Join(r) \/ Recheck(r) \/ Respond(r) \/ Store(r) \/ Release(r)

Next ==
  \/ \E r \in Readers : Check(r) \/ Get(r) \/ PanelReads(r)
  \/ Write \/ Invalidate \/ AnswerLost \/ Elsewhere
  \/ Tick

Spec == Init /\ [][Next]_vars

\* Goroutines run, and a request ends in an answer or in its timeout.
FairSpec == Spec /\ \A r \in Readers : WF_vars(Get(r))

-----------------------------------------------------------------------------
(* Safety.                                                                 *)

\* What get returns is never older than the cache's promise: a version was still
\* the panel's at most TTL and one fetch before the call began, and a failure
\* is replayed for at most TTL after it happened.
NeverStalerThanTTL ==
  \A r \in Readers : reader[r].pc = "done" =>
    LET a == reader[r].answer IN
    IF a.ver = 0
      THEN a.at + TTL >= reader[r].began
      ELSE superseded[a.ver] # None => superseded[a.ver] + TTL + Timeout >= reader[r].began

\* However many goroutines call and whether the panel is up or down, a request
\* goes to the panel at most once per TTL, unless the Worker invalidated
\* between (cache.go, comment of ttlCache, on the cost of not caching failures).
OneFetchPerTTL ==
  [][ \A r \in Readers :
        reader[r].pc = "recheck" /\ reader'[r].pc = "fetch" =>
          lastStore = None \/ cleared \/ now - lastStore >= TTL ]_vars

\* A call that begins after an Invalidate that met no call executing gets the
\* panel's list as of that Invalidate or later.
SeesCalmInvalidate ==
  \A r \in Readers :
    reader[r].pc = "done" /\ reader[r].answer.ver # 0 =>
      reader[r].answer.ver >= reader[r].calmFloor

(* Liveness.                                                               *)

\* Every call of get returns: nobody waits for a call that is over.
EveryCallReturns == \A r \in Readers : reader[r].pc = "join" ~> reader[r].pc = "done"

-----------------------------------------------------------------------------
(* Stated by a comment, refuted by the code.                               *)

\* cache.go, Invalidate: "forces the next ListInbounds/ListHosts call to hit
\* upstream ... so readers ... see the change immediately".
InvalidateIsImmediate ==
  \A r \in Readers :
    reader[r].pc = "done" /\ reader[r].answer.ver # 0 =>
      reader[r].answer.ver >= reader[r].floor
=============================================================================
