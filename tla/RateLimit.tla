------------------------------ MODULE RateLimit ------------------------------
(***************************************************************************)
(* internal/ratelimit/ratelimit.go: one token bucket per key, made when    *)
(* the key is first seen.  The map is looked up under a mutex, a token is  *)
(* taken after it is released, so requests of one key interleave between   *)
(* the two.                                                                *)
(*                                                                         *)
(* A request costs Cost and a bucket earns Rate per tick of the clock.     *)
(* x/time/rate computes what was earned when it is next asked; here every  *)
(* bucket earns as the clock ticks, which comes to the same.               *)
(***************************************************************************)
EXTENDS Integers

CONSTANTS
  Clients,   \* who sends requests
  Keys,      \* addresses connections come from
  RemoteAddr,\* the address of each client's connections: behind a proxy, the proxy's
  Callers,   \* requests under way at once
  Buckets,   \* identities of the *rate.Limiter made
  Rate,      \* requestsPerMinute, per tick
  Cost,      \* of one request, in the same unit
  Burst,     \* as configured
  MaxEarned, \* bound: a window is watched until it earned this much
  None

ASSUME RateLimitAssumption ==
  /\ Rate \in Nat /\ Cost \in Nat \ {0} /\ Burst \in Int /\ MaxEarned \in Nat
  /\ RemoteAddr \in [Clients -> Keys] /\ None \notin Buckets

VARIABLES
  limiters,  \* the map: the bucket of each key seen
  tokens,    \* what each bucket holds
  made,      \* the buckets made so far
  caller,    \* a request that has its bucket and not yet its answer
  window,    \* of an address, since a moment picked at will: what a bucket earns
             \* in it, and the requests from there that were admitted
  refusal    \* the address's window at the last refusal in it

vars == <<limiters, tokens, made, caller, window, refusal>>

Capacity == IF Burst < 1 THEN 1 ELSE Burst
Full == Cost * Capacity
Least(a, b) == IF a < b THEN a ELSE b

Window == [earned : Nat, spent : Nat]
Opened == [earned |-> 0, spent |-> 0]

TypeOK ==
  /\ limiters \in [Keys -> Buckets \cup {None}]
  /\ tokens \in [Buckets -> 0..Full]
  /\ made \in SUBSET Buckets
  /\ caller \in [Callers -> [address : Keys, bucket : Buckets] \cup {None}]
  /\ window \in [Keys -> Window]
  /\ refusal \in [Keys -> Window \cup {None}]

Init ==
  /\ limiters = [k \in Keys |-> None]
  /\ tokens = [b \in Buckets |-> Full]
  /\ made = {}
  /\ caller = [c \in Callers |-> None]
  /\ window = [k \in Keys |-> Opened]
  /\ refusal = [k \in Keys |-> None]

\* Mutant of ClientIP: one key for everybody.
ClientIPConstant(client) == CHOOSE k \in Keys : TRUE

ClientIP(client) == RemoteAddr[client]

\* Mutant of Found: full buckets are dropped from the map.
FoundUsed(k) == limiters[k] # None /\ tokens[limiters[k]] < Full

Found(k) == limiters[k] # None

\* Allow up to l.mu.Unlock.
Lookup(c, client) ==
  /\ caller[c] = None
  /\ LET k == ClientIP(client)
     IN  \/ /\ Found(k)
            /\ caller' = [caller EXCEPT ![c] = [address |-> RemoteAddr[client], bucket |-> limiters[k]]]
            /\ UNCHANGED <<limiters, made>>
         \/ /\ ~Found(k)
            /\ \E b \in Buckets \ made :
                 /\ limiters' = [limiters EXCEPT ![k] = b]
                 /\ made' = made \cup {b}
                 /\ caller' = [caller EXCEPT ![c] = [address |-> RemoteAddr[client], bucket |-> b]]
  /\ UNCHANGED <<tokens, window, refusal>>

\* Allow after it, the request served.
Admit(c) ==
  /\ caller[c] # None
  /\ LET b == caller[c].bucket
     IN  /\ tokens[b] >= Cost
         /\ tokens' = [tokens EXCEPT ![b] = @ - Cost]
         /\ window' = [window EXCEPT ![caller[c].address].spent = @ + 1]
  /\ caller' = [caller EXCEPT ![c] = None]
  /\ UNCHANGED <<limiters, made, refusal>>

\* Allow after it, the request answered with 429.
Refuse(c) ==
  /\ caller[c] # None
  /\ tokens[caller[c].bucket] < Cost
  /\ refusal' = [refusal EXCEPT ![caller[c].address] = window[caller[c].address]]
  /\ caller' = [caller EXCEPT ![c] = None]
  /\ UNCHANGED <<limiters, tokens, made, window>>

Tick ==
  /\ \A k \in Keys : window[k].earned < MaxEarned
  /\ tokens' = [b \in Buckets |-> Least(Full, tokens[b] + Rate)]
  /\ window' = [k \in Keys |-> [window[k] EXCEPT !.earned = @ + Rate]]
  /\ UNCHANGED <<limiters, made, caller, refusal>>

\* The window to watch may begin at any moment.
Open(address) ==
  /\ window' = [window EXCEPT ![address] = Opened]
  /\ refusal' = [refusal EXCEPT ![address] = None]
  /\ UNCHANGED <<limiters, tokens, made, caller>>

Next ==
  \/ \E c \in Callers, client \in Clients : Lookup(c, client)
  \/ \E c \in Callers : Admit(c) \/ Refuse(c)
  \/ \E address \in Keys : Open(address)
  \/ Tick

Spec == Init /\ [][Next]_vars

-----------------------------------------------------------------------------

\* In any stretch of time an address gets no more requests through than the
\* burst and what the rate allows for that time, however its requests
\* interleave with each other and with the making of its bucket (Allow).
WithinRate ==
  \A k \in Keys : Cost * window[k].spent <= Full + window[k].earned

\* A request is refused for what came from its own address only: in any
\* stretch before the refusal, what was admitted from there and the refused
\* request together exceed what was earned in it, or a full bucket if that is
\* less (Middleware).  Clients behind one address are one to the limiter.
RefusedForItsAddress ==
  \A k \in Keys : refusal[k] # None =>
    Cost * (refusal[k].spent + 1) > Least(refusal[k].earned, Full)
=============================================================================
