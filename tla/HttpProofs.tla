--------------------------- MODULE HttpProofs ---------------------------
(***************************************************************************)
(* Theorems about Http: of the limiter for any clients, addresses, rate    *)
(* and burst, of the sessions for any number of tabs and sessions and any  *)
(* term, of the subscriber's requests for any lists and links the panel    *)
(* may have.  They share the invariant of a behaviour, HttpInv, one part   *)
(* of which is about each.                                                 *)
(***************************************************************************)
EXTENDS Http, Sequences, TLAPS

LEMMA FullNat == Full \in Nat
<1>1. Capacity \in Nat
  BY RateLimitAssumption DEF Capacity
<1> QED
  BY <1>1, RateLimitAssumption DEF Full

Bucket(k) == limiters[k]
Paid(k) == Cost * window[k].spent

\* Buckets in the map and in hand are made, and the one in hand is the key's.
Linked ==
  /\ \A k \in Keys : limiters[k] # None => limiters[k] \in made
  /\ \A b \in Buckets \ made : tokens[b] = Full
  /\ \A c \in Callers : caller[c] # None => Bucket(caller[c].address) = caller[c].bucket

\* What was paid came out of the bucket.
Bounded(n) ==
  /\ Bucket(n) = None => window[n].spent = 0
  /\ Bucket(n) # None => Paid(n) + tokens[Bucket(n)] <= Full + window[n].earned

Inv == TypeOK /\ Linked /\ \A n \in Keys : Bounded(n)

LEMMA Types ==
  ASSUME TypeOK, NEW n \in Keys
  PROVE  /\ Bucket(n) \in Buckets \cup {None}
         /\ window[n].earned \in Nat /\ window[n].spent \in Nat
         /\ Paid(n) \in Nat /\ Full \in Nat
         /\ Bucket(n) # None => tokens[Bucket(n)] \in 0..Full
<1> USE RateLimitAssumption, FullNat
<1>1. Bucket(n) \in Buckets \cup {None}
  BY DEF TypeOK, Bucket
<1>2. window[n].earned \in Nat /\ window[n].spent \in Nat
  BY DEF TypeOK, Window
<1>3. Paid(n) \in Nat
  BY <1>2 DEF Paid
<1> QED
  BY <1>1, <1>2, <1>3 DEF TypeOK

LEMMA InvInit == Init => Inv
<1> SUFFICES ASSUME Init PROVE Inv
  OBVIOUS
<1> USE RateLimitAssumption, FullNat
<1>1. TypeOK
  BY DEF Init, TypeOK, Window, Opened
<1>2. Linked
  BY DEF Init, Linked
<1>3. ASSUME NEW n \in Keys PROVE Bounded(n)
  BY DEF Init, Bounded, Opened, Bucket
<1> QED
  BY <1>1, <1>2, <1>3 DEF Inv

\* A request has the bucket of its client's address.
Handed(d, client) ==
  /\ caller'[d].address = ClientIP(client)
  /\ caller'[d].bucket = limiters'[ClientIP(client)]

\* What the actions change, stated once for all proofs.
LEMMA LookupKeeps ==
  ASSUME Inv, NEW c \in Callers, NEW client \in Clients, Lookup(c, client)
  PROVE  /\ tokens' = tokens /\ window' = window /\ refusal' = refusal
         /\ limiters' \in [Keys -> Buckets \cup {None}] /\ made' \in SUBSET Buckets
         /\ caller' \in [Callers -> [address : Keys, bucket : Buckets] \cup {None}]
         /\ \A d \in Callers : caller'[d] = caller[d] \/ Handed(d, client)
         /\ \A k \in Keys : limiters'[k] = limiters[k]
              \/ /\ k = ClientIP(client) /\ limiters[k] = None
                 /\ limiters'[k] \in Buckets \ made /\ limiters'[k] \in made'
         /\ made \subseteq made'
<1> USE RateLimitAssumption
<1> DEFINE k == ClientIP(client)
<1>0. k \in Keys /\ k = RemoteAddr[client] /\ TypeOK
  BY DEF Inv, ClientIP
<1>1. CASE Found(k) /\ caller' = [caller EXCEPT ![c] = [address |-> RemoteAddr[client], bucket |-> limiters[k]]]
           /\ UNCHANGED <<limiters, made>>
  <2>1. [address |-> RemoteAddr[client], bucket |-> limiters[k]] \in [address : Keys, bucket : Buckets]
    BY <1>0, <1>1 DEF TypeOK, Found
  <2>2. \A d \in Callers : caller'[d] = caller[d] \/ Handed(d, client)
    BY <1>0, <1>1 DEF TypeOK, Handed
  <2> QED
    BY <1>0, <1>1, <2>1, <2>2 DEF TypeOK, Lookup
<1>2. ASSUME ~Found(k), NEW b \in Buckets \ made,
             limiters' = [limiters EXCEPT ![k] = b], made' = made \cup {b},
             caller' = [caller EXCEPT ![c] = [address |-> RemoteAddr[client], bucket |-> b]]
      PROVE  /\ limiters' \in [Keys -> Buckets \cup {None}] /\ made' \in SUBSET Buckets
             /\ caller' \in [Callers -> [address : Keys, bucket : Buckets] \cup {None}]
             /\ \A d \in Callers : caller'[d] = caller[d] \/ Handed(d, client)
             /\ \A j \in Keys : limiters'[j] = limiters[j]
                  \/ /\ j = k /\ limiters[j] = None
                     /\ limiters'[j] \in Buckets \ made /\ limiters'[j] \in made'
             /\ made \subseteq made'
  <2>1. limiters[k] = None
    BY <1>2 DEF Found
  <2>2. \A d \in Callers : caller'[d] = caller[d] \/ Handed(d, client)
    BY <1>0, <1>2 DEF TypeOK, Handed
  <2> QED
    BY <1>0, <1>2, <2>1, <2>2 DEF TypeOK
<1>3. tokens' = tokens /\ window' = window /\ refusal' = refusal
  BY DEF Lookup
<1> QED
  BY <1>1, <1>2, <1>3 DEF Lookup

LEMMA AdmitPays ==
  ASSUME Inv, NEW c \in Callers, Admit(c)
  PROVE  LET m == caller[c].address
             b == caller[c].bucket
         IN  /\ m \in Keys /\ b \in Buckets /\ Bucket(m) = b
             /\ tokens' \in [Buckets -> 0..Full]
             /\ tokens'[b] = tokens[b] - Cost
             /\ \A a \in Buckets : a # b => tokens'[a] = tokens[a]
             /\ window' \in [Keys -> Window]
             /\ window'[m].spent = window[m].spent + 1 /\ window'[m].earned = window[m].earned
             /\ Cost * window'[m].spent = Paid(m) + Cost
             /\ \A n \in Keys : n # m => window'[n] = window[n]
             /\ limiters' = limiters /\ made' = made /\ refusal' = refusal
             /\ caller' \in [Callers -> [address : Keys, bucket : Buckets] \cup {None}]
             /\ \A d \in Callers : caller'[d] = caller[d] \/ caller'[d] = None
<1> USE RateLimitAssumption, FullNat
<1> DEFINE m == caller[c].address
           b == caller[c].bucket
<1>1. m \in Keys /\ b \in Buckets /\ Bucket(m) = b
  BY DEF Inv, TypeOK, Linked, Admit
<1>2. tokens[b] \in 0..Full /\ tokens[b] >= Cost
  BY <1>1 DEF Inv, TypeOK, Admit
<1>3. tokens[b] - Cost \in 0..Full
  BY <1>2
<1>4. tokens' = [tokens EXCEPT ![b] = tokens[b] - Cost]
  BY DEF Admit
<1>5. /\ tokens' \in [Buckets -> 0..Full] /\ tokens'[b] = tokens[b] - Cost
      /\ \A a \in Buckets : a # b => tokens'[a] = tokens[a]
  BY <1>1, <1>3, <1>4 DEF Inv, TypeOK
<1>6. window[m] \in Window
  BY <1>1 DEF Inv, TypeOK
<1>7. window' = [window EXCEPT ![m] = [window[m] EXCEPT !.spent = window[m].spent + 1]]
  BY DEF Admit
<1>8. /\ window'[m].spent = window[m].spent + 1 /\ window'[m].earned = window[m].earned
      /\ window'[m] \in Window
  BY <1>1, <1>6, <1>7 DEF Inv, TypeOK, Window
<1>9. window' \in [Keys -> Window] /\ \A n \in Keys : n # m => window'[n] = window[n]
  BY <1>1, <1>7, <1>8 DEF Inv, TypeOK
<1>10. Cost * window'[m].spent = Paid(m) + Cost
  <2>1. Cost * window'[m].spent = Cost * (window[m].spent + 1)
    BY <1>8
  <2>2. window[m].spent \in Nat
    BY <1>6 DEF Window
  <2> QED
    BY <2>1, <2>2 DEF Paid
<1>11. /\ limiters' = limiters /\ made' = made /\ refusal' = refusal
       /\ caller' \in [Callers -> [address : Keys, bucket : Buckets] \cup {None}]
       /\ \A d \in Callers : caller'[d] = caller[d] \/ caller'[d] = None
  BY DEF Admit, Inv, TypeOK
<1> QED
  BY <1>1, <1>5, <1>8, <1>9, <1>10, <1>11

LEMMA TickEarns ==
  ASSUME Inv, Tick
  PROVE  /\ tokens' \in [Buckets -> 0..Full] /\ window' \in [Keys -> Window]
         /\ \A b \in Buckets : tokens'[b] = Least(Full, tokens[b] + Rate)
         /\ \A n \in Keys : /\ window'[n].earned = window[n].earned + Rate
                               /\ window'[n].spent = window[n].spent
         /\ limiters' = limiters /\ made' = made /\ caller' = caller /\ refusal' = refusal
<1> USE RateLimitAssumption, FullNat
<1>1. \A b \in Buckets : Least(Full, tokens[b] + Rate) \in 0..Full
  BY DEF Inv, TypeOK, Least
<1>2. \A n \in Keys : window[n] \in Window
  BY DEF Inv, TypeOK
<1>3. ASSUME NEW n \in Keys
      PROVE  /\ [window[n] EXCEPT !.earned = @ + Rate] \in Window
             /\ [window[n] EXCEPT !.earned = @ + Rate].earned = window[n].earned + Rate
             /\ [window[n] EXCEPT !.earned = @ + Rate].spent = window[n].spent
  <2>1. window[n] \in [earned : Nat, spent : Nat]
    BY <1>2 DEF Window
  <2> QED
    BY <2>1 DEF Window
<1> QED
  BY <1>1, <1>3 DEF Tick

LEMMA InvNext == Inv /\ [Next]_vars => Inv'
<1> SUFFICES ASSUME Inv, [Next]_vars PROVE Inv'
  OBVIOUS
<1> USE RateLimitAssumption, FullNat
<1>1. ASSUME NEW c \in Callers, NEW client \in Clients, Lookup(c, client) PROVE Inv'
  <2>1. TypeOK'
    BY <1>1, LookupKeeps DEF Inv, TypeOK
  <2>2. Linked'
    <3>1. \A k \in Keys : limiters'[k] # None => limiters'[k] \in made'
      BY <1>1, LookupKeeps DEF Inv, Linked
    <3>2. \A b \in Buckets \ made' : tokens'[b] = Full
      BY <1>1, LookupKeeps DEF Inv, Linked
    <3>3. ASSUME NEW d \in Callers, caller'[d] # None
          PROVE  limiters'[caller'[d].address] = caller'[d].bucket
      <4>1. CASE Handed(d, client)
        BY <4>1 DEF Handed
      <4>2. CASE caller'[d] = caller[d]
        <5>1. /\ caller[d].address \in Keys /\ Bucket(caller[d].address) = caller[d].bucket
              /\ caller[d].bucket \in Buckets
          BY <3>3, <4>2 DEF Inv, TypeOK, Linked
        <5>2. caller[d].address \in Keys /\ limiters[caller[d].address] # None
          BY <5>1, Types DEF Inv, Bucket
        <5>3. limiters'[caller[d].address] = limiters[caller[d].address]
          BY <1>1, <5>2, LookupKeeps
        <5> QED
          BY <4>2, <5>1, <5>3 DEF Bucket
      <4>3. caller'[d] = caller[d] \/ Handed(d, client)
        BY <1>1, LookupKeeps
      <4> QED
        BY <4>1, <4>2, <4>3
    <3> QED
      BY <3>1, <3>2, <3>3 DEF Linked, Bucket
  <2>3. ASSUME NEW n \in Keys PROVE Bounded(n)'
    <3>1. window[n].earned \in Nat /\ Bounded(n)
      BY Types DEF Inv
    <3>2. window' = window /\ tokens' = tokens
      BY <1>1, LookupKeeps
    <3>3. CASE limiters'[n] = limiters[n]
      BY <3>1, <3>2, <3>3 DEF Bounded, Bucket, Paid
    <3>4. CASE limiters[n] = None /\ limiters'[n] \in Buckets \ made
      <4>1. window[n].spent = 0
        BY <3>1, <3>4 DEF Bounded, Bucket
      <4>2. tokens[limiters'[n]] = Full
        BY <3>4 DEF Inv, Linked
      <4>3. Cost * 0 = 0
        OBVIOUS
      <4>4. Bucket(n)' # None /\ tokens'[Bucket(n)'] = Full /\ Paid(n)' = 0
        BY <3>2, <3>4, <4>1, <4>2, <4>3 DEF Bucket, Paid
      <4> QED
        BY <3>1, <3>2, <4>4 DEF Bounded
    <3> QED
      BY <1>1, <3>1, <3>3, <3>4, LookupKeeps
  <2> QED
    BY <2>1, <2>2, <2>3 DEF Inv
<1>2. ASSUME NEW c \in Callers, Admit(c) PROVE Inv'
  <2>1. TypeOK'
    BY <1>2, AdmitPays DEF Inv, TypeOK
  <2>2. Linked'
    <3>1. caller[c].bucket \in made
      <4>1. caller[c].address \in Keys /\ Bucket(caller[c].address) = caller[c].bucket
            /\ caller[c].bucket \in Buckets
        BY <1>2, AdmitPays
      <4> QED
        BY <4>1, Types DEF Inv, Linked, Bucket
    <3> QED
      BY <1>2, <3>1, AdmitPays DEF Inv, Linked, Bucket
  <2>3. ASSUME NEW n \in Keys PROVE Bounded(n)'
    <3> DEFINE m == caller[c].address
               b == caller[c].bucket
    <3>1. Bounded(n) /\ TypeOK
      BY DEF Inv
    <3>0. m \in Keys /\ b \in Buckets /\ Bucket(m) = b
      BY <1>2, AdmitPays
    <3>2. Bucket(n)' = Bucket(n)
      BY <1>2, AdmitPays DEF Bucket
    <3>3. b \in Buckets /\ tokens[b] \in 0..Full /\ tokens'[b] = tokens[b] - Cost
      BY <1>2, <3>1, AdmitPays DEF TypeOK
    <3>4. CASE n = m
      <4>1. Bucket(n) = b /\ b # None
        BY <3>0, <3>4
      <4>2. Paid(n)' = Paid(n) + Cost /\ window'[n].earned = window[n].earned
        BY <1>2, <3>4, AdmitPays DEF Paid
      <4>3. tokens'[Bucket(n)'] = tokens[Bucket(n)] - Cost
        BY <3>2, <3>3, <4>1
      <4>4. /\ Paid(n) \in Nat /\ window[n].earned \in Nat /\ tokens[Bucket(n)] \in 0..Full
            /\ Paid(n) + tokens[Bucket(n)] <= Full + window[n].earned
        BY <3>1, <4>1, Types DEF Bounded
      <4> QED
        BY <3>2, <4>1, <4>2, <4>3, <4>4 DEF Bounded
    <3>5. CASE n # m
      <4>1. window'[n] = window[n] /\ Paid(n)' = Paid(n)
        BY <1>2, <3>5, AdmitPays DEF Paid
      <4>2. Bucket(n) # None => tokens'[Bucket(n)] <= tokens[Bucket(n)]
        <5>1. \A a \in Buckets : a # b => tokens'[a] = tokens[a]
          BY <1>2, AdmitPays
        <5> QED
          BY <3>1, <3>3, <5>1, Types DEF TypeOK
      <4>3. /\ Paid(n) \in Nat /\ window[n].earned \in Nat
            /\ Bucket(n) # None => /\ tokens[Bucket(n)] \in 0..Full
                                   /\ tokens'[Bucket(n)] \in 0..Full
        BY <1>2, <3>1, Types, AdmitPays
      <4> QED
        BY <3>1, <3>2, <4>1, <4>2, <4>3 DEF Bounded
    <3> QED
      BY <3>4, <3>5
  <2> QED
    BY <2>1, <2>2, <2>3 DEF Inv
<1>3. ASSUME NEW c \in Callers, Refuse(c) PROVE Inv'
  <2>1. caller[c].address \in Keys /\ window[caller[c].address] \in Window
    BY <1>3 DEF Inv, TypeOK, Refuse
  <2>2. TypeOK'
    BY <1>3, <2>1 DEF Inv, TypeOK, Refuse
  <2>3. Linked'
    BY <1>3 DEF Inv, Linked, Refuse, TypeOK, Bucket
  <2>4. \A n \in Keys : Bounded(n)'
    BY <1>3 DEF Inv, Refuse, Bounded, Bucket, Paid
  <2> QED
    BY <2>2, <2>3, <2>4 DEF Inv
<1>4. ASSUME NEW address \in Keys, Open(address) PROVE Inv'
  <2>1. TypeOK'
    BY <1>4 DEF Inv, TypeOK, Open, Window, Opened
  <2>2. Linked'
    BY <1>4 DEF Inv, Linked, Open, Bucket
  <2>3. ASSUME NEW n \in Keys PROVE Bounded(n)'
    <3>1. Bounded(n) /\ TypeOK
      BY DEF Inv
    <3>2. Bucket(n)' = Bucket(n) /\ tokens' = tokens
      BY <1>4 DEF Open, Bucket
    <3>3. CASE n = address
      <4>1. window'[n] = Opened
        BY <1>4, <3>1, <3>3 DEF TypeOK, Open
      <4>2. window'[n].spent = 0 /\ window'[n].earned = 0 /\ Paid(n)' = 0
        BY <4>1 DEF Opened, Paid
      <4>3. Bucket(n) # None => tokens[Bucket(n)] \in 0..Full
        BY <3>1, Types
      <4> QED
        BY <3>2, <4>2, <4>3 DEF Bounded
    <3>4. CASE n # address
      <4>1. window'[n] = window[n]
        BY <1>4, <3>1, <3>4 DEF TypeOK, Open
      <4> QED
        BY <3>1, <3>2, <4>1 DEF Bounded, Paid
    <3> QED
      BY <3>3, <3>4
  <2> QED
    BY <2>1, <2>2, <2>3 DEF Inv
<1>5. CASE Tick
  <2>1. TypeOK'
    BY <1>5, TickEarns DEF Inv, TypeOK
  <2>2. Linked'
    <3>1. ASSUME NEW b \in Buckets \ made PROVE tokens'[b] = Full
      <4>1. tokens[b] = Full /\ tokens'[b] = Least(Full, tokens[b] + Rate)
        BY <1>5, TickEarns DEF Inv, Linked
      <4> QED
        BY <4>1 DEF Least
    <3> QED
      BY <1>5, <3>1, TickEarns DEF Inv, Linked, Bucket
  <2>3. ASSUME NEW n \in Keys PROVE Bounded(n)'
    <3>1. Bounded(n) /\ TypeOK
      BY DEF Inv
    <3>2. Bucket(n)' = Bucket(n)
      BY <1>5, TickEarns DEF Bucket
    <3>3. /\ window'[n].earned = window[n].earned + Rate
          /\ window'[n].spent = window[n].spent /\ Paid(n)' = Paid(n)
      BY <1>5, TickEarns DEF Paid
    <3>4. Bucket(n) # None => tokens'[Bucket(n)] = Least(Full, tokens[Bucket(n)] + Rate)
      BY <1>5, <3>1, TickEarns, Types
    <3>5. /\ Paid(n) \in Nat /\ window[n].earned \in Nat
          /\ Bucket(n) # None => tokens[Bucket(n)] \in 0..Full
      BY <3>1, Types
    <3> QED
      BY <3>1, <3>2, <3>3, <3>4, <3>5 DEF Bounded, Least
  <2> QED
    BY <2>1, <2>2, <2>3 DEF Inv
<1>6. CASE UNCHANGED vars
  BY <1>6 DEF vars, Inv, TypeOK, Linked, Bounded, Bucket, Paid
<1> QED
  BY <1>1, <1>2, <1>3, <1>4, <1>5, <1>6 DEF Next

THEOREM Invariance == Spec => []Inv
  BY InvInit, InvNext, PTL DEF Spec

\* Every reachable state of the limiter is well typed (Limiter, Allow).
THEOREM TypeCorrect == Spec => []TypeOK
<1>1. Inv => TypeOK
  BY DEF Inv
<1> QED
  BY <1>1, Invariance, PTL

\* No address ever gets more through than the burst and the rate allow.
THEOREM RateKept == Spec => []WithinRate
<1>1. Inv => WithinRate
  <2> SUFFICES ASSUME Inv, NEW n \in Keys
               PROVE  Cost * window[n].spent <= Full + window[n].earned
    BY DEF WithinRate
  <2> USE RateLimitAssumption, FullNat
  <2>1. Bounded(n) /\ TypeOK
    BY DEF Inv
  <2>2. CASE Bucket(n) = None
    <3>1. window[n].spent = 0 /\ Cost * 0 = 0 /\ window[n].earned \in Nat
      BY <2>1, <2>2, Types DEF Bounded
    <3> QED
      BY <3>1
  <2>3. CASE Bucket(n) # None
    <3>1. /\ Paid(n) + tokens[Bucket(n)] <= Full + window[n].earned
          /\ Paid(n) \in Nat /\ tokens[Bucket(n)] \in 0..Full /\ window[n].earned \in Nat
      BY <2>1, <2>3, Types DEF Bounded
    <3> QED
      BY <3>1 DEF Paid
  <2> QED
    BY <2>2, <2>3
<1> QED
  BY <1>1, Invariance, PTL

-----------------------------------------------------------------------------
(* Refusals.                                                               *)

Distinct ==
  \A j, k \in Keys : limiters[j] # None /\ limiters[j] = limiters[k] => j = k

\* What was earned is in the bucket, paid, or was more than it could hold.
Kept(n) ==
  Bucket(n) # None => Least(window[n].earned, Full) <= Paid(n) + tokens[Bucket(n)]

RefusalInv == Inv /\ Distinct /\ (\A n \in Keys : Kept(n)) /\ RefusedForItsAddress

LEMMA RefusalInvInit == Init => RefusalInv
<1> SUFFICES ASSUME Init PROVE RefusalInv
  OBVIOUS
<1>1. Distinct /\ RefusedForItsAddress
  BY DEF Init, Distinct, RefusedForItsAddress
<1>2. \A n \in Keys : Kept(n)
  BY RateLimitAssumption DEF Init, Kept, Bucket
<1> QED
  BY <1>1, <1>2, InvInit DEF RefusalInv

LEMMA RefusalInvNext ==
  ASSUME RefusalInv, [Next]_vars
  PROVE  RefusalInv'
<1> USE RateLimitAssumption, FullNat
<1>0. Inv /\ Inv' /\ TypeOK
  BY InvNext DEF RefusalInv, Inv
<1>1. ASSUME NEW c \in Callers, NEW client \in Clients, Lookup(c, client) PROVE RefusalInv'
  <2>1. ASSUME NEW j \in Keys, NEW k \in Keys,
               limiters'[j] # None, limiters'[j] = limiters'[k]
        PROVE  j = k
    <3>1. \A i \in Keys : limiters'[i] = limiters[i] \/ i = ClientIP(client)
      BY <1>0, <1>1, LookupKeeps
    <3>2. \A i \in Keys : limiters'[i] = limiters[i] \/ limiters'[i] \notin made
      BY <1>0, <1>1, LookupKeeps
    <3>3. \A i \in Keys : limiters[i] # None => limiters[i] \in made
      BY <1>0 DEF Inv, Linked
    <3> QED
      BY <2>1, <3>1, <3>2, <3>3 DEF RefusalInv, Distinct
  <2>2. ASSUME NEW n \in Keys PROVE Kept(n)'
    <3>1. window[n].earned \in Nat /\ Kept(n)
      BY <1>0, Types DEF RefusalInv
    <3>2. window' = window /\ tokens' = tokens
      BY <1>0, <1>1, LookupKeeps
    <3>3. CASE limiters'[n] = limiters[n]
      BY <3>1, <3>2, <3>3 DEF Kept, Bucket, Paid
    <3>4. CASE limiters'[n] \in Buckets \ made
      <4>1. tokens[limiters'[n]] = Full
        BY <1>0, <3>4 DEF Inv, Linked
      <4>2. tokens'[Bucket(n)'] = Full /\ Paid(n)' = Paid(n) /\ Paid(n) \in Nat
        BY <1>0, <3>2, <4>1, Types DEF Bucket, Paid
      <4> QED
        BY <3>1, <3>2, <4>2 DEF Kept, Least
    <3>5. limiters'[n] = limiters[n] \/ limiters'[n] \in Buckets \ made
      BY <1>0, <1>1, <3>1, LookupKeeps
    <3> QED
      BY <3>3, <3>4, <3>5
  <2>3. RefusedForItsAddress'
    BY <1>0, <1>1, LookupKeeps DEF RefusalInv, RefusedForItsAddress
  <2> QED
    BY <1>0, <2>1, <2>2, <2>3 DEF RefusalInv, Distinct
<1>2. ASSUME NEW c \in Callers, Admit(c) PROVE RefusalInv'
  <2> DEFINE m == caller[c].address
             b == caller[c].bucket
  <2>1. m \in Keys /\ b \in Buckets /\ Bucket(m) = b /\ b # None
    BY <1>0, <1>2, AdmitPays
  <2>2. limiters' = limiters /\ refusal' = refusal
    BY <1>0, <1>2, AdmitPays
  <2>3. ASSUME NEW n \in Keys PROVE Kept(n)'
    <3>1. Kept(n) /\ Bucket(n)' = Bucket(n)
      BY <2>2 DEF RefusalInv, Bucket
    <3>2. CASE n = m
      <4>1. Paid(n)' = Paid(n) + Cost /\ window'[n].earned = window[n].earned
        BY <1>0, <1>2, <3>2, AdmitPays DEF Paid
      <4>2. tokens'[Bucket(n)'] = tokens[Bucket(n)] - Cost
        BY <1>0, <1>2, <2>1, <3>1, <3>2, AdmitPays
      <4>3. Bucket(n) # None /\ Paid(n) \in Nat /\ tokens[Bucket(n)] \in 0..Full
        BY <1>0, <2>1, <3>2, Types
      <4>4. Least(window[n].earned, Full) <= Paid(n) + tokens[Bucket(n)]
        BY <3>1, <4>3 DEF Kept
      <4>5. Paid(n)' + tokens'[Bucket(n)'] = Paid(n) + tokens[Bucket(n)]
        BY <4>1, <4>2, <4>3
      <4>6. Least(window[n].earned, Full)' = Least(window[n].earned, Full)
        BY <4>1 DEF Least, Full, Capacity
      <4> QED
        BY <4>4, <4>5, <4>6 DEF Kept
    <3>3. CASE n # m
      <4>1. window'[n] = window[n]
        BY <1>0, <1>2, <3>3, AdmitPays
      <4>2. Bucket(n) # None => Bucket(n) # b
        BY <2>1, <3>3 DEF RefusalInv, Distinct, Bucket
      <4>3. \A a \in Buckets : a # b => tokens'[a] = tokens[a]
        BY <1>0, <1>2, AdmitPays
      <4>4. Bucket(n) # None => tokens'[Bucket(n)] = tokens[Bucket(n)]
        BY <1>0, <4>2, <4>3, Types
      <4> QED
        BY <3>1, <4>1, <4>4 DEF Kept, Paid
    <3> QED
      BY <3>2, <3>3
  <2>4. RefusedForItsAddress'
    BY <2>2 DEF RefusalInv, RefusedForItsAddress
  <2> QED
    BY <1>0, <2>2, <2>3, <2>4 DEF RefusalInv, Distinct
<1>3. ASSUME NEW c \in Callers, Refuse(c) PROVE RefusalInv'
  <2> DEFINE m == caller[c].address
             b == caller[c].bucket
  <2>1. m \in Keys /\ b \in Buckets /\ Bucket(m) = b /\ b # None
    BY <1>0, <1>3 DEF Inv, TypeOK, Linked, Refuse
  <2>2. UNCHANGED <<limiters, tokens, window>> /\ tokens[b] < Cost
    BY <1>3 DEF Refuse
  <2>3. refusal'[m] = window[m] /\ \A n \in Keys : n # m => refusal'[n] = refusal[n]
    BY <1>0, <1>3, <2>1 DEF TypeOK, Refuse
  <2>4. Cost * (window[m].spent + 1) > Least(window[m].earned, Full)
    <3>1. Least(window[m].earned, Full) <= Paid(m) + tokens[b]
      BY <2>1 DEF RefusalInv, Kept
    <3>2. Paid(m) \in Nat /\ tokens[b] \in 0..Full /\ window[m].spent \in Nat /\ window[m].earned \in Nat
      BY <1>0, <2>1, Types
    <3>3. Cost * (window[m].spent + 1) = Paid(m) + Cost
      BY <3>2 DEF Paid
    <3> QED
      BY <2>2, <3>1, <3>2, <3>3 DEF Least
  <2>5. RefusedForItsAddress'
    <3> SUFFICES ASSUME NEW n \in Keys, refusal'[n] # None
                 PROVE  Cost * (refusal'[n].spent + 1) > Least(refusal'[n].earned, Full)
      BY DEF RefusedForItsAddress, Full, Capacity
    <3> QED
      BY <2>3, <2>4 DEF RefusalInv, RefusedForItsAddress
  <2>6. Distinct' /\ \A n \in Keys : Kept(n)'
    BY <2>2 DEF RefusalInv, Distinct, Kept, Bucket, Paid
  <2> QED
    BY <1>0, <2>5, <2>6 DEF RefusalInv
<1>4. ASSUME NEW address \in Keys, Open(address) PROVE RefusalInv'
  <2>1. UNCHANGED <<limiters, tokens>>
    BY <1>4 DEF Open
  <2>2. ASSUME NEW n \in Keys PROVE Kept(n)'
    <3>1. CASE n = address
      <4>1. window'[n] = Opened
        BY <1>0, <1>4, <3>1 DEF TypeOK, Open
      <4>2. window'[n].spent = 0 /\ window'[n].earned = 0 /\ Paid(n)' = 0
        BY <4>1 DEF Opened, Paid
      <4>3. Bucket(n) # None => tokens[Bucket(n)] \in 0..Full
        BY <1>0, Types
      <4> QED
        BY <2>1, <4>2, <4>3 DEF Kept, Bucket, Least
    <3>2. CASE n # address
      <4>1. window'[n] = window[n]
        BY <1>0, <1>4, <3>2 DEF TypeOK, Open
      <4> QED
        BY <2>1, <4>1 DEF RefusalInv, Kept, Bucket, Paid
    <3> QED
      BY <3>1, <3>2
  <2>3. RefusedForItsAddress'
    BY <1>0, <1>4 DEF TypeOK, Open, RefusalInv, RefusedForItsAddress
  <2> QED
    BY <1>0, <2>1, <2>2, <2>3 DEF RefusalInv, Distinct
<1>5. CASE Tick
  <2>1. ASSUME NEW n \in Keys PROVE Kept(n)'
    <3>1. Kept(n) /\ Bucket(n)' = Bucket(n)
      BY <1>0, <1>5, TickEarns DEF RefusalInv, Bucket
    <3>2. window'[n].earned = window[n].earned + Rate /\ Paid(n)' = Paid(n)
      BY <1>0, <1>5, TickEarns DEF Paid
    <3>3. Bucket(n) # None => tokens'[Bucket(n)] = Least(Full, tokens[Bucket(n)] + Rate)
      BY <1>0, <1>5, TickEarns, Types
    <3>4. /\ Paid(n) \in Nat /\ window[n].earned \in Nat
          /\ Bucket(n) # None => tokens[Bucket(n)] \in 0..Full
      BY <1>0, Types
    <3> QED
      BY <3>1, <3>2, <3>3, <3>4 DEF Kept, Least
  <2>2. Distinct' /\ RefusedForItsAddress'
    BY <1>0, <1>5, TickEarns DEF RefusalInv, Distinct, RefusedForItsAddress
  <2> QED
    BY <1>0, <2>1, <2>2 DEF RefusalInv
<1>6. CASE UNCHANGED vars
  BY <1>0, <1>6 DEF vars, RefusalInv, Distinct, Kept, RefusedForItsAddress, Bucket, Paid
<1> QED
  BY <1>1, <1>2, <1>3, <1>4, <1>5, <1>6 DEF Next

\* No request is refused but for what came from its own address.
THEOREM RefusalsFair == Spec => []RefusedForItsAddress
<1>1. RefusalInv => RefusedForItsAddress
  BY DEF RefusalInv
<1>2. RefusalInv /\ [Next]_vars => RefusalInv'
  BY RefusalInvNext
<1> QED
  BY <1>1, <1>2, RefusalInvInit, PTL DEF Spec

-----------------------------------------------------------------------------
(* The sessions of the admin panel.                                        *)

\* A session's row has the expiry of its birth; it is gone once the session was
\* ended, and otherwise not before its time.
RowInv(i) ==
  /\ sessions[i] # None => born[i] # None /\ sessions[i] = Auth!ExpiresAt(born[i])
  /\ i \in ended => born[i] # None /\ sessions[i] = None
  /\ born[i] # None /\ i \notin ended /\ sessions[i] = None =>
       Auth!ExpiresAt(born[i]) < now

\* A tab knows issued sessions only, and is about to delete an expired one only.
Sound(q) ==
  /\ q.cookie # None => born[q.cookie] # None
  /\ q.sets \in Ids => born[q.sets] # None
  /\ q.stale => q.cookie \in ended
  /\ q.at \in {"expired", "inside"} => q.cookie # None
  /\ q.at = "expired" => Auth!ExpiresAt(born[q.cookie]) < now

SessionInv ==
  /\ Auth!TypeOK
  /\ \A i \in Ids : RowInv(i)
  /\ cookie # None => born[cookie] # None
  /\ \A t \in Tabs : Sound(tab[t])

LEMMA AuthConstants ==
  /\ SessionTTL \in Nat /\ SessionTime \in Nat /\ Second \in Nat \ {0}
  /\ None \notin Ids /\ None \notin Nat /\ "keep" \notin Ids \cup {None}
BY HttpAssumption DEF Auth!AdminAuthAssumption

\* An expiry is within the last Second of the session's term.
LEMMA ExpiryRounded ==
  ASSUME NEW b \in 0..SessionTime
  PROVE  /\ Auth!ExpiresAt(b) \in 0..(SessionTime + SessionTTL)
         /\ Auth!ExpiresAt(b) <= b + SessionTTL
         /\ b + SessionTTL - Second < Auth!ExpiresAt(b)
<1>1. /\ b + SessionTTL \in Nat /\ Second \in Nat /\ Second > 0
      /\ b + SessionTTL <= SessionTime + SessionTTL /\ SessionTime + SessionTTL \in Nat
  BY AuthConstants
<1>2. ASSUME NEW x \in Nat, NEW s \in Nat, s > 0
      PROVE  /\ (x \div s) * s \in Nat /\ (x \div s) * s <= x
             /\ x - s < (x \div s) * s
  <2>1. x \div s \in Nat /\ x % s \in 0..(s - 1) /\ x = s * (x \div s) + (x % s)
    BY <1>2
  <2>2. s * (x \div s) = (x \div s) * s /\ s * (x \div s) \in Nat
    BY <1>2, <2>1
  <2> QED
    BY <1>2, <2>1, <2>2
<1>3. Auth!ExpiresAt(b) = ((b + SessionTTL) \div Second) * Second
  BY DEF Auth!ExpiresAt
<1>4. PICK x \in Nat : x = b + SessionTTL
  BY <1>1
<1>5. /\ (x \div Second) * Second \in Nat /\ (x \div Second) * Second <= x
      /\ x - Second < (x \div Second) * Second
  BY <1>1, <1>2, Zenon
<1>6. PICK e \in Nat : e = (x \div Second) * Second /\ e <= x /\ x - Second < e
  BY <1>5
<1>7. Auth!ExpiresAt(b) = e /\ e <= x /\ x - Second < e
  BY <1>3, <1>4, <1>6
<1>8. /\ e \in 0..(SessionTime + SessionTTL) /\ e <= b + SessionTTL
      /\ b + SessionTTL - Second < e
  BY <1>1, <1>4, <1>7, AuthConstants
<1> QED
  BY <1>7, <1>8, Zenon

\* What a tab may know it may know later: no session is issued twice, none that
\* ended comes back, and the clock does not go back.
LEMMA SoundStays ==
  ASSUME NEW q \in Auth!Tab, Sound(q),
         \A i \in Ids : born[i] # None => born'[i] = born[i],
         ended \subseteq ended', now \in Nat, now' \in Nat, now <= now',
         born \in [Ids -> 0..SessionTime \cup {None}]
  PROVE  Sound(q)'
<1>1. q.cookie \in Ids \cup {None}
  BY DEF Auth!Tab
<1>2. q.at = "expired" =>
        Auth!ExpiresAt(born'[q.cookie]) = Auth!ExpiresAt(born[q.cookie])
  BY <1>1 DEF Sound
<1>3. q.at = "expired" => Auth!ExpiresAt(born[q.cookie]) \in Nat
  <2>1. q.at = "expired" => born[q.cookie] \in 0..SessionTime
    BY <1>1 DEF Sound
  <2>2. \A b \in 0..SessionTime : Auth!ExpiresAt(b) \in Nat
    BY ExpiryRounded
  <2> QED
    BY <2>1, <2>2
<1>4. q.at = "expired" => Auth!ExpiresAt(born'[q.cookie]) < now'
  BY <1>2, <1>3 DEF Sound
<1> QED
  BY <1>1, <1>4 DEF Sound, Auth!ExpiresAt

\* A step of one tab that changes nothing else.
LEMMA TabMoves ==
  ASSUME SessionInv, NEW t \in Tabs, NEW q \in Auth!Tab, Sound(q),
         tab' = [tab EXCEPT ![t] = q], UNCHANGED <<now, sessions, born, ended, cookie>>
  PROVE  SessionInv'
<1>1. tab' \in [Tabs -> Auth!Tab] /\ \A u \in Tabs : tab'[u] \in {q, tab[u]}
  BY DEF SessionInv, Auth!TypeOK
<1>2. Auth!TypeOK'
  BY <1>1 DEF SessionInv, Auth!TypeOK
<1>3. \A u \in Tabs : Sound(tab'[u])
  BY <1>1 DEF SessionInv
<1>4. \A u \in Tabs : Sound(tab[u])'
  BY <1>3 DEF Sound, Auth!ExpiresAt
<1>5. \A i \in Ids : RowInv(i)'
  BY DEF SessionInv, RowInv, Auth!ExpiresAt
<1> QED
  BY <1>2, <1>4, <1>5 DEF SessionInv

\* An answer with nothing for the browser to keep is sound.
LEMMA Answered ==
  ASSUME SessionInv, NEW t \in Tabs, NEW answer \in Auth!Answer, Auth!Respond(t, answer)
  PROVE  \E q \in Auth!Tab :
           Sound(q) /\ q.at = "answered" /\ tab' = [tab EXCEPT ![t] = q]
<1> DEFINE q == [Auth!Closed EXCEPT !.at = "answered", !.answer = answer,
                                    !.page = tab[t].page]
<1>1. tab[t].page \in Ids \cup {None}
  BY DEF SessionInv, Auth!TypeOK, Auth!Tab
<1>2. /\ q \in Auth!Tab /\ q.at = "answered" /\ q.cookie = None /\ q.sets = "keep"
      /\ q.stale = FALSE
  BY <1>1 DEF Auth!Closed, Auth!Tab, Auth!At, Auth!Kind
<1>3. tab' = [tab EXCEPT ![t] = q]
  BY DEF Auth!Respond
<1> HIDE DEF q
<1>4. Sound(q)
  BY <1>2, AuthConstants DEF Sound
<1> QED
  BY <1>2, <1>3, <1>4

\* Handlers that answer without touching a session.
LEMMA RespondKeeps ==
  ASSUME SessionInv, NEW t \in Tabs, NEW answer \in Auth!Answer,
         Auth!Respond(t, answer), UNCHANGED <<now, sessions, born, ended, cookie>>
  PROVE  SessionInv'
<1>1. PICK q \in Auth!Tab : Sound(q) /\ tab' = [tab EXCEPT ![t] = q]
  BY Answered
<1> QED
  BY <1>1, TabMoves

\* A request is sent.
LEMMA SendKeeps ==
  ASSUME SessionInv, NEW t \in Tabs, NEW kind \in Auth!Kind, Auth!Send(t, kind)
  PROVE  SessionInv'
<1>1. tab[t] \in Auth!Tab /\ cookie \in Ids \cup {None} /\ ended \in SUBSET Ids
  BY DEF SessionInv, Auth!TypeOK
<1>2. PICK stale \in BOOLEAN : stale = (cookie \in ended)
  <2>1. CASE cookie \in ended
    BY <2>1
  <2>2. CASE cookie \notin ended
    <3>1. FALSE = (cookie \in ended)
      BY <2>2
    <3> QED
      BY <3>1
  <2> QED
    BY <2>1, <2>2
<1> DEFINE q == [tab[t] EXCEPT !.at = "entered", !.kind = kind,
                               !.cookie = cookie, !.sets = "keep", !.stale = stale]
<1>3. /\ q \in Auth!Tab /\ q.at = "entered" /\ q.cookie = cookie /\ q.sets = "keep"
      /\ q.stale = stale
  BY <1>1, <1>2 DEF Auth!Tab, Auth!At, Auth!Kind
<1>4. tab' = [tab EXCEPT ![t] = q] /\ UNCHANGED <<now, sessions, born, ended, cookie>>
  BY <1>2 DEF Auth!Send
<1> HIDE DEF q
<1>5. Sound(q)
  BY <1>2, <1>3, AuthConstants DEF SessionInv, Sound
<1> QED
  BY <1>3, <1>4, <1>5, TabMoves

\* An answer arrives with a cookie to keep, or the cookie expires.
LEMMA CookieKeeps ==
  ASSUME SessionInv,
         (\E t \in Tabs : Auth!Receive(t)) \/ Auth!CookieExpires
  PROVE  SessionInv'
<1>1. CASE Auth!CookieExpires
  BY <1>1 DEF Auth!CookieExpires, SessionInv, Auth!TypeOK, RowInv, Sound, Auth!ExpiresAt
<1>2. ASSUME NEW t \in Tabs, Auth!Receive(t) PROVE SessionInv'
  <2>1. tab[t] \in Auth!Tab /\ Sound(tab[t]) /\ cookie \in Ids \cup {None}
    BY DEF SessionInv, Auth!TypeOK
  <2>2. /\ cookie' \in Ids \cup {None}
        /\ cookie' # None => born[cookie'] # None
    BY <1>2, <2>1, AuthConstants DEF Auth!Receive, Auth!Tab, Sound, SessionInv
  <2> DEFINE q == [Auth!Closed EXCEPT !.page = tab[t].page]
  <2>3. /\ q \in Auth!Tab /\ q.at = "idle" /\ q.cookie = None /\ q.sets = "keep"
        /\ q.stale = FALSE
    BY <2>1 DEF Auth!Closed, Auth!Tab, Auth!At, Auth!Kind, Auth!Answer
  <2>4. tab' = [tab EXCEPT ![t] = q] /\ UNCHANGED <<now, sessions, born, ended>>
    BY <1>2 DEF Auth!Receive
  <2> HIDE DEF q
  <2>5. Sound(q)
    BY <2>3, AuthConstants DEF Sound
  <2>6. tab' \in [Tabs -> Auth!Tab] /\ \A u \in Tabs : Sound(tab'[u])
    BY <2>3, <2>4, <2>5 DEF SessionInv, Auth!TypeOK
  <2>7. \A u \in Tabs : Sound(tab[u])'
    BY <2>4, <2>6 DEF Sound, Auth!ExpiresAt
  <2> QED
    BY <2>2, <2>4, <2>6, <2>7 DEF SessionInv, Auth!TypeOK, RowInv, Auth!ExpiresAt
<1> QED
  BY <1>1, <1>2

\* GetSession lets in, finds the session expired, or finds none.
LEMMA LookKeeps ==
  ASSUME SessionInv, NEW t \in Tabs, Auth!Look(t)
  PROVE  /\ SessionInv'
         /\ Auth!LetIn(t) => ~tab[t].stale /\ now <= born[tab[t].cookie] + SessionTTL
<1>1. /\ tab[t] \in Auth!Tab /\ Sound(tab[t]) /\ tab[t].cookie \in Ids \cup {None}
      /\ now \in Nat
  BY DEF SessionInv, Auth!TypeOK, Auth!Tab
<1>2. tab[t].at = "entered" /\ UNCHANGED <<now, sessions, born, ended, cookie>>
  BY DEF Auth!Look
<1>3. CASE \E answer \in Auth!Answer : Auth!Respond(t, answer)
  <2>1. PICK answer \in Auth!Answer : Auth!Respond(t, answer)
    BY <1>3
  <2>2. SessionInv'
    BY <1>2, <2>1, RespondKeeps
  <2>3. tab'[t].at = "answered"
    BY <2>1 DEF Auth!Respond, SessionInv, Auth!TypeOK, Auth!Closed
  <2> QED
    BY <2>2, <2>3 DEF Auth!LetIn
<1>4. ASSUME Auth!Present(tab[t].cookie)
      PROVE  /\ tab[t].cookie \in Ids /\ tab[t].cookie \notin ended
             /\ born[tab[t].cookie] \in 0..SessionTime
             /\ sessions[tab[t].cookie] = Auth!ExpiresAt(born[tab[t].cookie])
             /\ sessions[tab[t].cookie] \in Nat
             /\ sessions[tab[t].cookie] <= born[tab[t].cookie] + SessionTTL
  <2>1. PICK i \in Ids : i = tab[t].cookie /\ sessions[i] # None
    BY <1>1, <1>4 DEF Auth!Present
  <2>2. /\ i \notin ended /\ born[i] \in 0..SessionTime
        /\ sessions[i] = Auth!ExpiresAt(born[i])
    BY <2>1 DEF SessionInv, Auth!TypeOK, RowInv
  <2>3. Auth!ExpiresAt(born[i]) \in Nat /\ Auth!ExpiresAt(born[i]) <= born[i] + SessionTTL
    BY <2>2, ExpiryRounded
  <2> QED
    BY <2>1, <2>2, <2>3
<1>5. CASE /\ Auth!Valid(tab[t].cookie)
           /\ tab' = [tab EXCEPT ![t].at = "inside"]
  <2>1. Auth!Present(tab[t].cookie) /\ ~(sessions[tab[t].cookie] < now)
    BY <1>5 DEF Auth!Valid
  <2> DEFINE q == [tab[t] EXCEPT !.at = "inside"]
  <2>2. /\ q \in Auth!Tab /\ q.at = "inside" /\ q.cookie = tab[t].cookie
        /\ q.sets = tab[t].sets /\ q.stale = tab[t].stale
    BY <1>1 DEF Auth!Tab, Auth!At
  <2>3. tab' = [tab EXCEPT ![t] = q]
    BY <1>5
  <2> HIDE DEF q
  <2>4. Sound(q)
    BY <1>1, <1>4, <2>1, <2>2, AuthConstants DEF Sound
  <2>5. SessionInv'
    BY <1>2, <2>2, <2>3, <2>4, TabMoves
  <2>6. ~tab[t].stale
    BY <1>1, <1>4, <2>1 DEF Sound
  <2>7. now <= born[tab[t].cookie] + SessionTTL
    <3>1. PICK b \in Nat, e \in Nat : /\ b = born[tab[t].cookie]
                                      /\ e = sessions[tab[t].cookie]
      BY <1>4, <2>1, AuthConstants
    <3> QED
      BY <1>1, <1>4, <2>1, <3>1, AuthConstants
  <2> QED
    BY <2>5, <2>6, <2>7
<1>6. CASE /\ Auth!Present(tab[t].cookie) /\ ~Auth!Valid(tab[t].cookie)
           /\ tab' = [tab EXCEPT ![t].at = "expired"]
  <2>1. sessions[tab[t].cookie] < now
    BY <1>6 DEF Auth!Valid
  <2> DEFINE q == [tab[t] EXCEPT !.at = "expired"]
  <2>2. /\ q \in Auth!Tab /\ q.at = "expired" /\ q.cookie = tab[t].cookie
        /\ q.sets = tab[t].sets /\ q.stale = tab[t].stale
    BY <1>1 DEF Auth!Tab, Auth!At
  <2>3. tab' = [tab EXCEPT ![t] = q]
    BY <1>6
  <2> HIDE DEF q
  <2>4. Sound(q)
    BY <1>1, <1>4, <1>6, <2>1, <2>2, AuthConstants DEF Sound
  <2>5. SessionInv'
    BY <1>2, <2>2, <2>3, <2>4, TabMoves
  <2>6. tab'[t].at = "expired"
    BY <2>2, <2>3 DEF SessionInv, Auth!TypeOK
  <2> QED
    BY <2>5, <2>6 DEF Auth!LetIn
<1>7. "form" \in Auth!Answer /\ "redirect" \in Auth!Answer
  BY DEF Auth!Answer
<1> QED
  BY <1>3, <1>5, <1>6, <1>7 DEF Auth!Look

\* The row of an expired session is deleted, or that fails.
LEMMA DropKeeps ==
  ASSUME SessionInv, NEW t \in Tabs, Auth!DropExpired(t)
  PROVE  SessionInv'
<1>1. PICK id \in Ids : /\ id = tab[t].cookie /\ born[id] # None
                        /\ Auth!ExpiresAt(born[id]) < now
  BY DEF SessionInv, Auth!TypeOK, Auth!Tab, Sound, Auth!DropExpired
<1>2. PICK answer \in Auth!Answer : Auth!Respond(t, answer)
  BY DEF Auth!DropExpired, Auth!Answer
<1>4. PICK q \in Auth!Tab : Sound(q) /\ tab' = [tab EXCEPT ![t] = q]
  BY <1>2, Answered
<1>6. UNCHANGED <<now, born, ended, cookie>>
  BY DEF Auth!DropExpired
<1>7. /\ sessions' \in [Ids -> Auth!Time \cup {None}]
      /\ \A i \in Ids : sessions'[i] = sessions[i] \/ (i = id /\ sessions'[i] = None)
  BY <1>1 DEF Auth!DropExpired, Auth!Without, SessionInv, Auth!TypeOK
<1>8. \A i \in Ids : RowInv(i)'
  BY <1>1, <1>6, <1>7 DEF SessionInv, RowInv, Auth!ExpiresAt
<1>9. tab' \in [Tabs -> Auth!Tab] /\ \A u \in Tabs : Sound(tab'[u])
  BY <1>4, <1>6 DEF SessionInv, Auth!TypeOK
<1>10. \A u \in Tabs : Sound(tab[u])'
  BY <1>6, <1>9 DEF Sound, Auth!ExpiresAt
<1> QED
  BY <1>6, <1>7, <1>8, <1>9, <1>10 DEF SessionInv, Auth!TypeOK

\* A session is issued.
LEMMA LoginKeeps ==
  ASSUME SessionInv, NEW t \in Tabs, NEW id \in Ids, Auth!Login(t, id)
  PROVE  SessionInv'
<1>1. /\ now \in 0..SessionTime /\ now \in Nat
      /\ born \in [Ids -> 0..SessionTime \cup {None}] /\ tab \in [Tabs -> Auth!Tab]
      /\ sessions \in [Ids -> Auth!Time \cup {None}] /\ cookie \in Ids \cup {None}
  BY DEF SessionInv, Auth!TypeOK
<1>2. /\ born[id] = None /\ UNCHANGED <<now, ended, cookie>>
      /\ sessions' = [sessions EXCEPT ![id] = Auth!ExpiresAt(now)]
      /\ born' = [born EXCEPT ![id] = now]
  BY DEF Auth!Login, Auth!CreateSession
<1>3. Auth!ExpiresAt(now) \in Auth!Time
  BY <1>1, ExpiryRounded DEF Auth!Time
<1>4. /\ born' \in [Ids -> 0..SessionTime \cup {None}] /\ born'[id] = now
      /\ sessions' \in [Ids -> Auth!Time \cup {None}] /\ sessions'[id] = Auth!ExpiresAt(now)
      /\ \A i \in Ids \ {id} : born'[i] = born[i] /\ sessions'[i] = sessions[i]
  BY <1>1, <1>2, <1>3
<1>5. now # None
  BY <1>1, AuthConstants
<1>6. \A i \in Ids : RowInv(i)'
  <2> TAKE i \in Ids
  <2>1. CASE i = id
    <3>1. id \notin ended
      BY <1>2 DEF SessionInv, RowInv
    <3>2. Auth!ExpiresAt(born'[i]) = Auth!ExpiresAt(now)
      BY <1>4, <2>1
    <3>3. sessions'[i] # None
      BY <1>3, <1>4, <2>1, ExpiryRounded, <1>1, AuthConstants
    <3> QED
      BY <1>2, <1>4, <1>5, <2>1, <3>1, <3>2, <3>3 DEF RowInv, Auth!ExpiresAt
  <2>2. CASE i # id
    <3>1. Auth!ExpiresAt(born'[i]) = Auth!ExpiresAt(born[i]) /\ RowInv(i)
      BY <1>4, <2>2 DEF SessionInv
    <3> QED
      BY <1>2, <1>4, <2>2, <3>1 DEF RowInv, Auth!ExpiresAt
  <2> QED
    BY <2>1, <2>2
<1> DEFINE q == [Auth!Closed EXCEPT !.at = "answered", !.answer = "redirect",
                                    !.page = tab[t].page, !.sets = id]
<1>7. tab[t].page \in Ids \cup {None}
  BY <1>1 DEF Auth!Tab
<1>8. /\ q \in Auth!Tab /\ q.at = "answered" /\ q.cookie = None /\ q.sets = id
      /\ q.stale = FALSE
  BY <1>7 DEF Auth!Closed, Auth!Tab, Auth!At, Auth!Kind, Auth!Answer
<1>9. tab' = [tab EXCEPT ![t] = q]
  BY DEF Auth!Login, Auth!SetCookie
<1> HIDE DEF q
<1>10. tab' \in [Tabs -> Auth!Tab] /\ tab'[t] = q /\ \A u \in Tabs \ {t} : tab'[u] = tab[u]
  BY <1>1, <1>8, <1>9
<1>11. Sound(tab[t])'
  BY <1>4, <1>5, <1>8, <1>10, AuthConstants DEF Sound
<1>12. ASSUME NEW u \in Tabs \ {t} PROVE Sound(tab[u])'
  <2>1. PICK r \in Auth!Tab : r = tab[u] /\ r = tab'[u] /\ Sound(r)
    BY <1>1, <1>10 DEF SessionInv
  <2>2. \A i \in Ids : born[i] # None => born'[i] = born[i]
    BY <1>2, <1>4
  <2>3. Sound(r)'
    BY <1>1, <1>2, <2>1, <2>2, SoundStays
  <2>4. r = tab'[u]
    BY <2>1
  <2> QED
    BY <2>3, <2>4 DEF Sound, Auth!ExpiresAt
<1>13. cookie # None => born'[cookie] # None
  BY <1>1, <1>2, <1>4, <1>5 DEF SessionInv
<1>14. Auth!TypeOK'
  BY <1>2, <1>4, <1>10 DEF SessionInv, Auth!TypeOK
<1>15. \A u \in Tabs : Sound(tab[u])'
  BY <1>11, <1>12
<1> QED
  BY <1>2, <1>6, <1>13, <1>14, <1>15 DEF SessionInv

\* A session is ended by its own request, or that fails.
LEMMA LogoutKeeps ==
  ASSUME SessionInv, NEW t \in Tabs, Auth!Logout(t)
  PROVE  SessionInv'
<1>1. /\ now \in Nat /\ born \in [Ids -> 0..SessionTime \cup {None}]
      /\ sessions \in [Ids -> Auth!Time \cup {None}] /\ ended \in SUBSET Ids
      /\ tab \in [Tabs -> Auth!Tab]
  BY DEF SessionInv, Auth!TypeOK
<1>2. PICK id \in Ids : id = tab[t].cookie /\ born[id] # None
  BY <1>1 DEF SessionInv, Auth!Tab, Sound, Auth!Logout
<1>3. /\ UNCHANGED <<now, born, cookie>>
      /\ \/ sessions' = [sessions EXCEPT ![id] = None] /\ ended' = ended \cup {id}
         \/ UNCHANGED <<sessions, ended>>
  BY <1>2 DEF Auth!Logout, Auth!Without
<1>4. /\ sessions' \in [Ids -> Auth!Time \cup {None}] /\ ended' \in SUBSET Ids
      /\ ended \subseteq ended'
  BY <1>1, <1>3
<1>5. \A i \in Ids : RowInv(i)'
  <2> TAKE i \in Ids
  <2>1. /\ i = id => \/ sessions'[i] = sessions[i] /\ (i \in ended' <=> i \in ended)
                     \/ sessions'[i] = None /\ i \in ended'
        /\ i # id => sessions'[i] = sessions[i] /\ (i \in ended' <=> i \in ended)
    BY <1>1, <1>3
  <2>2. RowInv(i)
    BY DEF SessionInv
  <2> QED
    BY <1>2, <1>3, <2>1, <2>2 DEF RowInv, Auth!ExpiresAt
<1> DEFINE q == [Auth!Closed EXCEPT !.at = "answered", !.answer = "redirect",
                                    !.page = tab[t].page, !.sets = None]
<1>6. tab[t].page \in Ids \cup {None}
  BY <1>1 DEF Auth!Tab
<1>7. /\ q \in Auth!Tab /\ q.at = "answered" /\ q.cookie = None /\ q.sets = None
      /\ q.stale = FALSE
  BY <1>6 DEF Auth!Closed, Auth!Tab, Auth!At, Auth!Kind, Auth!Answer
<1>8. tab' = [tab EXCEPT ![t] = q]
  BY DEF Auth!Logout, Auth!SetCookie
<1> HIDE DEF q
<1>9. Sound(q)
  BY <1>7, AuthConstants DEF Sound
<1>10. ASSUME NEW u \in Tabs PROVE tab'[u] \in Auth!Tab /\ Sound(tab[u])'
  <2>1. PICK r \in Auth!Tab : r = tab'[u] /\ Sound(r)
    BY <1>1, <1>7, <1>8, <1>9 DEF SessionInv
  <2>2. Sound(r)'
    BY <1>1, <1>3, <1>4, <2>1, SoundStays
  <2> QED
    BY <2>1, <2>2 DEF Sound, Auth!ExpiresAt
<1>11. tab' \in [Tabs -> Auth!Tab]
  BY <1>1, <1>7, <1>8
<1> QED
  BY <1>3, <1>4, <1>5, <1>10, <1>11 DEF SessionInv, Auth!TypeOK

\* Time passes.
LEMMA AuthTickKeeps ==
  ASSUME SessionInv, Auth!Tick
  PROVE  SessionInv'
<1>1. /\ now \in Nat /\ now' \in 0..SessionTime /\ now' \in Nat /\ now <= now'
      /\ UNCHANGED <<sessions, born, ended, cookie, tab>>
  BY AuthConstants DEF SessionInv, Auth!TypeOK, Auth!Tick
<1>2. /\ born \in [Ids -> 0..SessionTime \cup {None}] /\ tab \in [Tabs -> Auth!Tab]
  BY DEF SessionInv, Auth!TypeOK
<1>3. ASSUME NEW i \in Ids PROVE RowInv(i)'
  <2>1. born[i] # None => Auth!ExpiresAt(born[i]) \in Nat
    BY <1>2, ExpiryRounded
  <2>2. RowInv(i)
    BY DEF SessionInv
  <2>3. PICK e : e = Auth!ExpiresAt(born[i])
    OBVIOUS
  <2>4. e < now => e < now' \/ born[i] = None
    BY <1>1, <2>1, <2>3
  <2> QED
    BY <1>1, <2>2, <2>3, <2>4 DEF RowInv, Auth!ExpiresAt
<1>4. ASSUME NEW u \in Tabs PROVE Sound(tab[u])'
  <2>1. PICK r \in Auth!Tab : r = tab[u] /\ Sound(r)
    BY <1>2 DEF SessionInv
  <2>2. Sound(r)'
    BY <1>1, <1>2, <2>1, SoundStays
  <2>3. r = tab'[u]
    BY <1>1, <2>1
  <2> QED
    BY <2>2, <2>3 DEF Sound, Auth!ExpiresAt
<1> QED
  BY <1>1, <1>3, <1>4 DEF SessionInv, Auth!TypeOK

\* A page is rendered.
LEMMA ShowKeeps ==
  ASSUME SessionInv, NEW t \in Tabs, Auth!Show(t)
  PROVE  SessionInv'
<1> DEFINE q == [Auth!Closed EXCEPT !.at = "answered", !.answer = "done",
                                    !.page = tab[t].cookie]
<1>1. tab[t].cookie \in Ids \cup {None}
  BY DEF SessionInv, Auth!TypeOK, Auth!Tab
<1>2. /\ q \in Auth!Tab /\ q.at = "answered" /\ q.cookie = None /\ q.sets = "keep"
      /\ q.stale = FALSE
  BY <1>1 DEF Auth!Closed, Auth!Tab, Auth!At, Auth!Kind, Auth!Answer
<1>3. tab' = [tab EXCEPT ![t] = q] /\ UNCHANGED <<now, sessions, born, ended, cookie>>
  BY DEF Auth!Show, Auth!RenderPage
<1> HIDE DEF q
<1>4. Sound(q)
  BY <1>2, AuthConstants DEF Sound
<1> QED
  BY <1>2, <1>3, <1>4, TabMoves

\* Only GetSession lets a request in, or turns it away.
LEMMA OnlyLookDecides ==
  ASSUME SessionInv, Auth!Next, NEW t \in Tabs, ~Auth!Look(t)
  PROVE  ~Auth!LetIn(t) /\ ~Auth!TurnedAway(t)
<1>1. tab \in [Tabs -> Auth!Tab]
  BY DEF SessionInv, Auth!TypeOK
<1>2. ASSUME NEW u \in Tabs, tab[u].at # "entered",
             t # u => tab'[t] = tab[t]
      PROVE  ~Auth!LetIn(t) /\ ~Auth!TurnedAway(t)
  BY <1>2 DEF Auth!LetIn, Auth!TurnedAway
<1>3. ASSUME NEW u \in Tabs, NEW kind \in Auth!Kind, Auth!Send(u, kind)
      PROVE  ~Auth!LetIn(t) /\ ~Auth!TurnedAway(t)
  <2>1. tab[u].at # "entered" /\ (t # u => tab'[t] = tab[t])
    BY <1>1, <1>3 DEF Auth!Send
  <2> QED
    BY <1>2, <2>1
<1>4. ASSUME NEW u \in Tabs,
             Auth!Receive(u) \/ Auth!DropExpired(u) \/ Auth!Show(u)
               \/ Auth!Forbid(u) \/ Auth!Save(u) \/ Auth!Logout(u)
      PROVE  ~Auth!LetIn(t) /\ ~Auth!TurnedAway(t)
  <2>1. tab[u].at # "entered" /\ (t # u => tab'[t] = tab[t])
    BY <1>1, <1>4 DEF Auth!Receive, Auth!DropExpired, Auth!Show, Auth!Forbid, Auth!Save,
         Auth!Logout, Auth!Respond, Auth!RenderPage, Auth!SetCookie
  <2> QED
    BY <1>2, <2>1
<1>5. ASSUME NEW u \in Tabs, Auth!LoginFails(u) \/ \E id \in Ids : Auth!Login(u, id)
      PROVE  ~Auth!LetIn(t) /\ ~Auth!TurnedAway(t)
  <2>1. \E q : tab' = [tab EXCEPT ![u] = q] /\ q.at = "answered"
    <3>1. CASE Auth!LoginFails(u)
      BY <3>1, Answered DEF Auth!LoginFails, Auth!Answer
    <3>2. ASSUME NEW id \in Ids, Auth!Login(u, id)
          PROVE  \E q : tab' = [tab EXCEPT ![u] = q] /\ q.at = "answered"
      <4> DEFINE q == [Auth!Closed EXCEPT !.at = "answered", !.answer = "redirect",
                                          !.page = tab[u].page, !.sets = id]
      <4>1. tab' = [tab EXCEPT ![u] = q] /\ q.at = "answered"
        BY <3>2 DEF Auth!Login, Auth!SetCookie, Auth!Closed
      <4> QED
        BY <4>1
    <3> QED
      BY <1>5, <3>1, <3>2
  <2>2. tab[u].kind = "login"
    BY <1>5 DEF Auth!LoginFails, Auth!Login
  <2>3. PICK q : tab' = [tab EXCEPT ![u] = q] /\ q.at = "answered"
    BY <2>1
  <2>4. tab'[t] = IF t = u THEN q ELSE tab[t]
    BY <1>1, <2>3
  <2> QED
    BY <2>2, <2>3, <2>4 DEF Auth!LetIn, Auth!TurnedAway
<1>6. ASSUME NEW u \in Tabs \ {t}, Auth!Look(u)
      PROVE  ~Auth!LetIn(t) /\ ~Auth!TurnedAway(t)
  <2>1. tab'[t] = tab[t]
    BY <1>1, <1>6 DEF Auth!Look, Auth!Respond
  <2> QED
    BY <2>1 DEF Auth!LetIn, Auth!TurnedAway
<1>7. CASE Auth!CookieExpires \/ Auth!Tick
  <2>1. tab' = tab
    BY <1>7 DEF Auth!CookieExpires, Auth!Tick
  <2> QED
    BY <2>1 DEF Auth!LetIn, Auth!TurnedAway
<1> QED
  BY <1>3, <1>4, <1>5, <1>6, <1>7 DEF Auth!Next

\* The sessions stay sound, and a decision on a request is right.
LEMMA SessionStep ==
  ASSUME SessionInv, Auth!Next
  PROVE  SessionInv' /\ Auth!LetInWhileItLasts
<1>1. SessionInv'
  <2>1. ASSUME NEW t \in Tabs,
               Auth!LoginFails(t) \/ Auth!Forbid(t) \/ Auth!Save(t)
        PROVE  SessionInv'
    BY <2>1, RespondKeeps DEF Auth!LoginFails, Auth!Forbid, Auth!Save, Auth!Answer
  <2> QED
    BY <2>1, SendKeeps, CookieKeeps, LookKeeps, DropKeeps, ShowKeeps, LogoutKeeps,
       LoginKeeps, AuthTickKeeps DEF Auth!Next
<1>2. ASSUME NEW t \in Tabs, Auth!LetIn(t)
      PROVE  ~tab[t].stale /\ now <= born[tab[t].cookie] + SessionTTL
  BY <1>2, LookKeeps, OnlyLookDecides
<1>3. ASSUME NEW t \in Tabs, Auth!TurnedAway(t)
      PROVE  \/ tab[t].cookie = None \/ tab[t].cookie \in ended
             \/ now > born[tab[t].cookie] + SessionTTL - Second
  <2> SUFFICES ASSUME tab[t].cookie # None, tab[t].cookie \notin ended
               PROVE  now > born[tab[t].cookie] + SessionTTL - Second
    OBVIOUS
  <2>1. PICK id \in Ids : id = tab[t].cookie /\ id \notin ended /\ born[id] # None
    BY DEF SessionInv, Auth!TypeOK, Auth!Tab, Sound
  <2>2. Auth!Look(t)
    BY <1>3, OnlyLookDecides
  <2>3. ~Auth!Valid(id)
    <3>1. tab[t].kind # "loginForm"
      BY <1>3 DEF Auth!TurnedAway
    <3>2. tab' # [tab EXCEPT ![t].at = "inside"]
      BY <1>3 DEF Auth!TurnedAway, SessionInv, Auth!TypeOK, Auth!Tab
    <3> QED
      BY <2>1, <2>2, <3>1, <3>2 DEF Auth!Look, Auth!Valid
  <2>4. /\ born[id] \in 0..SessionTime /\ now \in Nat
        /\ sessions[id] # None => sessions[id] = Auth!ExpiresAt(born[id])
        /\ sessions[id] = None => Auth!ExpiresAt(born[id]) < now
    BY <2>1 DEF SessionInv, Auth!TypeOK, RowInv
  <2>5. PICK e \in Nat : /\ e = Auth!ExpiresAt(born[id])
                         /\ born[id] + SessionTTL - Second < e
    BY <2>4, ExpiryRounded
  <2>6. e < now
    <3>1. CASE sessions[id] = None
      BY <2>4, <2>5, <3>1
    <3>2. CASE sessions[id] # None
      <4>1. sessions[id] < now
        BY <2>1, <2>3, <3>2, AuthConstants DEF Auth!Valid, Auth!Present
      <4> QED
        BY <2>4, <2>5, <3>2, <4>1
    <3> QED
      BY <3>1, <3>2
  <2> QED
    BY <2>1, <2>4, <2>5, <2>6, AuthConstants
<1> QED
  BY <1>1, <1>2, <1>3 DEF Auth!LetInWhileItLasts

-----------------------------------------------------------------------------
(* The subscriber's requests.                                              *)

Rendered == Links \cup {<<>>}
Bodies ==
  {None} \cup Rendered \cup {Sub!Offers(l) : l \in Rendered}
         \cup UNION {{l[i] : i \in DOMAIN l} : l \in Links}

Requests ==
  [route : Sub!Routes, index : Nat, at : Sub!At, began : Nat \cup {None},
   listed : Lists \cup {None}, matched : {Sub!Matched(l) : l \in Lists} \cup {<<>>},
   links : Rendered, status : {"disabled", "expired", "depleted", "active", None},
   code : Sub!Codes \cup {None}, body : Bodies]

\* Which calls the routes make.
RouteInv(r) ==
  /\ r.code # None <=> r.at = "answered"
  /\ r.at = "links" <=> r.matched # <<>>
  /\ r.at = "hosts" <=> r.listed # None
  /\ r.at \in {"list", "wait", "hosts", "links"} => r.links = <<>>
  /\ r.at = "routing" => r.route \in Sub!WithRouting
  /\ r.at \in {"profile", "build"} => r.route \in Sub!Formats \cup {"config"}
  /\ r.at \in {"apps", "theme"} => r.route = "page"
  /\ r.at = "qr" => r.route \in {"qr", "link qr"}

\* A page offers what was rendered for it.
OfferInv(r) ==
  r.route = "page" /\ r.code = 200 => r.body = Sub!Offers(r.links)

\* The request for a link has an index the page offered, and if the link is there
\* it is what the answer is made of.
LinkInv(r, p) ==
  r.route \in Sub!LinkRoutes =>
    /\ p # None /\ r.index < Len(p.links)
    /\ r.route = "config" => p.links[r.index + 1] \in Parsable
    /\ r.at \in {"profile", "build", "qr"} \/ r.code = 200 =>
         r.index < Len(r.links) /\ r.body = r.links[r.index + 1]
    /\ r.code = 404 => ~(r.index < Len(r.links))
    /\ r.code = 422 => r.route = "config" /\ r.links[r.index + 1] \notin Parsable

PageInv == page # None => page.links \in Rendered /\ page.offers = Sub!Offers(page.links)

\* A fetch does not outlast FetchTime, and has read the panel as it still is
\* unless that changed since.
FetchInv ==
  fetch # None =>
    /\ fetch.began \in 0..now /\ now <= fetch.began + FetchTime
    /\ fetch.read \in BOOLEAN /\ fetch.list \in Lists \cup {None}
    /\ fetch.read =>
         /\ fetch.list \in Lists
         /\ Sub!OnPanel(fetch.list) = there.is \/ fetch.began <= there.since

\* The same of the cached list, which was fetched for so long at most.
CacheInv ==
  cached # None =>
    /\ cached.at \in 0..now /\ cached.list \in Lists \cup {None}
    /\ cached.list # None =>
         Sub!OnPanel(cached.list) = there.is \/ cached.at <= there.since + FetchTime

\* And of the list the request was given.
ListedInv ==
  request # None /\ request.at \in {"list", "wait", "hosts"} =>
    /\ request.began \in 0..now
    /\ request.at = "hosts" =>
         Sub!OnPanel(request.listed) = there.is \/ ~Sub!Settled

RequestInv ==
  request # None =>
    request \in Requests /\ RouteInv(request) /\ OfferInv(request) /\ LinkInv(request, page)

SubInv ==
  /\ now \in 0..RequestTime
  /\ panel \in [list : Lists, links : Links]
  /\ there.since \in 0..RequestTime /\ there.is = Sub!OnPanel(panel.list)
  /\ PageInv /\ FetchInv /\ CacheInv /\ RequestInv /\ ListedInv

LEMMA SubConstants ==
  /\ CacheTTL \in Nat /\ FetchTime \in Nat /\ RequestTime \in Nat
  /\ None \notin Nat /\ None \notin Lists
  /\ \A l \in Rendered : /\ Len(l) \in Nat /\ DOMAIN l = 1..Len(l)
                         /\ \A i \in 1..Len(l) : l[i] \in Bodies
                         /\ l \in Bodies /\ Sub!Offers(l) \in Bodies
<1>1. /\ CacheTTL \in Nat /\ FetchTime \in Nat /\ RequestTime \in Nat
      /\ None \notin Nat /\ None \notin Lists
  BY HttpAssumption DEF Sub!SubscriptionAssumption
<1>2. ASSUME NEW l \in Links
      PROVE  /\ Len(l) \in Nat /\ DOMAIN l = 1..Len(l)
             /\ \A i \in 1..Len(l) : l[i] \in Bodies
  <2>1. l \in Seq(Sub!Range(l))
    BY <1>2, HttpAssumption DEF Sub!SubscriptionAssumption
  <2>2. Len(l) \in Nat /\ DOMAIN l = 1..Len(l)
    BY <2>1
  <2> QED
    BY <2>2 DEF Bodies
<1>3. Len(<<>>) \in Nat /\ DOMAIN <<>> = 1..Len(<<>>) /\ ~\E i \in 1..Len(<<>>) : TRUE
  OBVIOUS
<1>4. \A l \in Rendered : l \in Bodies /\ Sub!Offers(l) \in Bodies
  BY Zenon DEF Bodies
<1> QED
  BY <1>1, <1>2, <1>3, <1>4, Zenon DEF Rendered

LEMMA SubTyped == SubInv => Sub!TypeOK
BY SubConstants
DEF SubInv, PageInv, FetchInv, CacheInv, RequestInv, ListedInv, RouteInv, Requests, Rendered, Sub!TypeOK

\* A step of the request's own, or none: the rest of the invariant.
LEMMA RestStays ==
  ASSUME SubInv, UNCHANGED <<now, panel, there, cached, fetch>>,
         PageInv', RequestInv', ListedInv'
  PROVE  SubInv'
BY DEF SubInv, FetchInv, CacheInv

\* After the list is settled there is less to show.
LEMMA LaterStays ==
  ASSUME SubInv, UNCHANGED <<now, panel, there, cached, fetch, page>>,
         request' \in Requests, RouteInv(request'), OfferInv(request'), LinkInv(request', page),
         request'.at \notin {"list", "wait", "hosts"}
  PROVE  SubInv'
<1>1. PageInv' /\ RequestInv' /\ ListedInv'
  BY DEF SubInv, PageInv, RequestInv, ListedInv
<1> QED
  BY <1>1, RestStays

\* What surrounds the request.
LEMMA SurroundingsKeep ==
  ASSUME SubInv, Sub!PanelChanges \/ Sub!Invalidate \/ Sub!Tick
  PROVE  SubInv'
<1>1. UNCHANGED <<request, page, fetch>>
  BY DEF Sub!PanelChanges, Sub!Invalidate, Sub!Tick
<1>2. PageInv' /\ RequestInv'
  BY <1>1 DEF SubInv, PageInv, RequestInv
<1>3. CASE Sub!PanelChanges
  <2>1. panel' \in [list : Lists, links : Links] /\ UNCHANGED <<now, cached>>
    BY <1>3 DEF Sub!PanelChanges, SubInv
  <2>2. CASE Sub!OnPanel(panel'.list) = there.is
    <3>1. there' = there
      BY <1>3, <2>2 DEF Sub!PanelChanges
    <3>2. FetchInv' /\ CacheInv' /\ ListedInv'
      BY <1>1, <2>1, <3>1 DEF SubInv, FetchInv, CacheInv, ListedInv, Sub!Settled
    <3> QED
      BY <1>2, <2>1, <2>2, <3>1, <3>2 DEF SubInv
  <2>3. CASE Sub!OnPanel(panel'.list) # there.is
    <3>1. there'.is = ~there.is /\ there'.since = now
      BY <1>3, <2>3 DEF Sub!PanelChanges
    <3>2. there'.is = Sub!OnPanel(panel'.list)
      BY <2>3, <3>1 DEF SubInv, Sub!OnPanel
    <3>3. FetchInv' /\ CacheInv'
      BY <1>1, <2>1, <3>1, SubConstants DEF SubInv, FetchInv, CacheInv
    <3>4. ListedInv'
      <4>1. CASE request # None /\ request.at \in {"list", "wait", "hosts"}
        <5>1. request.began \in 0..now /\ now \in Nat
          BY <4>1, SubConstants DEF SubInv, ListedInv
        <5>2. ~(there'.since + FetchTime < request.began)
          BY <3>1, <5>1, SubConstants
        <5> QED
          BY <1>1, <2>1, <5>2 DEF SubInv, ListedInv, Sub!Settled
      <4>2. CASE ~(request # None /\ request.at \in {"list", "wait", "hosts"})
        BY <1>1, <4>2 DEF ListedInv
      <4> QED
        BY <4>1, <4>2
    <3> QED
      BY <1>2, <2>1, <3>1, <3>2, <3>3, <3>4 DEF SubInv
  <2> QED
    BY <2>2, <2>3
<1>4. CASE Sub!Invalidate
  BY <1>1, <1>2, <1>4
  DEF Sub!Invalidate, SubInv, FetchInv, CacheInv, ListedInv, Sub!Settled
<1>5. CASE Sub!Tick
  <2>1. now' \in 0..RequestTime /\ now' = now + 1 /\ UNCHANGED <<panel, there, cached>>
    BY <1>5, SubConstants DEF Sub!Tick, SubInv
  <2>2. CacheInv'
    BY <2>1, SubConstants DEF SubInv, CacheInv
  <2>3. FetchInv'
    BY <1>1, <1>5, <2>1, SubConstants DEF Sub!Tick, SubInv, FetchInv
  <2>4. ListedInv'
    BY <1>1, <2>1, SubConstants DEF SubInv, ListedInv, Sub!Settled
  <2> QED
    BY <1>2, <2>1, <2>2, <2>3, <2>4 DEF SubInv
<1> QED
  BY <1>3, <1>4, <1>5

\* A fetch begins for somebody else, or reads the panel.
LEMMA FetchKeeps ==
  ASSUME SubInv, Sub!OthersFetch \/ Sub!PanelReads
  PROVE  SubInv'
<1>1. UNCHANGED <<now, panel, there, cached, request, page>>
  BY DEF Sub!OthersFetch, Sub!PanelReads
<1>2. FetchInv'
  <2>1. CASE Sub!OthersFetch
    BY <1>1, <2>1, SubConstants DEF Sub!OthersFetch, Sub!Fetching, SubInv, FetchInv
  <2>2. CASE Sub!PanelReads
    BY <1>1, <2>2, SubConstants DEF Sub!PanelReads, SubInv, FetchInv
  <2> QED
    BY <2>1, <2>2
<1> QED
  BY <1>1, <1>2 DEF SubInv, PageInv, CacheInv, RequestInv, ListedInv, Sub!Settled

\* A request begins.
LEMMA BeginKeeps ==
  ASSUME SubInv, Sub!BeginNegotiated \/ Sub!BeginNamed \/ Sub!FollowLink
  PROVE  SubInv'
<1>0. now \in Nat
  BY SubConstants DEF SubInv
<1>1. ASSUME NEW route \in Sub!Routes, NEW index \in Nat, Sub!Begin(route, index),
             PageInv',
             route \in Sub!LinkRoutes =>
               /\ page' # None /\ index < Len(page'.links)
               /\ route = "config" => page'.links[index + 1] \in Parsable
      PROVE  SubInv'
  <2>1. /\ request' = Sub!Request(route, index)
        /\ UNCHANGED <<now, panel, there, cached, fetch>>
    BY <1>1 DEF Sub!Begin
  <2>2. /\ request' \in Requests /\ request'.route = route /\ request'.index = index
        /\ request'.at = "list" /\ request'.matched = <<>> /\ request'.links = <<>>
        /\ request'.code = None /\ request'.began = now /\ request'.listed = None
    BY <2>1, <1>0 DEF Sub!Request, Requests, Rendered, Bodies, Sub!At
  <2>3. RequestInv' /\ ListedInv'
    BY <1>0, <1>1, <2>1, <2>2, SubConstants
    DEF RequestInv, ListedInv, RouteInv, OfferInv, LinkInv
  <2> QED
    BY <1>1, <2>1, <2>3, RestStays
<1>2. CASE Sub!BeginNegotiated
  <2>1. PICK agent \in Agents : Sub!Begin(Sub!DetectFormat(agent), 0)
    BY <1>2 DEF Sub!BeginNegotiated
  <2>2. Sub!DetectFormat(agent) \in {"mihomo", "clash", "incy by agent", "page", "links"}
    BY DEF Sub!DetectFormat
  <2>3. PICK route \in {"mihomo", "clash", "incy by agent", "page", "links"} :
          Sub!Begin(route, 0)
    BY <2>1, <2>2
  <2>4. route \in Sub!Routes /\ route \notin Sub!LinkRoutes
    BY DEF Sub!Routes, Sub!Formats, Sub!NamedRoutes, Sub!LinkRoutes
  <2>5. PageInv'
    BY <1>2 DEF Sub!BeginNegotiated, PageInv
  <2> QED
    BY <1>1, <2>3, <2>4, <2>5
<1>3. CASE Sub!BeginNamed
  <2>1. PICK route \in Sub!NamedRoutes : Sub!Begin(route, 0)
    BY <1>3 DEF Sub!BeginNamed
  <2>3. PageInv'
    BY <1>3 DEF Sub!BeginNamed, PageInv
  <2>2. route \in Sub!Routes /\ route \notin Sub!LinkRoutes
    BY DEF Sub!Routes, Sub!Formats, Sub!NamedRoutes, Sub!LinkRoutes
  <2> QED
    BY <1>1, <2>1, <2>2, <2>3
<1>4. CASE Sub!FollowLink
  <2>1. PICK i \in DOMAIN page.offers, route \in Sub!LinkRoutes :
          /\ page # None /\ page' = page
          /\ route = "config" => page.offers[i].config
          /\ Sub!Begin(route, page.offers[i].index)
    BY <1>4 DEF Sub!FollowLink
  <2>2. page.links \in Rendered /\ page.offers = Sub!Offers(page.links)
    BY <2>1 DEF SubInv, PageInv
  <2>3. /\ i \in 1..Len(page.links) /\ Len(page.links) \in Nat
        /\ page.offers[i].index = i - 1
        /\ page.offers[i].config = (page.links[i] \in Parsable)
    BY <2>1, <2>2, SubConstants DEF Sub!Offers, Sub!Offer
  <2>4. PICK index \in Nat : /\ index = i - 1 /\ index + 1 = i
                             /\ index < Len(page.links)
    BY <2>3
  <2>5. route \in Sub!Routes /\ PageInv'
    BY <2>1 DEF Sub!Routes, SubInv, PageInv
  <2> QED
    BY <1>1, <2>1, <2>3, <2>4, <2>5
<1> QED
  BY <1>2, <1>3, <1>4

\* An answer is given, or the next call made.
LEMMA AnswerGiven ==
  ASSUME request \in Requests, NEW code \in Sub!Codes, NEW body \in Bodies,
         Sub!Answer(code, body)
  PROVE  /\ request' \in Requests /\ request'.at = "answered" /\ request'.matched = <<>>
         /\ request'.code = code /\ request'.body = body
         /\ request'.route = request.route /\ request'.index = request.index
         /\ request'.links = request.links /\ request'.listed = request.listed
BY DEF Sub!Answer, Requests, Sub!At

LEMMA NextCall ==
  ASSUME request \in Requests, NEW at \in Sub!At, Sub!Goto(at)
  PROVE  /\ request' \in Requests /\ request'.at = at
         /\ request'.matched = request.matched /\ request'.code = request.code
         /\ request'.body = request.body /\ request'.route = request.route
         /\ request'.index = request.index /\ request'.links = request.links
         /\ request'.listed = request.listed /\ request'.began = request.began
BY DEF Sub!Goto, Requests

\* The request has the list, or the error.
LEMMA HasList ==
  ASSUME SubInv, request # None, request.at \in {"list", "wait"},
         NEW list \in Lists \cup {None}, Sub!Listed(list), page' = page
  PROVE  /\ RequestInv'
         /\ request'.at \in {"hosts", "answered"}
         /\ request'.at = "hosts" =>
              list # None /\ request'.listed = list /\ request'.began = request.began
<1>1. /\ request \in Requests /\ RouteInv(request) /\ LinkInv(request, page)
      /\ request.listed = None /\ request.links = <<>> /\ request.code = None
  BY DEF SubInv, RequestInv, RouteInv
<1>2. CASE list = None
  <2>1. None \in Bodies /\ 502 \in Sub!Codes /\ Sub!Answer(502, None)
    BY <1>2 DEF Bodies, Sub!Codes, Sub!Listed
  <2>2. /\ request' \in Requests /\ request'.at = "answered" /\ request'.matched = <<>>
        /\ request'.code = 502 /\ request'.route = request.route
        /\ request'.index = request.index /\ request'.links = request.links
        /\ request'.listed = None
    BY <1>1, <2>1, AnswerGiven
  <2>3. RouteInv(request')
    <3>1. request'.code # None
      BY <2>2, SubConstants
    <3> QED
      BY <2>2, <3>1 DEF RouteInv
  <2>4. OfferInv(request') /\ LinkInv(request', page)
    BY <1>1, <2>2, SubConstants DEF OfferInv, LinkInv
  <2> QED
    BY <2>2, <2>3, <2>4 DEF RequestInv
<1>3. CASE list # None
  <2>1. request' = [request EXCEPT !.at = "hosts", !.listed = list]
    BY <1>3 DEF Sub!Listed
  <2>2. /\ request' \in Requests /\ request'.at = "hosts" /\ request'.listed = list
        /\ request'.matched = request.matched /\ request'.links = <<>>
        /\ request'.code = None /\ request'.began = request.began
        /\ request'.route = request.route /\ request'.index = request.index
    BY <1>1, <2>1 DEF Requests, Sub!At
  <2>3. RouteInv(request')
    BY <1>1, <1>3, <2>2 DEF RouteInv
  <2>4. OfferInv(request') /\ LinkInv(request', page)
    BY <1>1, <2>2, SubConstants DEF OfferInv, LinkInv
  <2> QED
    BY <1>3, <2>2, <2>3, <2>4 DEF RequestInv
<1> QED
  BY <1>2, <1>3

\* The list is asked for: it is in the cache, or a fetch is to be waited for.
LEMMA ListKeeps ==
  ASSUME SubInv, Sub!ListInbounds
  PROVE  SubInv'
<1>1. /\ request # None /\ request \in Requests /\ request.at = "list"
      /\ RouteInv(request) /\ LinkInv(request, page)
      /\ UNCHANGED <<now, panel, there, cached, page>>
  BY DEF Sub!ListInbounds, SubInv, RequestInv
<1>2. /\ now \in Nat /\ there.since \in Nat /\ request.began \in 0..now
  BY <1>1, SubConstants DEF SubInv, ListedInv
<1>3. PageInv' /\ CacheInv'
  BY <1>1 DEF SubInv, PageInv, CacheInv
<1>4. CASE Sub!Fresh
  <2>1. Sub!Listed(cached.list) /\ fetch' = fetch
    BY <1>4 DEF Sub!ListInbounds
  <2>2. /\ cached.list \in Lists \cup {None}
        /\ cached.at \in Nat /\ now < cached.at + CacheTTL
        /\ cached.list # None =>
             Sub!OnPanel(cached.list) = there.is \/ cached.at <= there.since + FetchTime
    BY <1>4, SubConstants DEF Sub!Fresh, SubInv, CacheInv
  <2>3. /\ RequestInv' /\ request'.at \in {"hosts", "answered"}
        /\ request'.at = "hosts" =>
             /\ cached.list # None /\ request'.listed = cached.list
             /\ request'.began = request.began
    BY <1>1, <2>1, <2>2, HasList
  <2>4. ListedInv'
    <3>1. CASE request'.at = "hosts"
      <4>1. CASE cached.at <= there.since + FetchTime
        <5>1. ~(there.since + FetchTime + CacheTTL <= request.began)
          BY <1>2, <2>2, <4>1, SubConstants
        <5> QED
          BY <1>1, <1>2, <2>3, <3>1, <5>1 DEF ListedInv, Sub!Settled
      <4>2. CASE Sub!OnPanel(cached.list) = there.is
        <5>1. (Sub!OnPanel(request.listed))' = (there.is)'
          BY <1>1, <2>3, <3>1, <4>2 DEF Sub!OnPanel, Sub!Matched
        <5> QED
          BY <1>1, <1>2, <2>3, <3>1, <5>1 DEF ListedInv
      <4> QED
        BY <2>2, <2>3, <3>1, <4>1, <4>2
    <3>2. CASE request'.at = "answered"
      BY <3>2 DEF ListedInv
    <3> QED
      BY <2>3, <3>1, <3>2
  <2> QED
    BY <1>1, <1>3, <2>1, <2>3, <2>4, RestStays
<1>5. CASE ~Sub!Fresh
  <2>1. Sub!Goto("wait") /\ fetch' = IF fetch = None THEN Sub!Fetching ELSE fetch
    BY <1>5 DEF Sub!ListInbounds
  <2>2. /\ request' \in Requests /\ request'.at = "wait"
        /\ request'.matched = request.matched /\ request'.code = request.code
        /\ request'.body = request.body /\ request'.route = request.route
        /\ request'.index = request.index /\ request'.links = request.links
        /\ request'.listed = request.listed /\ request'.began = request.began
    BY <1>1, <2>1, NextCall DEF Sub!At
  <2>3. RouteInv(request') /\ OfferInv(request') /\ LinkInv(request', page)
    BY <1>1, <2>2, SubConstants DEF RouteInv, OfferInv, LinkInv
  <2>4. FetchInv'
    <3>1. CASE fetch = None
      BY <1>1, <1>2, <2>1, <3>1, SubConstants DEF Sub!Fetching, FetchInv
    <3>2. CASE fetch # None
      BY <1>1, <2>1, <3>2 DEF SubInv, FetchInv
    <3> QED
      BY <3>1, <3>2
  <2>5. RequestInv' /\ ListedInv'
    BY <1>1, <1>2, <2>2, <2>3, <2>4 DEF RequestInv, ListedInv
  <2> QED
    BY <1>1, <1>3, <2>4, <2>5 DEF SubInv
<1> QED
  BY <1>4, <1>5

\* The fetch returns.
LEMMA ReturnKeeps ==
  ASSUME SubInv, Sub!FetchReturns
  PROVE  SubInv'
<1>1. /\ fetch # None /\ fetch' = None /\ UNCHANGED <<now, panel, there, page>>
      /\ fetch.began \in Nat /\ fetch.began <= now /\ now <= fetch.began + FetchTime
      /\ now \in Nat /\ there.since \in Nat
  BY SubConstants DEF Sub!FetchReturns, SubInv, FetchInv
<1>2. PICK list \in {None} \cup (IF fetch.read THEN {fetch.list} ELSE {}) :
        /\ cached' = [list |-> list, at |-> now]
        /\ IF request # None /\ request.at = "wait" THEN Sub!Listed(list)
           ELSE UNCHANGED request
  BY DEF Sub!FetchReturns
<1>3. /\ list \in Lists \cup {None}
      /\ list # None => Sub!OnPanel(list) = there.is \/ fetch.began <= there.since
  BY <1>1, <1>2 DEF SubInv, FetchInv
<1>4. PageInv' /\ FetchInv'
  BY <1>1 DEF SubInv, PageInv, FetchInv
<1>5. CacheInv'
  BY <1>1, <1>2, <1>3, SubConstants DEF CacheInv
<1>6. RequestInv' /\ ListedInv'
  <2>1. CASE request # None /\ request.at = "wait"
    <3>1. /\ RequestInv' /\ request'.at \in {"hosts", "answered"}
          /\ request'.at = "hosts" =>
               list # None /\ request'.listed = list /\ request'.began = request.began
      BY <1>1, <1>2, <1>3, <2>1, HasList
    <3>2. request.began \in 0..now
      BY <2>1 DEF SubInv, ListedInv
    <3>3. CASE request'.at = "hosts"
      <4>1. CASE fetch.began <= there.since
        <5>1. ~(there.since + FetchTime < request.began)
          BY <1>1, <3>2, <4>1, SubConstants
        <5> QED
          BY <1>1, <3>1, <3>2, <3>3, <5>1 DEF ListedInv, Sub!Settled
      <4>2. CASE Sub!OnPanel(list) = there.is
        <5>1. (Sub!OnPanel(request.listed))' = (there.is)'
          BY <1>1, <3>1, <3>3, <4>2 DEF Sub!OnPanel, Sub!Matched
        <5> QED
          BY <1>1, <3>1, <3>2, <3>3, <5>1 DEF ListedInv
      <4> QED
        BY <1>3, <3>1, <3>3, <4>1, <4>2
    <3>4. CASE request'.at = "answered"
      BY <3>1, <3>4 DEF ListedInv
    <3> QED
      BY <3>1, <3>3, <3>4
  <2>2. CASE ~(request # None /\ request.at = "wait")
    <3>1. request' = request
      BY <1>2, <2>2
    <3> QED
      BY <1>1, <2>2, <3>1 DEF SubInv, RequestInv, ListedInv, Sub!Settled
  <2> QED
    BY <2>1, <2>2
<1> QED
  BY <1>1, <1>4, <1>5, <1>6 DEF SubInv

\* The id is found in the list, or not.
LEMMA HostsKeep ==
  ASSUME SubInv, Sub!ListHosts
  PROVE  SubInv' /\ Sub!FoundAsOnPanel
<1>1. /\ request # None /\ request \in Requests /\ request.at = "hosts"
      /\ RouteInv(request) /\ LinkInv(request, page)
      /\ UNCHANGED <<now, panel, there, cached, fetch, page>>
  BY DEF Sub!ListHosts, SubInv, RequestInv
<1> DEFINE list == request.listed
<1>2. /\ list \in Lists /\ request.links = <<>> /\ request.code = None
      /\ request.matched = <<>>
  BY <1>1 DEF RouteInv, Requests
<1>3. Sub!OnPanel(list) = there.is \/ ~Sub!Settled
  BY <1>1 DEF SubInv, ListedInv
<1>4. CASE ~list.decodes \/ ~Sub!OnPanel(list)
  <2>0. request' = [request EXCEPT !.at = "answered", !.began = None, !.listed = None,
                                   !.code = IF list.decodes THEN 404 ELSE 502]
    BY <1>4, Zenon DEF Sub!ListHosts
  <2>1. PICK code \in Sub!Codes :
          /\ code # None
          /\ code = 404 => ~Sub!OnPanel(list)
          /\ request' = [request EXCEPT !.at = "answered", !.began = None, !.listed = None,
                                        !.code = code]
    <3>1. {404, 502} \subseteq Sub!Codes
      BY DEF Sub!Codes
    <3>2. CASE list.decodes
      <4>1. ~Sub!OnPanel(list)
        BY <1>4, <3>2
      <4>2. request' = [request EXCEPT !.at = "answered", !.began = None, !.listed = None,
                                       !.code = 404]
        BY <2>0, <3>2
      <4>3. 404 \in Sub!Codes /\ 404 # None
        BY <3>1, SubConstants
      <4> QED
        BY <4>1, <4>2, <4>3, Zenon
    <3>3. CASE ~list.decodes
      <4>1. request' = [request EXCEPT !.at = "answered", !.began = None, !.listed = None,
                                       !.code = 502]
        BY <2>0, <3>3
      <4>2. 502 \in Sub!Codes /\ 502 # None /\ (502 = 404 => ~Sub!OnPanel(list))
        BY <3>1, SubConstants
      <4> QED
        BY <4>1, <4>2, Zenon
    <3> QED
      BY <3>2, <3>3
  <2>2. /\ request' \in Requests /\ request'.at = "answered" /\ request'.matched = <<>>
        /\ request'.code = code /\ request'.listed = None /\ request'.links = <<>>
        /\ request'.route = request.route /\ request'.index = request.index
    BY <1>1, <1>2, <2>1 DEF Requests, Sub!At
  <2>3. RouteInv(request')
    BY <2>1, <2>2 DEF RouteInv
  <2>4. OfferInv(request') /\ LinkInv(request', page)
    <3>1. /\ request.index \in Nat /\ ~(request.index < Len(<<>>))
          /\ request'.code \in {404, 502}
      BY <1>1, <2>0, <2>2 DEF Requests
    <3> QED
      BY <1>1, <2>0, <2>2, <3>1 DEF OfferInv, LinkInv
  <2>5. Sub!FoundAsOnPanel
    BY <1>3, <2>1, <2>2 DEF Sub!FoundAsOnPanel
  <2> QED
    BY <1>1, <2>2, <2>3, <2>4, <2>5, LaterStays
<1>5. CASE ~(~list.decodes \/ ~Sub!OnPanel(list))
  <2>1. request' = [request EXCEPT !.at = "links", !.began = None, !.listed = None,
                                   !.matched = Sub!Matched(list)]
    BY <1>5 DEF Sub!ListHosts
  <2>2. PICK m : m = Sub!Matched(list) /\ m # <<>> /\ m \in {Sub!Matched(l) : l \in Lists}
    BY <1>2, <1>5 DEF Sub!OnPanel
  <2>3. /\ request' \in Requests /\ request'.at = "links" /\ request'.matched = m
        /\ request'.code = None /\ request'.listed = None /\ request'.links = <<>>
        /\ request'.route = request.route /\ request'.index = request.index
    BY <1>1, <1>2, <2>1, <2>2 DEF Requests, Sub!At
  <2>4. RouteInv(request')
    BY <2>2, <2>3 DEF RouteInv
  <2>5. OfferInv(request') /\ LinkInv(request', page)
    BY <1>1, <2>3, SubConstants DEF OfferInv, LinkInv
  <2>6. Sub!FoundAsOnPanel
    BY <1>3, <1>5, <2>3, SubConstants DEF Sub!FoundAsOnPanel
  <2> QED
    BY <1>1, <2>3, <2>4, <2>5, <2>6, LaterStays
<1> QED
  BY <1>4, <1>5

\* The links are fetched.
LEMMA LinksKeep ==
  ASSUME SubInv, Sub!GetSubLinks
  PROVE  SubInv'
<1>1. /\ request # None /\ request \in Requests /\ request.at = "links"
      /\ RouteInv(request) /\ LinkInv(request, page)
      /\ UNCHANGED <<now, panel, there, cached, fetch, page>>
  BY DEF Sub!GetSubLinks, SubInv, RequestInv
<1>2. /\ request.links = <<>> /\ request.listed = None
      /\ request.index \in Nat /\ request.route \in Sub!Routes
  BY <1>1 DEF RouteInv, Requests
<1>3. CASE Sub!Answer(502, None)
  <2>1. None \in Bodies /\ 502 \in Sub!Codes
    BY DEF Bodies, Sub!Codes
  <2>2. /\ request' \in Requests /\ request'.at = "answered" /\ request'.matched = <<>>
        /\ request'.code = 502 /\ request'.route = request.route
        /\ request'.index = request.index /\ request'.links = request.links
        /\ request'.listed = None
    BY <1>1, <1>2, <1>3, <2>1, AnswerGiven
  <2>3. RouteInv(request')
    BY <2>2, SubConstants DEF RouteInv
  <2>4. OfferInv(request') /\ LinkInv(request', page)
    BY <1>1, <2>2 DEF OfferInv, LinkInv
  <2> QED
    BY <1>1, <2>2, <2>3, <2>4, LaterStays
<1>4. CASE ~Sub!Answer(502, None)
  <2> DEFINE links == IF there.is THEN panel.links ELSE <<>>
             code  == Sub!FindLink(request.index, links)
             at    == Sub!AfterResolve(code)
             body  == IF request.route \in Sub!LinkRoutes /\ code = 200
                      THEN links[request.index + 1] ELSE None
             shown == IF request.route \in Sub!Formats THEN <<>> ELSE links
             status == IF request.route \in Sub!ShowStatus
                       THEN Sub!Status(request.matched) ELSE None
  <2>1. request' = [request EXCEPT
              !.matched = <<>>, !.at = at, !.links = shown, !.status = status,
              !.code = IF at = "answered" THEN code ELSE None,
              !.body = body]
    BY <1>4, Zenon DEF Sub!GetSubLinks
  <2>2. links \in Rendered /\ shown \in Rendered /\ Len(links) \in Nat
    BY SubConstants DEF SubInv, Rendered
  <2>3. status \in {"disabled", "expired", "depleted", "active", None}
    BY DEF Sub!Status
  <2>4. /\ code \in {200, 404, 422}
        /\ request.route \notin Sub!LinkRoutes => code = 200
        /\ request.route \in Sub!LinkRoutes /\ code # 404 => request.index < Len(links)
        /\ request.route \in Sub!LinkRoutes /\ code = 404 => ~(request.index < Len(links))
        /\ code = 422 => /\ request.route = "config"
                         /\ links[request.index + 1] \notin Parsable
    BY DEF Sub!FindLink, Sub!InRange
  <2>5. body \in Bodies
    <3>1. CASE request.route \in Sub!LinkRoutes /\ code = 200
      <4>1. request.index + 1 \in 1..Len(links)
        BY <1>2, <2>2, <2>4, <3>1
      <4> QED
        BY <2>2, <3>1, <4>1, SubConstants
    <3>2. CASE ~(request.route \in Sub!LinkRoutes /\ code = 200)
      BY <3>2 DEF Bodies
    <3> QED
      BY <3>1, <3>2
  <2>12. request.route \in Sub!LinkRoutes => shown = links
    BY DEF Sub!LinkRoutes, Sub!Formats
  <2> HIDE DEF links, shown, code, body, status
  <2>6. /\ at \in {"answered", "routing", "profile", "apps", "qr"}
        /\ code # 200 => at = "answered"
        /\ at = "routing" => request.route \in Sub!WithRouting
        /\ at = "profile" => request.route \in Sub!Formats \cup {"config"}
        /\ at = "apps" => request.route = "page"
        /\ at = "qr" => request.route \in {"qr", "link qr"}
        /\ request.route = "page" /\ code = 200 => at # "answered"
    BY DEF Sub!AfterResolve, Sub!WithRouting, Sub!Formats
  <2> HIDE DEF at
  <2>7. PICK given \in Sub!Codes \cup {None} :
          /\ given = IF at = "answered" THEN code ELSE None
          /\ given # None <=> at = "answered"
          /\ given # None => given = code
    BY <2>4, SubConstants DEF Sub!Codes
  <2>8. /\ request' \in Requests /\ request'.at = at /\ request'.matched = <<>>
        /\ request'.code = given /\ request'.body = body /\ request'.links = shown
        /\ request'.route = request.route /\ request'.index = request.index
        /\ request'.listed = None
    <3>1. <<>> \in {Sub!Matched(l) : l \in Lists} \cup {<<>>} /\ at \in Sub!At
      BY <2>6 DEF Sub!At
    <3> QED
      BY <1>1, <1>2, <2>1, <2>2, <2>3, <2>5, <2>7, <3>1 DEF Requests
  <2>9. RouteInv(request')
    BY <2>6, <2>7, <2>8 DEF RouteInv
  <2>10. OfferInv(request')
    BY <2>4, <2>6, <2>7, <2>8, SubConstants DEF OfferInv
  <2>11. LinkInv(request', page)
    <3>1. CASE request.route \notin Sub!LinkRoutes
      BY <2>8, <3>1 DEF LinkInv
    <3>2. CASE request.route \in Sub!LinkRoutes
      <4>1. code = 200 => body = links[request.index + 1]
        BY <3>2 DEF body
      <4>2. at \in {"profile", "build", "qr"} \/ given = 200 => code = 200
        BY <2>6, <2>7, SubConstants
      <4>3. (given = 404 => code = 404) /\ (given = 422 => code = 422)
        BY <2>7, SubConstants
      <4> QED
        BY <1>1, <2>4, <2>8, <2>12, <3>2, <4>1, <4>2, <4>3 DEF LinkInv
    <3> QED
      BY <3>1, <3>2
  <2> QED
    BY <1>1, <2>6, <2>8, <2>9, <2>10, <2>11, LaterStays
<1> QED
  BY <1>3, <1>4

\* The calls after the links.
LEMMA LaterKeep ==
  ASSUME SubInv,
         \/ Sub!GetRouting \/ Sub!ResolveProfile \/ Sub!BuildConfig
         \/ Sub!ListApps \/ Sub!RenderTheme \/ Sub!EncodeQR
  PROVE  SubInv'
<1>1. /\ request # None /\ request \in Requests /\ RouteInv(request)
      /\ OfferInv(request) /\ LinkInv(request, page)
      /\ request.at \in {"routing", "profile", "build", "apps", "theme", "qr"}
      /\ UNCHANGED <<now, panel, there, cached, fetch, page>>
  BY DEF SubInv, RequestInv, Sub!GetRouting, Sub!ResolveProfile, Sub!BuildConfig,
       Sub!ListApps, Sub!RenderTheme, Sub!EncodeQR
<1>2. /\ request.links \in Rendered /\ request.body \in Bodies /\ None \in Bodies
      /\ request.links \in Bodies /\ Sub!Offers(request.links) \in Bodies
      /\ request.code = None /\ request.matched = <<>> /\ request.listed = None
  BY <1>1, SubConstants DEF Requests, RouteInv, Bodies
\* What the answer of each is made of.
<1>3. ASSUME NEW code \in {200, 500}, NEW body \in Bodies, Sub!Answer(code, body),
             code = 200 /\ request.route \in Sub!LinkRoutes =>
               request.at \in {"build", "qr"} /\ body = request.body,
             code = 200 /\ request.route = "page" => body = Sub!Offers(request.links)
      PROVE  SubInv'
  <2>1. /\ request' \in Requests /\ request'.at = "answered" /\ request'.matched = <<>>
        /\ request'.code = code /\ request'.body = body
        /\ request'.route = request.route /\ request'.index = request.index
        /\ request'.links = request.links /\ request'.listed = None
    BY <1>1, <1>2, <1>3, AnswerGiven DEF Sub!Codes
  <2>2. RouteInv(request')
    BY <2>1, SubConstants DEF RouteInv
  <2>3. OfferInv(request') /\ LinkInv(request', page)
    BY <1>1, <1>3, <2>1 DEF OfferInv, LinkInv
  <2> QED
    BY <1>1, <2>1, <2>2, <2>3, LaterStays
<1>4. ASSUME NEW at \in {"profile", "build", "theme"}, Sub!Goto(at),
             at \in {"profile", "build"} => request.route \in Sub!Formats \cup {"config"},
             at = "theme" => request.route = "page",
             request.route \in Sub!LinkRoutes => request.at = "profile"
      PROVE  SubInv'
  <2>1. /\ request' \in Requests /\ request'.at = at /\ request'.matched = request.matched
        /\ request'.code = request.code /\ request'.body = request.body
        /\ request'.route = request.route /\ request'.index = request.index
        /\ request'.links = request.links /\ request'.listed = None
    BY <1>1, <1>2, <1>4, NextCall DEF Sub!At
  <2>2. RouteInv(request')
    BY <1>2, <1>4, <2>1 DEF RouteInv
  <2>3. OfferInv(request') /\ LinkInv(request', page)
    BY <1>1, <1>2, <1>4, <2>1, SubConstants DEF OfferInv, LinkInv
  <2> QED
    BY <1>1, <1>4, <2>1, <2>2, <2>3, LaterStays
<1>5. SubInv'
  <2>1. CASE Sub!GetRouting
    <3>1. request.route \in Sub!WithRouting
      BY <1>1, <2>1 DEF Sub!GetRouting, RouteInv
    <3>2. request.route \notin Sub!LinkRoutes /\ request.route # "page"
      BY <3>1 DEF Sub!WithRouting, Sub!LinkRoutes
    <3>3. CASE request.route = "links"
      BY <1>2, <1>3, <2>1, <3>2, <3>3 DEF Sub!GetRouting
    <3>4. CASE request.route # "links"
      <4>1. request.route \in Sub!Formats
        BY <3>1, <3>4 DEF Sub!WithRouting, Sub!Formats
      <4> QED
        BY <1>4, <2>1, <3>2, <3>4, <4>1 DEF Sub!GetRouting
    <3> QED
      BY <3>3, <3>4
  <2>2. CASE Sub!ResolveProfile
    <3>1. request.at = "profile" /\ request.route \in Sub!Formats \cup {"config"}
      BY <1>1, <2>2 DEF Sub!ResolveProfile, RouteInv
    <3> QED
      BY <1>2, <1>3, <1>4, <2>2, <3>1 DEF Sub!ResolveProfile
  <2>3. CASE Sub!BuildConfig
    <3>1. request.at = "build" /\ request.route \in Sub!Formats \cup {"config"}
      BY <1>1, <2>3 DEF Sub!BuildConfig, RouteInv
    <3>2. request.route # "page"
      BY <3>1 DEF Sub!Formats
    <3> QED
      BY <1>2, <1>3, <2>3, <3>1, <3>2 DEF Sub!BuildConfig
  <2>4. CASE Sub!ListApps \/ Sub!RenderTheme
    <3>1. request.route = "page"
      BY <1>1, <2>4 DEF Sub!ListApps, Sub!RenderTheme, RouteInv
    <3>2. request.route \notin Sub!LinkRoutes
      BY <3>1 DEF Sub!LinkRoutes
    <3> QED
      BY <1>2, <1>3, <1>4, <2>4, <3>1, <3>2 DEF Sub!ListApps, Sub!RenderTheme
  <2>5. CASE Sub!EncodeQR
    <3>1. request.at = "qr" /\ request.route \in {"qr", "link qr"}
      BY <1>1, <2>5 DEF Sub!EncodeQR, RouteInv
    <3>2. request.route # "page"
      BY <3>1
    <3>3. CASE Sub!Answer(200, request.body)
      BY <1>2, <1>3, <3>1, <3>2, <3>3
    <3>4. CASE Sub!Answer(500, None)
      BY <1>2, <1>3, <3>4
    <3> QED
      BY <2>5, <3>3, <3>4 DEF Sub!EncodeQR
  <2> QED
    BY <2>1, <2>2, <2>3, <2>4, <2>5
<1> QED
  BY <1>5

\* The subscriber has the answer.
LEMMA ReceivedKeeps ==
  ASSUME SubInv, Sub!Received
  PROVE  SubInv'
<1>1. /\ request # None /\ request \in Requests /\ OfferInv(request)
      /\ request' = None /\ UNCHANGED <<now, panel, there, cached, fetch>>
  BY DEF SubInv, RequestInv, Sub!Received
<1>2. PageInv'
  <2>1. CASE request.route = "page" /\ request.code = 200
    <3>1. page' = [links |-> request.links, offers |-> request.body]
      BY <2>1 DEF Sub!Received
    <3> QED
      BY <1>1, <2>1, <3>1 DEF PageInv, OfferInv, Requests
  <2>2. CASE ~(request.route = "page" /\ request.code = 200)
    <3>1. page' = page
      BY <2>2 DEF Sub!Received
    <3> QED
      BY <3>1 DEF SubInv, PageInv
  <2> QED
    BY <2>1, <2>2
<1> QED
  BY <1>1, <1>2, RestStays DEF RequestInv, ListedInv

\* Only ListHosts moves a request on from "hosts".
LEMMA OnlyHostsFind ==
  ASSUME SubInv, Sub!Next, ~Sub!ListHosts
  PROVE  Sub!FoundAsOnPanel
<1>1. CASE \/ Sub!PanelChanges \/ Sub!Invalidate \/ Sub!Tick
           \/ Sub!OthersFetch \/ Sub!PanelReads
  BY <1>1 DEF Sub!PanelChanges, Sub!Invalidate, Sub!Tick, Sub!OthersFetch, Sub!PanelReads,
       Sub!FoundAsOnPanel
<1>2. CASE Sub!BeginNegotiated \/ Sub!BeginNamed \/ Sub!FollowLink
  BY <1>2 DEF Sub!BeginNegotiated, Sub!BeginNamed, Sub!FollowLink, Sub!Begin,
       Sub!FoundAsOnPanel
<1>3. CASE Sub!FetchReturns
  BY <1>3 DEF Sub!FetchReturns, Sub!FoundAsOnPanel
<1>4. CASE \/ Sub!ListInbounds
           \/ Sub!GetSubLinks \/ Sub!GetRouting \/ Sub!ResolveProfile \/ Sub!BuildConfig
           \/ Sub!ListApps \/ Sub!RenderTheme \/ Sub!EncodeQR \/ Sub!Received
  <2>1. request.at # "hosts"
    BY <1>4 DEF Sub!ListInbounds, Sub!GetSubLinks, Sub!GetRouting, Sub!ResolveProfile,
         Sub!BuildConfig, Sub!ListApps, Sub!RenderTheme, Sub!EncodeQR, Sub!Received
  <2> QED
    BY <2>1 DEF Sub!FoundAsOnPanel
<1> QED
  BY <1>1, <1>2, <1>3, <1>4 DEF Sub!Next

LEMMA SubStep ==
  ASSUME SubInv, Sub!Next
  PROVE  SubInv' /\ Sub!FoundAsOnPanel
BY SurroundingsKeep, FetchKeeps, BeginKeeps, ListKeeps, ReturnKeeps, HostsKeep, LinksKeep,
   LaterKeep, ReceivedKeeps, OnlyHostsFind DEF Sub!Next

\* A link's answer has 200, and the link, unless the panel renders something else.
LEMMA LinkAnswered ==
  ASSUME SubInv
  PROVE  Sub!FollowedAsShown
<1> SUFFICES ASSUME Sub!FollowedUnchanged
             PROVE  /\ request.code = 200
                    /\ \E i \in DOMAIN page.offers :
                         /\ page.offers[i].index = request.index
                         /\ page.offers[i].link = request.body
  BY DEF Sub!FollowedAsShown
<1>1. /\ request \in Requests /\ RouteInv(request) /\ LinkInv(request, page)
      /\ request.route \in Sub!LinkRoutes /\ request.at = "answered"
      /\ request.code \in {200, 404, 422} /\ request.links = page.links
  BY DEF Sub!FollowedUnchanged, SubInv, RequestInv, RouteInv, Requests, Sub!Codes
<1>2. page # None /\ page.links \in Rendered /\ page.offers = Sub!Offers(page.links)
  BY <1>1 DEF LinkInv, SubInv, PageInv
<1>3. request.code = 200
  BY <1>1 DEF LinkInv
<1>4. /\ request.index \in Nat /\ request.index < Len(page.links)
      /\ request.body = page.links[request.index + 1]
  BY <1>1, <1>3 DEF LinkInv, Requests
<1>5. PICK i \in 1..Len(page.links) : i = request.index + 1 /\ i - 1 = request.index
  BY <1>2, <1>4, SubConstants
<1>6. i \in DOMAIN page.links
  BY <1>2, <1>5, SubConstants
<1>7. /\ i \in DOMAIN page.offers
      /\ page.offers[i].index = i - 1 /\ page.offers[i].link = page.links[i]
  BY <1>2, <1>6 DEF Sub!Offers, Sub!Offer
<1> QED
  BY <1>3, <1>4, <1>5, <1>7

-----------------------------------------------------------------------------
(* The three together.                                                     *)

HttpInv ==
  /\ Inv
  /\ surface = "sessions" => SessionInv
  /\ surface = "requests" => SubInv

LEMMA HttpInvInit == HttpInit => HttpInv
<1> SUFFICES ASSUME HttpInit PROVE HttpInv
  OBVIOUS
<1>1. Inv
  BY InvInit DEF HttpInit
<1>2. CASE surface = "sessions"
  <2>1. Auth!Init
    BY <1>2 DEF HttpInit
  <2>2. Auth!Closed \in Auth!Tab /\ Sound(Auth!Closed)
    BY AuthConstants DEF Auth!Closed, Auth!Tab, Auth!At, Auth!Kind, Auth!Answer, Sound
  <2>3. Auth!TypeOK /\ \A t \in Tabs : tab[t] = Auth!Closed
    BY <2>1, <2>2, AuthConstants DEF Auth!Init, Auth!TypeOK
  <2> QED
    BY <1>1, <1>2, <2>1, <2>2, <2>3 DEF HttpInv, SessionInv, RowInv, Auth!Init
<1>3. CASE surface = "requests"
  <2>1. Sub!Init
    BY <1>3 DEF HttpInit
  <2> QED
    BY <1>1, <1>3, <2>1, SubConstants
    DEF HttpInv, SubInv, PageInv, FetchInv, CacheInv, RequestInv, ListedInv, Sub!Init
<1> QED
  BY <1>1, <1>2, <1>3 DEF HttpInit, HttpInv

LEMMA HttpInvNext ==
  ASSUME HttpInv, [HttpNext]_allvars
  PROVE  /\ HttpInv'
         /\ [surface = "sessions" => Auth!LetInWhileItLasts]_allvars
         /\ [surface = "requests" => Sub!FoundAsOnPanel]_allvars
<1>1. CASE UNCHANGED allvars
  <2>1. UNCHANGED vars /\ UNCHANGED <<surface, now, sessionVars, requestVars>>
    BY <1>1 DEF allvars
  <2>2. Inv'
    BY <2>1, InvNext DEF HttpInv
  <2>3. surface = "sessions" => SessionInv'
    BY <2>1 DEF HttpInv, SessionInv, RowInv, Sound, sessionVars, Auth!TypeOK, Auth!ExpiresAt
  <2>4. surface = "requests" => SubInv'
    BY <2>1 DEF HttpInv, SubInv, PageInv, FetchInv, CacheInv, RequestInv, ListedInv,
         Sub!Settled, requestVars
  <2> QED
    BY <1>1, <2>1, <2>2, <2>3, <2>4 DEF HttpInv
<1>2. CASE surface = "limiter" /\ Next /\ UNCHANGED <<surface, now, sessionVars, requestVars>>
  <2>1. Inv'
    BY <1>2, InvNext DEF HttpInv
  <2> QED
    BY <1>2, <2>1 DEF HttpInv
<1>3. CASE surface = "sessions" /\ Auth!Next /\ UNCHANGED <<surface, vars, requestVars>>
  <2>1. Inv' /\ SessionInv' /\ Auth!LetInWhileItLasts
    BY <1>3, InvNext, SessionStep DEF HttpInv
  <2> QED
    BY <1>3, <2>1 DEF HttpInv
<1>4. CASE surface = "requests" /\ Sub!Next /\ UNCHANGED <<surface, vars, sessionVars>>
  <2>1. Inv' /\ SubInv' /\ Sub!FoundAsOnPanel
    BY <1>4, InvNext, SubStep DEF HttpInv
  <2> QED
    BY <1>4, <2>1 DEF HttpInv
<1> QED
  BY <1>1, <1>2, <1>3, <1>4 DEF HttpNext

LEMMA HttpInvariant == HttpSpec => []HttpInv
<1>1. HttpInv /\ [HttpNext]_allvars => HttpInv'
  BY HttpInvNext
<1> QED
  BY <1>1, HttpInvInit, PTL DEF HttpSpec

\* The variables of the surface that runs keep their types.
THEOREM HttpTyped == HttpSpec => []HttpTypeOK
<1>1. HttpInv => HttpTypeOK
  BY SubTyped DEF HttpInv, HttpTypeOK, Inv, SessionInv
<1> QED
  BY <1>1, HttpInvariant, PTL

\* A request is let in if its session is no older than SessionTTL and was not
\* ended by its own logout, and but for the rounding only then, whatever the
\* other tabs and sessions do meanwhile (requireSession, GetSession).
THEOREM SessionsLast == HttpSpec => LetInWhileItLasts
<1>1. HttpInv /\ [HttpNext]_allvars =>
        [surface = "sessions" => Auth!LetInWhileItLasts]_allvars
  BY HttpInvNext
<1> QED
  BY <1>1, HttpInvariant, PTL DEF HttpSpec, LetInWhileItLasts

\* An id is found, or not, as it was on the panel no longer before the request
\* than CacheTTL and one fetch of the list (Resolve, ttlCache.get).
THEOREM FoundWithinTTL == HttpSpec => FoundAsOnPanel
<1>1. HttpInv /\ [HttpNext]_allvars =>
        [surface = "requests" => Sub!FoundAsOnPanel]_allvars
  BY HttpInvNext
<1> QED
  BY <1>1, HttpInvariant, PTL DEF HttpSpec, FoundAsOnPanel

\* What is followed from a page is the link it showed, as long as the panel
\* renders the same links (connlink.Build, findLink).
THEOREM LinksLeadWhereShown == HttpSpec => []FollowedAsShown
<1>1. HttpInv => FollowedAsShown
  BY LinkAnswered DEF HttpInv, FollowedAsShown
<1> QED
  BY <1>1, HttpInvariant, PTL
=============================================================================
