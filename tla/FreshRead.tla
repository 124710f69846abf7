----------------------------- MODULE FreshRead -----------------------------
(***************************************************************************)
(* What a cache that follows a database table promises its callers, with   *)
(* no word on how: every part of an answer is what the table held at some  *)
(* moment of the call.  The catalog of applications, the theme engine and  *)
(* the panel client's settings are each shown to implement it.             *)
(***************************************************************************)
CONSTANTS
  Readers,    \* calls
  Parts,      \* what an answer is made of
  Broken,     \* per part, the values no answer can be made from
  Absent,     \* the value of a part whose row is gone
  Lingering,  \* whether a part may outlive the deletion of its row
  None        \* no answer yet

VARIABLES
  truth,      \* what the table says of each part
  call,       \* each call: "idle", "waiting", "answered" or "failed"
  seen,       \* what each part has been since the call began, while it lasts
  answer      \* what each call returned

vars == <<truth, call, seen, answer>>

Init ==
  /\ call = [r \in Readers |-> "idle"]
  /\ seen = [r \in Readers |-> [p \in Parts |-> {}]]
  /\ answer = [r \in Readers |-> None]

Ask(r) ==
  /\ call[r] # "waiting"
  /\ call' = [call EXCEPT ![r] = "waiting"]
  /\ answer' = [answer EXCEPT ![r] = None]
  /\ seen' = [seen EXCEPT ![r] = [p \in Parts |-> {truth[p]}]]
  /\ UNCHANGED truth

Change ==
  /\ seen' = [r \in Readers |-> [p \in Parts |->
       IF call[r] = "waiting" THEN seen[r][p] \cup {truth'[p]} ELSE seen[r][p]]]
  /\ UNCHANGED <<call, answer>>

Forget(r) == seen' = [seen EXCEPT ![r] = [p \in Parts |-> {}]]

MayAnswer(r, p, v) == v \in seen[r][p] \/ (Lingering /\ Absent \in seen[r][p])

Answer(r) ==
  /\ call[r] = "waiting"
  /\ call' = [call EXCEPT ![r] = "answered"]
  /\ \A p \in Parts : MayAnswer(r, p, answer'[r][p])
  /\ answer' = [answer EXCEPT ![r] = answer'[r]]
  /\ Forget(r)
  /\ UNCHANGED truth

Fail(r) ==
  /\ call[r] = "waiting"
  /\ \E p \in Parts : seen[r][p] \cap Broken[p] # {}
  /\ call' = [call EXCEPT ![r] = "failed"]
  /\ Forget(r)
  /\ UNCHANGED <<truth, answer>>

Next ==
  \/ Change
  \/ \E r \in Readers : Ask(r) \/ Answer(r) \/ Fail(r)

Spec == Init /\ [][Next]_vars
=============================================================================
