------------------------------ MODULE PanelCall ------------------------------
(***************************************************************************)
(* What the other modules assume of one request to the panel, whatever     *)
(* happens on the way: it takes effect at most once and before the caller  *)
(* has its answer, success means that it did, and an error leaves open     *)
(* whether it did (the answers "ok", "err" and "lost" of PanelSync).       *)
(***************************************************************************)
VARIABLES
  effect,   \* the panel is as the request asks for
  answer    \* of Client's method

vars == <<effect, answer>>

Init == effect \in BOOLEAN /\ answer = "none"

TakeEffect == answer = "none" /\ ~effect /\ effect' = TRUE /\ UNCHANGED answer
Succeed == answer = "none" /\ effect /\ answer' = "ok" /\ UNCHANGED effect
Fail == answer = "none" /\ answer' = "err" /\ UNCHANGED effect

Next == TakeEffect \/ Succeed \/ Fail

Spec == Init /\ [][Next]_vars
=============================================================================
