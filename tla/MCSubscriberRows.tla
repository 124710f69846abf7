-------------------------- MODULE MCSubscriberRows --------------------------
(* An instance of SubscriberRows for TLC.                                  *)
EXTENDS SubscriberRows, TLC

CONSTANTS default, other, code, edited

MCClientTypes == <<"xray", "happ">>

\* The old profile encodes to one string; the admin can save another.
MCEncode == [c \in Configs |-> code]

Form(xray, happ, string) ==
  [profile |-> [t \in Types |-> IF t = "xray" THEN xray ELSE happ], code |-> string]

\* Two forms that differ in every type and in the string, each with the default
\* profile for one of the types, and one without a string.
MCForms == {Form(default, other, Blank), Form(other, default, edited)}

\* Users, subscription ids and requests are interchangeable.
MCSymmetry == Permutations(Users) \cup Permutations(SubIds) \cup Permutations(Sessions)
=============================================================================
