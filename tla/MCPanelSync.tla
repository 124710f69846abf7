---------------------------- MODULE MCPanelSync ----------------------------
(* Instances of PanelSync for TLC.                                         *)
EXTENDS PanelSync, TLC

MCOneUser == {"u1"}
MCTwoUsers == {"u1", "u2"}
MCOneName == {"a"}
MCTwoNames == {"a", "b"}
MCOneInbound == {1}
MCOneAdmin == {"s1"}
MCTwoAdmins == {"s1", "s2"}

\* Rows as PanelSyncAssumption has them.
MCRows == JobRows

\* Usernames and requests are interchangeable: no definition picks one of them.
MCSymmetry == Permutations(Emails) \cup Permutations(Sessions)
=============================================================================
