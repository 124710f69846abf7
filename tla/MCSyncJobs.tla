----------------------------- MODULE MCSyncJobs -----------------------------
(* Instances of SyncJobs for TLC: one user whose jobs go to one inbound or  *)
(* to two.                                                                 *)
EXTENDS SyncJobs

MCUsers == {"u1"}
MCOneInbound == [user : MCUsers, inbound : {1}]
MCTwoInbounds == [user : MCUsers, inbound : {1, 2}]
=============================================================================
