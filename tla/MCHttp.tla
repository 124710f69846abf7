------------------------------- MODULE MCHttp -------------------------------
(* Values for TLC of the constants of Http. *)
EXTENDS Http, TLC

CONSTANTS LinkA, LinkB, Unknown, Proxied, Proxy, Other

\* Clients behind the proxy share its address; another has one of its own.
Addresses == [n \in Clients |-> IF n \in Proxied THEN Proxy ELSE Other]

Limits(used, total, expiry) ==
  [mine |-> TRUE, served |-> TRUE, enable |-> TRUE,
   used |-> used, total |-> total, expiry |-> expiry]

Listing(clients) == [decodes |-> TRUE, clients |-> clients]

\* The id on no inbound that counts; used up on one of two; expiring; disabled;
\* a list that does not decode.
MCLists == {
  Listing(<<[Limits(0, 0, 0) EXCEPT !.mine = FALSE],
            [Limits(2, 2, 0) EXCEPT !.served = FALSE]>>),
  Listing(<<Limits(2, 2, 0), Limits(0, 2, 0)>>),
  Listing(<<Limits(0, 2, 1), Limits(1, 2, 1)>>),
  Listing(<<[Limits(0, 0, 0) EXCEPT !.enable = FALSE]>>),
  [Listing(<<>>) EXCEPT !.decodes = FALSE]}

MCLinks == {<<LinkA>>, <<Unknown, LinkB>>}
MCParsable == {LinkA, LinkB}
MCAgents == {{"mozilla"}, {"clash", "clash-meta"}}

\* Tabs are interchangeable.
MCSymmetry == Permutations(Tabs)
=============================================================================
