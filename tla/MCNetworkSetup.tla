--------------------------- MODULE MCNetworkSetup ---------------------------
(* NetworkSetup for TLC: a server, party 1, and three clients, two of them   *)
(* on one machine, so that some orders of ids give them the right hostnames  *)
(* and some do not; the third has the greatest id.                           *)
EXTENDS NetworkSetup, TLC

CONSTANTS c1, c2, c3

ThreeClients == {c1, c2, c3}
SomeHosts == (Server :> "north") @@ (c1 :> "east") @@ (c2 :> "west") @@ (c3 :> "east")
SomeIds == { ids \in [ThreeClients -> 0 .. 4] : ids[c1] <= ids[c3] /\ ids[c2] <= ids[c3] }
\* In the order of right ids, with a line moved or two exchanged; the last two are
\* on one machine, so that only ports change places.
SomeFiles == { << c1, Server, c2, c3 >>, << c2, Server, c1, c3 >>, << Server, c1, c2, c3 >>, << c3, Server, c2, c1 >> }
OwnPorts == (Server :> 9900) @@ (c1 :> 9901) @@ (c2 :> 9902) @@ (c3 :> 9903)
=============================================================================
