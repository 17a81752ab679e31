----------------------------- MODULE MCDirectory -----------------------------
(***************************************************************************)
(* The LANs of the checked instances of Directory.                         *)
(***************************************************************************)
EXTENDS Directory, TLC

CONSTANTS self, a, b, ip0, ip1, ip2

\* One other node; two, each on a host of its own; one on Self's own host.
OnePeer == self :> ip0 @@ a :> ip1
TwoPeers == self :> ip0 @@ a :> ip1 @@ b :> ip2
SameHost == self :> ip0 @@ a :> ip0
===============================================================================
