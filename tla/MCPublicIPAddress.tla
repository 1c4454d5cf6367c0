---------------------------- MODULE MCPublicIPAddress ----------------------------
(* Instances of PublicIPAddress for TLC. *)
EXTENDS PublicIPAddress, TLC

CONSTANTS p1, p2, n1, n2, ip1, ip2, s1, s2

(* One resource for service s1, or two for its two addresses.                  *)
OneSpecIP == p1 :> ip1
OneSpecService == p1 :> s1

TwoSpecIP == p1 :> ip1 @@ p2 :> ip2
TwoSpecService == p1 :> s1 @@ p2 :> s1
===================================================================================
