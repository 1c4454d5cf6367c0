-------------------------------- MODULE MCService --------------------------------
(* Instances of Service for TLC. *)
EXTENDS Service, TLC

CONSTANTS s1, s2, ip1, ip2, a

(* Two services of one name in two namespaces, or one service.               *)
MCNameOf == [s \in Services |-> a]
===================================================================================
