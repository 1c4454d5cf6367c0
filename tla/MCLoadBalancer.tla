------------------------------ MODULE MCLoadBalancer ------------------------------
(* Instances of LoadBalancer for TLC. *)
EXTENDS LoadBalancer

MCFrontendIDs == <<"f1", "f2">>
MCRuleIDs == <<"r1", "r2", "r3">>
MCProbeIDs == <<"q1", "q2">>
===================================================================================
