------------------------------- MODULE LoadBalancer -------------------------------
(*****************************************************************************)
(* RemoveFromLoadBalancer (pkg/utils/azure/pubip.go): how the controller     *)
(* edits the load balancer it has read before it writes it back.  The three  *)
(* update functions run one after the other on the same value; each hands    *)
(* the ids of what it dropped to the next.  A nil list behaves as an empty   *)
(* one; a probe's list of rules keeps the difference.                        *)
(*****************************************************************************)
EXTENDS Integers, SequencesExt

CONSTANTS
    PubIDs,             \* ids of Azure public IP addresses
    FrontendIDs, RuleIDs, ProbeIDs,     \* in the order in which Azure lists them
    Nil                 \* a nil pointer

ASSUME LBConstants ==
    /\ \A ids \in {FrontendIDs, RuleIDs, ProbeIDs} : ids \in Seq(ToSet(ids)) /\ IsInjective(ids)
    /\ Nil \notin PubIDs \cup ToSet(FrontendIDs) \cup ToSet(RuleIDs) \cup ToSet(ProbeIDs)

VARIABLES
    pc,         \* the next function to run
    given,      \* the public IP address ids to remove
    lb,         \* the load balancer as read from Azure, being edited
    fcIDs,      \* ids of the dropped frontend configurations
    ruleIDs,    \* ids of the dropped rules
    original    \* the load balancer as read (history variable)

vars == <<pc, given, lb, fcIDs, ruleIDs, original>>

-----------------------------------------------------------------------------
(* The elements of a list that are not in D, in order: a loop over the list  *)
(* appends the ones that it keeps.                                           *)
Without(list, D) ==
    LET updated[i \in 0 .. Len(list)] ==
            IF i = 0 THEN <<>>
            ELSE IF list[i] \in D THEN updated[i - 1] ELSE Append(updated[i - 1], list[i])
    IN  updated[Len(list)]

(* Prefixes of a list of ids, each id with a value from S.                   *)
Listed(ids, S, Elem(_, _)) ==
    UNION {{[i \in 1 .. n |-> Elem(ids[i], f[i])] : f \in [1 .. n -> S]} : n \in 0 .. Len(ids)}

Frontend(id, ip) == [id |-> id, ip |-> ip]
Rule(id, fc)     == [id |-> id, fc |-> fc]
Probe(id, rules) == [id |-> id, rules |-> rules]

(* A probe's rules are listed in order, or there is no list.                 *)
RuleLists == {Nil} \cup {Without(RuleIDs, R) : R \in SUBSET ToSet(RuleIDs)}

RefersTo(probe, rule) == probe.rules # Nil /\ rule.id \in ToSet(probe.rules)

(* A load balancer that Azure can return: references resolve, and a rule has *)
(* at most one probe.                                                        *)
WellFormed(l) ==
    /\ \A r \in ToSet(l.rules) : r.fc = Nil \/ \E f \in ToSet(l.frontends) : f.id = r.fc
    /\ \A q \in ToSet(l.probes) : q.rules # Nil =>
          ToSet(q.rules) \subseteq {r.id : r \in ToSet(l.rules)}
    /\ \A r \in ToSet(l.rules) : \A p, q \in ToSet(l.probes) :
          RefersTo(p, r) /\ RefersTo(q, r) => p = q

LoadBalancers ==
    {l \in [frontends : Listed(FrontendIDs, PubIDs \cup {Nil}, Frontend),
            rules     : Listed(RuleIDs, ToSet(FrontendIDs) \cup {Nil}, Rule),
            probes    : Listed(ProbeIDs, RuleLists, Probe)] : WellFormed(l)}

-----------------------------------------------------------------------------
UsesIP(f, ids) == f.id # Nil /\ f.ip # Nil /\ f.ip \in ids

(* Mutant of updateFrontendIPConfigurations: forgets what it dropped.        *)
updateFrontendsSilently ==
    /\ pc = "frontends" /\ pc' = "rules"
    /\ lb' = [lb EXCEPT !.frontends = Without(@, {f \in ToSet(@) : UsesIP(f, given)})]
    /\ fcIDs' = {}
    /\ UNCHANGED <<given, ruleIDs, original>>

updateFrontendIPConfigurations ==
    LET dropped == {f \in ToSet(lb.frontends) : UsesIP(f, given)}
    IN  /\ pc = "frontends" /\ pc' = "rules"
        /\ lb' = [lb EXCEPT !.frontends = Without(@, dropped)]
        /\ fcIDs' = {f.id : f \in dropped}
        /\ UNCHANGED <<given, ruleIDs, original>>

UsesFrontend(r, ids) == r.id # Nil /\ r.fc # Nil /\ r.fc \in ids

updateLoadBalancingRules ==
    LET dropped == {r \in ToSet(lb.rules) : UsesFrontend(r, fcIDs)}
    IN  /\ pc = "rules" /\ pc' = "probes"
        /\ lb' = [lb EXCEPT !.rules = Without(@, dropped)]
        /\ ruleIDs' = {r.id : r \in dropped}
        /\ UNCHANGED <<given, fcIDs, original>>

(* One copy of the probe for every rule that stays.                          *)
Copies(probe, ids) ==
    IF probe.rules = Nil THEN <<>>
    ELSE [i \in 1 .. Len(Without(probe.rules, ids \ {Nil})) |-> probe]

(* Mutant of updateProbes: keeps only probes all of whose rules stay.        *)
updateProbesStrictly ==
    /\ pc = "probes" /\ pc' = "done"
    /\ lb' = [lb EXCEPT !.probes =
            SelectSeq(@, LAMBDA q : q.rules # Nil /\ ToSet(q.rules) \cap ruleIDs = {})]
    /\ UNCHANGED <<given, fcIDs, ruleIDs, original>>

updateProbes ==
    /\ pc = "probes" /\ pc' = "done"
    /\ lb' = [lb EXCEPT !.probes =
            FlattenSeq([i \in 1 .. Len(@) |-> Copies(lb.probes[i], ruleIDs)])]
    /\ UNCHANGED <<given, fcIDs, ruleIDs, original>>

(* The load balancer is written back; the worker goes on with the address.   *)
CreateOrUpdate ==
    /\ pc = "done" /\ pc' = "written"
    /\ UNCHANGED <<lb, given, fcIDs, ruleIDs, original>>

Init ==
    /\ pc = "frontends"
    /\ given \in (SUBSET PubIDs) \ {{}}
    /\ lb \in LoadBalancers
    /\ fcIDs = {} /\ ruleIDs = {}
    /\ original = lb

Next == updateFrontendIPConfigurations \/ updateLoadBalancingRules \/ updateProbes \/ CreateOrUpdate

Spec == Init /\ [][Next]_vars

-----------------------------------------------------------------------------
(* What is left does not refer to what was dropped: every rule still has the *)
(* frontend it had, and a probe that had rules still has one.                *)
ReferencesResolve ==
    pc = "written" =>
        /\ \A r \in ToSet(lb.rules) : r.fc = Nil \/ \E f \in ToSet(lb.frontends) : f.id = r.fc
        /\ \A q \in ToSet(lb.probes) : \E r \in ToSet(lb.rules) : RefersTo(q, r)

(* Nothing of the other addresses is lost: their frontends and rules stay,   *)
(* in order, and so does every probe that one of their rules uses.           *)
OthersStay ==
    pc = "written" =>
        LET others == Without(original.frontends,
                          {f \in ToSet(original.frontends) : f.ip \in given})
            served == Without(original.rules,
                          {r \in ToSet(original.rules) :
                              r.fc # Nil /\ r.fc \notin {f.id : f \in ToSet(others)}})
        IN  /\ lb.frontends = others
            /\ lb.rules = served
            /\ \A q \in ToSet(original.probes) :
                  (\E r \in ToSet(served) : RefersTo(q, r)) => q \in ToSet(lb.probes)
=================================================================================
