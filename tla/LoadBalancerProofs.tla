---------------------------- MODULE LoadBalancerProofs ----------------------------
(*****************************************************************************)
(* Theorems about LoadBalancer, for lists of any length: what is left of a   *)
(* load balancer refers to nothing that was dropped, and nothing of the      *)
(* other addresses is dropped.                                               *)
(*****************************************************************************)
EXTENDS LoadBalancer, RecursiveFunctions

-----------------------------------------------------------------------------
(* The lists that the update functions build.                                *)

(* A list with one element more at its end.                                  *)
LEMMA ToSetAppend ==
    ASSUME NEW T, NEW u \in Seq(T), NEW e \in T
    PROVE  ToSet(Append(u, e)) = ToSet(u) \cup {e} /\ Append(u, e) \in Seq(T)
<1> DEFINE v == Append(u, e)  n == Len(u)
<1>1. v \in Seq(T) /\ DOMAIN v = 1 .. n + 1 /\ DOMAIN u = 1 .. n /\ n \in Nat
  OBVIOUS
<1>2. v[n + 1] = e /\ \A i \in 1 .. n : v[i] = u[i]
  OBVIOUS
<1>3. \A i : i \in 1 .. n + 1 <=> i \in 1 .. n \/ i = n + 1
  BY <1>1
<1> HIDE DEF v, n
<1>4. ToSet(v) = ToSet(u) \cup {e}
  BY <1>1, <1>2, <1>3 DEF ToSet
<1> QED
  BY <1>1, <1>4 DEF v

(* The lists that the loop of Without builds up.                             *)
LEMMA WithoutList ==
    ASSUME NEW T, NEW list \in Seq(T), NEW D
    PROVE  /\ Without(list, D) \in Seq(T)
           /\ ToSet(Without(list, D)) = ToSet(list) \ D
<1> DEFINE n == Len(list)
           more(i, u) == IF list[i] \in D THEN u ELSE Append(u, list[i])
           step == [p \in Nat \X Seq(T) |->
                        IF p[1] + 1 \in 1 .. n THEN more(p[1] + 1, p[2]) ELSE p[2]]
           built == CHOOSE f : f =
               [i \in 0 .. n |-> IF i = 0 THEN <<>>
                                 ELSE IF list[i] \in D THEN f[i - 1]
                                                       ELSE Append(f[i - 1], list[i])]
<1>1. n \in Nat /\ list \in [1 .. n -> T]
  OBVIOUS
<1>2. step \in [Nat \X Seq(T) -> Seq(T)]
  <2>1. ASSUME NEW i \in 1 .. n, NEW u \in Seq(T) PROVE more(i, u) \in Seq(T)
    BY <1>1
  <2> HIDE DEF more
  <2> QED
    BY <2>1
<1>3. PICK f : f \in Recursive(Seq(T), <<>>, step)
  <2>1. <<>> \in Seq(T)
    OBVIOUS
  <2> HIDE DEF step
  <2>2. Recursive(Seq(T), <<>>, step) # {}
    BY <1>2, <2>1, RecursiveFunction
  <2> QED
    BY <2>2
<1>4. f \in [Nat -> Seq(T)] /\ f[0] = <<>> /\ \A i \in Nat : f[i + 1] = step[<<i, f[i]>>]
  BY <1>3 DEF Recursive
<1>5. \A i \in 1 .. n : f[i] = more(i, f[i - 1])
  <2> TAKE i \in 1 .. n
  <2> DEFINE j == i - 1
  <2>1. j \in Nat /\ j + 1 = i
    BY <1>1
  <2> HIDE DEF j, step
  <2>2. f[i] = step[<<j, f[j]>>] /\ f[j] \in Seq(T)
    BY <1>4, <2>1
  <2> HIDE DEF more, n
  <2>3. step[<<j, f[j]>>] = more(i, f[j])
    BY <2>1, <2>2 DEF step
  <2> QED
    BY <2>2, <2>3 DEF j
<1> DEFINE g == [i \in 0 .. n |-> f[i]]
<1>6. g = [i \in 0 .. n |-> IF i = 0 THEN <<>>
                            ELSE IF list[i] \in D THEN g[i - 1] ELSE Append(g[i - 1], list[i])]
  <2>1. ASSUME NEW i \in 0 .. n, i # 0
        PROVE  g[i] = IF list[i] \in D THEN g[i - 1] ELSE Append(g[i - 1], list[i])
    <3>1. i \in 1 .. n /\ i - 1 \in 0 .. n
      BY <1>1, <2>1
    <3> QED
      BY <1>5, <3>1
  <2> QED
    BY <1>4, <2>1
<1>7. built = [i \in 0 .. n |-> IF i = 0 THEN <<>>
                                ELSE IF list[i] \in D THEN built[i - 1]
                                                      ELSE Append(built[i - 1], list[i])]
  BY <1>6
<1>8. Without(list, D) = built[n]
  BY DEF Without
<1> HIDE DEF built, step, n
<1>9. built[0] = <<>> /\ \A i \in 1 .. n : built[i] = more(i, built[i - 1])
  <2>1. 0 \in 0 .. n /\ \A i \in 1 .. n : i \in 0 .. n /\ i # 0
    BY <1>1
  <2> QED
    BY <1>7, <2>1
<1> DEFINE Good(i) == /\ built[i] \in Seq(T)
                      /\ ToSet(built[i]) = {list[k] : k \in 1 .. i} \ D
           G == {i \in Nat : i <= n => Good(i)}
<1>10. 0 \in G
  <2>1. ToSet(<<>>) = {}
    BY DEF ToSet
  <2>2. 1 .. 0 = {} /\ <<>> \in Seq(T)
    OBVIOUS
  <2> QED
    BY <1>9, <2>1, <2>2
<1>11. ASSUME NEW i \in Nat, i \in G PROVE i + 1 \in G
  <2> SUFFICES ASSUME i + 1 <= n PROVE Good(i + 1)
    OBVIOUS
  <2> DEFINE u == built[i]  e == list[i + 1]
  <2>1. u \in Seq(T) /\ ToSet(u) = {list[k] : k \in 1 .. i} \ D
    BY <1>1, <1>11
  <2>2. i + 1 \in 1 .. n /\ (i + 1) - 1 = i
    BY <1>1
  <2>3. built[i + 1] = more(i + 1, built[(i + 1) - 1])
    BY <1>9, <2>2
  <2>4. built[i + 1] = IF e \in D THEN u ELSE Append(u, e)
    BY <2>2, <2>3
  <2>5. {list[k] : k \in 1 .. i + 1} = {list[k] : k \in 1 .. i} \cup {e}
    <3>1. \A k : k \in 1 .. i + 1 <=> k \in 1 .. i \/ k = i + 1
      OBVIOUS
    <3> QED
      BY <3>1
  <2>6. e \in T
    BY <1>1, <2>2
  <2> HIDE DEF u, e
  <2>7. ToSet(Append(u, e)) = ToSet(u) \cup {e} /\ Append(u, e) \in Seq(T)
    BY <2>1, <2>6, ToSetAppend
  <2> QED
    BY <2>1, <2>4, <2>5, <2>7
<1>12. Nat \subseteq G
  <2> HIDE DEF G
  <2> QED
    BY <1>10, <1>11, Induction
<1>13. Good(n)
  BY <1>1, <1>12
<1>14. ToSet(list) = {list[k] : k \in 1 .. n}
  BY <1>1 DEF ToSet
<1> QED
  BY <1>8, <1>13, <1>14

(* A list after another.                                                     *)
LEMMA ToSetConcat ==
    ASSUME NEW T, NEW u \in Seq(T), NEW v \in Seq(T)
    PROVE  ToSet(u \o v) = ToSet(u) \cup ToSet(v) /\ u \o v \in Seq(T)
<1> DEFINE w == u \o v  m == Len(u)  n == Len(v)
<1>1. /\ m \in Nat /\ n \in Nat /\ w \in Seq(T)
      /\ DOMAIN u = 1 .. m /\ DOMAIN v = 1 .. n /\ DOMAIN w = 1 .. m + n
  OBVIOUS
<1>2. \A i \in 1 .. m + n : w[i] = IF i <= m THEN u[i] ELSE v[i - m]
  OBVIOUS
<1> HIDE DEF w, m, n
<1>3. ToSet(w) \subseteq ToSet(u) \cup ToSet(v)
  <2>1. \A i \in 1 .. m + n : i \in 1 .. m \/ (~(i <= m) /\ i - m \in 1 .. n)
    BY <1>1
  <2>2. \A i \in 1 .. m : i <= m
    BY <1>1
  <2> QED
    BY <1>1, <1>2, <2>1, <2>2 DEF ToSet
<1>4. ToSet(u) \subseteq ToSet(w)
  <2>1. \A i \in 1 .. m : i \in 1 .. m + n /\ i <= m
    BY <1>1
  <2> QED
    BY <1>1, <1>2, <2>1 DEF ToSet
<1>5. ToSet(v) \subseteq ToSet(w)
  <2>1. ASSUME NEW i \in 1 .. n PROVE i + m \in 1 .. m + n /\ w[i + m] = v[i]
    <3>1. i + m \in 1 .. m + n /\ ~(i + m <= m) /\ (i + m) - m = i
      BY <1>1
    <3> QED
      BY <1>2, <3>1
  <2> QED
    BY <1>1, <2>1 DEF ToSet
<1> QED
  BY <1>1, <1>3, <1>4, <1>5 DEF w

(* What a list of lists is flattened to.                                     *)
LEMMA FlattenedSet ==
    ASSUME NEW T, NEW lists \in Seq(Seq(T))
    PROVE  /\ FlattenSeq(lists) \in Seq(T)
           /\ ToSet(FlattenSeq(lists)) = UNION {ToSet(lists[k]) : k \in 1 .. Len(lists)}
<1> DEFINE n == Len(lists)
           step == [p \in Nat \X Seq(T) |->
                        IF p[1] + 1 \in 1 .. n THEN p[2] \o lists[p[1] + 1] ELSE p[2]]
           built == CHOOSE f : f =
               [i \in 1 .. n |-> IF i = 1 THEN lists[i] ELSE f[i - 1] \o lists[i]]
<1>1. n \in Nat /\ \A i \in 1 .. n : lists[i] \in Seq(T)
  OBVIOUS
<1>2. step \in [Nat \X Seq(T) -> Seq(T)]
  <2>1. ASSUME NEW i \in 1 .. n, NEW u \in Seq(T) PROVE u \o lists[i] \in Seq(T)
    BY <1>1
  <2> QED
    BY <2>1
<1>3. PICK f : f \in Recursive(Seq(T), <<>>, step)
  <2>1. <<>> \in Seq(T)
    OBVIOUS
  <2> HIDE DEF step
  <2>2. Recursive(Seq(T), <<>>, step) # {}
    BY <1>2, <2>1, RecursiveFunction
  <2> QED
    BY <2>2
<1>4. f \in [Nat -> Seq(T)] /\ f[0] = <<>> /\ \A i \in Nat : f[i + 1] = step[<<i, f[i]>>]
  BY <1>3 DEF Recursive
<1>5. \A i \in 1 .. n : f[i] = f[i - 1] \o lists[i]
  <2> TAKE i \in 1 .. n
  <2> DEFINE j == i - 1
  <2>1. j \in Nat /\ j + 1 = i
    BY <1>1
  <2> HIDE DEF j, step
  <2>2. f[i] = step[<<j, f[j]>>] /\ f[j] \in Seq(T)
    BY <1>4, <2>1
  <2> HIDE DEF n
  <2>3. step[<<j, f[j]>>] = f[j] \o lists[i]
    BY <2>1, <2>2 DEF step
  <2> QED
    BY <2>2, <2>3 DEF j
<1> DEFINE g == [i \in 1 .. n |-> f[i]]
<1>6. g = [i \in 1 .. n |-> IF i = 1 THEN lists[i] ELSE g[i - 1] \o lists[i]]
  <2>1. ASSUME NEW i \in 1 .. n, i # 1 PROVE g[i] = g[i - 1] \o lists[i]
    <3>1. i \in 1 .. n /\ i - 1 \in 1 .. n
      BY <1>1, <2>1
    <3> QED
      BY <1>5, <3>1
  <2>2. ASSUME 1 \in 1 .. n PROVE g[1] = lists[1]
    <3>1. f[1] = f[1 - 1] \o lists[1]
      BY <1>5, <2>2
    <3>2. 1 - 1 = 0 /\ lists[1] \in Seq(T)
      BY <1>1, <2>2
    <3>3. f[1] = <<>> \o lists[1]
      BY <1>4, <3>1, <3>2
    <3>4. <<>> \o lists[1] = lists[1]
      BY <3>2
    <3> QED
      BY <2>2, <3>3, <3>4
  <2> QED
    BY <2>1, <2>2
<1>7. built = [i \in 1 .. n |-> IF i = 1 THEN lists[i] ELSE built[i - 1] \o lists[i]]
  BY <1>6
<1>8. FlattenSeq(lists) = IF n = 0 THEN lists ELSE built[n]
  BY DEF FlattenSeq
<1> HIDE DEF built, step
<1> DEFINE Union(i) == UNION {ToSet(lists[k]) : k \in 1 .. i}
<1>9. CASE n = 0
  <2>1. lists = <<>> /\ 1 .. n = {}
    BY <1>9
  <2>2. ToSet(<<>>) = {} /\ <<>> \in Seq(T)
    BY DEF ToSet
  <2> QED
    BY <1>8, <1>9, <2>1, <2>2
<1>10. CASE n # 0
  <2> HIDE DEF n
  <2> DEFINE Good(i) == built[i] \in Seq(T) /\ ToSet(built[i]) = Union(i)
             G == {j \in Nat : j + 1 <= n => Good(j + 1)}
  <2>1. 0 \in G
    <3>1. 1 \in 1 .. n /\ 0 + 1 = 1 /\ 1 .. 1 = {1}
      BY <1>1, <1>10
    <3>2. built[1] = lists[1] /\ lists[1] \in Seq(T)
      BY <1>1, <1>7, <3>1
    <3>3. Union(1) = ToSet(lists[1])
      BY <3>1
    <3> QED
      BY <3>1, <3>2, <3>3
  <2>2. ASSUME NEW j \in Nat, j \in G PROVE j + 1 \in G
    <3> SUFFICES ASSUME (j + 1) + 1 <= n PROVE Good((j + 1) + 1)
      OBVIOUS
    <3> DEFINE h == j + 1  i == h + 1
    <3>1. h \in Nat /\ i \in 1 .. n /\ i # 1 /\ i - 1 = h /\ h + 1 = i /\ j + 1 <= n
      BY <1>1
    <3>2. Good(h)
      BY <2>2, <3>1
    <3>3. \A k : k \in 1 .. i <=> k \in 1 .. h \/ k = i
      BY <3>1
    <3> HIDE DEF h, i
    <3>4. built[i] = built[h] \o lists[i]
      BY <1>7, <3>1
    <3>5. Union(i) = Union(h) \cup ToSet(lists[i])
      BY <3>3
    <3>6. lists[i] \in Seq(T)
      BY <1>1, <3>1
    <3>7. Good(i)
      <4> HIDE DEF Union
      <4>1. built[h] \in Seq(T) /\ ToSet(built[h]) = Union(h)
        BY <3>2
      <4>2. ToSet(built[h] \o lists[i]) = ToSet(built[h]) \cup ToSet(lists[i])
            /\ built[h] \o lists[i] \in Seq(T)
        BY <3>6, <4>1, ToSetConcat
      <4> QED
        BY <3>4, <3>5, <4>1, <4>2
    <3> QED
      BY <3>7 DEF h, i
  <2>3. Nat \subseteq G
    <3> HIDE DEF G
    <3> QED
      BY <2>1, <2>2, Induction
  <2> DEFINE m == n - 1
  <2>4. m \in Nat /\ m + 1 = n /\ n <= n
    BY <1>1, <1>10
  <2> HIDE DEF m
  <2>5. Good(n)
    <3>1. Good(m + 1)
      BY <2>3, <2>4
    <3> HIDE DEF Good
    <3> QED
      BY <2>4, <3>1
  <2> QED
    BY <1>8, <1>10, <2>5 DEF n
<1> QED
  BY <1>9, <1>10

-----------------------------------------------------------------------------
(* The load balancers that Azure can return.                                 *)

(* A list of elements with distinct ids.                                     *)
Distinct(list) ==
    /\ list \in Seq(ToSet(list))
    /\ \A e \in ToSet(list) : e.id # Nil
    /\ \A d, e \in ToSet(list) : d.id = e.id => d = e

(* The elements of a list whose ids are a prefix of distinct ids.            *)
LEMMA PrefixDistinct ==
    ASSUME NEW ids, ids \in Seq(ToSet(ids)), IsInjective(ids), Nil \notin ToSet(ids),
           NEW n \in 0 .. Len(ids), NEW list, DOMAIN list = 1 .. n,
           list = [i \in 1 .. n |-> list[i]],
           \A i \in 1 .. n : list[i].id = ids[i]
    PROVE  Distinct(list)
<1>1. list \in Seq(ToSet(list))
  BY DEF ToSet
<1>2. \A i \in 1 .. n : i \in DOMAIN ids
  OBVIOUS
<1>3. \A e \in ToSet(list) : e.id # Nil
  BY <1>2 DEF ToSet
<1>4. \A d, e \in ToSet(list) : d.id = e.id => d = e
  BY <1>2 DEF ToSet, IsInjective
<1> QED
  BY <1>1, <1>3, <1>4 DEF Distinct

(* A load balancer consists of three such lists; a rule that a probe lists   *)
(* is one of the rules' ids.                                                 *)
LEMMA WellFormedLists ==
    ASSUME NEW l \in LoadBalancers
    PROVE  /\ l = [frontends |-> l.frontends, rules |-> l.rules, probes |-> l.probes]
           /\ Distinct(l.frontends) /\ Distinct(l.rules)
           /\ l.probes \in Seq(ToSet(l.probes))
           /\ \A q \in ToSet(l.probes) : q.rules # Nil => q.rules \in Seq(ToSet(RuleIDs))
           /\ WellFormed(l)
<1>0. /\ l = [frontends |-> l.frontends, rules |-> l.rules, probes |-> l.probes]
      /\ l.frontends \in Listed(FrontendIDs, PubIDs \cup {Nil}, Frontend)
      /\ l.rules \in Listed(RuleIDs, ToSet(FrontendIDs) \cup {Nil}, Rule)
      /\ l.probes \in Listed(ProbeIDs, RuleLists, Probe)
      /\ WellFormed(l)
  BY DEF LoadBalancers
<1>1. /\ FrontendIDs \in Seq(ToSet(FrontendIDs)) /\ IsInjective(FrontendIDs)
      /\ RuleIDs \in Seq(ToSet(RuleIDs)) /\ IsInjective(RuleIDs)
      /\ ProbeIDs \in Seq(ToSet(ProbeIDs)) /\ IsInjective(ProbeIDs)
      /\ Nil \notin ToSet(FrontendIDs) /\ Nil \notin ToSet(RuleIDs)
  BY LBConstants
<1>2. Distinct(l.frontends)
  <2>1. PICK n \in 0 .. Len(FrontendIDs) : \E ip \in [1 .. n -> PubIDs \cup {Nil}] :
            l.frontends = [i \in 1 .. n |-> Frontend(FrontendIDs[i], ip[i])]
    BY <1>0 DEF Listed
  <2>2. /\ DOMAIN l.frontends = 1 .. n /\ l.frontends = [i \in 1 .. n |-> l.frontends[i]]
        /\ \A i \in 1 .. n : l.frontends[i].id = FrontendIDs[i]
    BY <2>1 DEF Frontend
  <2> QED
    BY <1>1, <2>2, PrefixDistinct
<1>3. Distinct(l.rules)
  <2>1. PICK n \in 0 .. Len(RuleIDs) : \E fc \in [1 .. n -> ToSet(FrontendIDs) \cup {Nil}] :
            l.rules = [i \in 1 .. n |-> Rule(RuleIDs[i], fc[i])]
    BY <1>0 DEF Listed
  <2>2. /\ DOMAIN l.rules = 1 .. n /\ l.rules = [i \in 1 .. n |-> l.rules[i]]
        /\ \A i \in 1 .. n : l.rules[i].id = RuleIDs[i]
    BY <2>1 DEF Rule
  <2> QED
    BY <1>1, <2>2, PrefixDistinct
<1>4. /\ l.probes \in Seq(ToSet(l.probes))
      /\ \A q \in ToSet(l.probes) : q.rules # Nil => q.rules \in Seq(ToSet(RuleIDs))
  <2>1. PICK n \in 0 .. Len(ProbeIDs) : \E rules \in [1 .. n -> RuleLists] :
            l.probes = [i \in 1 .. n |-> Probe(ProbeIDs[i], rules[i])]
    BY <1>0 DEF Listed
  <2>2. /\ n \in Nat /\ DOMAIN l.probes = 1 .. n /\ l.probes = [i \in 1 .. n |-> l.probes[i]]
        /\ \A i \in 1 .. n : l.probes[i].rules \in RuleLists
    <3>1. Len(ProbeIDs) \in Nat
      BY <1>1
    <3> QED
      BY <2>1, <3>1 DEF Probe
  <2>3. l.probes \in Seq(ToSet(l.probes))
    BY <2>2 DEF ToSet
  <2>4. \A rules \in RuleLists : rules # Nil => rules \in Seq(ToSet(RuleIDs))
    BY <1>1, WithoutList DEF RuleLists
  <2> QED
    BY <2>2, <2>3, <2>4 DEF ToSet
<1> QED
  BY <1>0, <1>2, <1>3, <1>4

-----------------------------------------------------------------------------
(* The inductive invariant: what the functions that have run made of the     *)
(* load balancer as it was read.                                             *)

Frontends == ToSet(original.frontends)
Rules     == ToSet(original.rules)
Probes    == ToSet(original.probes)

DroppedFrontends == {f \in Frontends : UsesIP(f, given)}
DroppedFcIDs     == {f.id : f \in DroppedFrontends}
DroppedRules     == {r \in Rules : UsesFrontend(r, DroppedFcIDs)}
DroppedRuleIDs   == {r.id : r \in DroppedRules}

Copied == [i \in 1 .. Len(original.probes) |-> Copies(original.probes[i], DroppedRuleIDs)]

Given == original \in LoadBalancers /\ Nil \notin given

Edited ==
    /\ pc \in {"frontends", "rules", "probes", "done", "written"}
    /\ lb = [frontends |-> lb.frontends, rules |-> lb.rules, probes |-> lb.probes]
    /\ lb.frontends = IF pc = "frontends" THEN original.frontends
                      ELSE Without(original.frontends, DroppedFrontends)
    /\ pc # "frontends" => fcIDs = DroppedFcIDs
    /\ lb.rules = IF pc \in {"frontends", "rules"} THEN original.rules
                  ELSE Without(original.rules, DroppedRules)
    /\ pc \notin {"frontends", "rules"} => ruleIDs = DroppedRuleIDs
    /\ lb.probes = IF pc \in {"done", "written"} THEN FlattenSeq(Copied) ELSE original.probes

EInv == Given /\ Edited

(* The invariant holds of the load balancer as it was read.                  *)
LEMMA Initially == Init => EInv
<1> SUFFICES ASSUME Init PROVE EInv
  OBVIOUS
<1>1. original \in LoadBalancers /\ lb = original /\ pc = "frontends"
  BY DEF Init
<1>2. Nil \notin given
  BY LBConstants DEF Init
<1>3. lb = [frontends |-> lb.frontends, rules |-> lb.rules, probes |-> lb.probes]
  BY <1>1, WellFormedLists
<1> QED
  BY <1>1, <1>2, <1>3 DEF EInv, Given, Edited

(* Each function makes of its list what the invariant says.                  *)
LEMMA Stepwise == EInv /\ [Next]_vars => EInv'
<1> SUFFICES ASSUME EInv, [Next]_vars PROVE EInv'
  OBVIOUS
<1>0. /\ UNCHANGED <<given, original>> /\ Given' /\ DroppedFrontends' = DroppedFrontends
      /\ DroppedFcIDs' = DroppedFcIDs /\ DroppedRules' = DroppedRules
      /\ DroppedRuleIDs' = DroppedRuleIDs /\ Copied' = Copied
  <2>1. UNCHANGED <<given, original>>
    BY DEF Next, vars, updateFrontendIPConfigurations, updateLoadBalancingRules, updateProbes,
           CreateOrUpdate
  <2> QED
    BY <2>1 DEF EInv, Given, DroppedFrontends, DroppedFcIDs, DroppedRules, DroppedRuleIDs, Copied,
                Frontends, Rules, Probes
<1>1. CASE updateFrontendIPConfigurations
  <2>1. /\ pc = "frontends" /\ pc' = "rules"
        /\ lb' = [lb EXCEPT !.frontends = Without(lb.frontends, DroppedFrontends)]
        /\ fcIDs' = DroppedFcIDs
    BY <1>1 DEF updateFrontendIPConfigurations, EInv, Edited, DroppedFrontends, DroppedFcIDs,
                Frontends
  <2> QED
    BY <1>0, <2>1 DEF EInv, Edited
<1>2. CASE updateLoadBalancingRules
  <2>1. /\ pc = "rules" /\ pc' = "probes" /\ fcIDs' = fcIDs
        /\ lb' = [lb EXCEPT !.rules = Without(lb.rules, DroppedRules)]
        /\ ruleIDs' = DroppedRuleIDs
    BY <1>2 DEF updateLoadBalancingRules, EInv, Edited, DroppedRules, DroppedRuleIDs, Rules
  <2> QED
    BY <1>0, <2>1 DEF EInv, Edited
<1>3. CASE updateProbes
  <2>1. /\ pc = "probes" /\ pc' = "done" /\ fcIDs' = fcIDs /\ ruleIDs' = ruleIDs
        /\ lb' = [lb EXCEPT !.probes = FlattenSeq(Copied)]
    BY <1>3 DEF updateProbes, EInv, Edited, Copied
  <2> QED
    BY <1>0, <2>1 DEF EInv, Edited
<1>4. CASE CreateOrUpdate \/ UNCHANGED vars
  BY <1>0, <1>4 DEF CreateOrUpdate, vars, EInv, Edited
<1> QED
  BY <1>1, <1>2, <1>3, <1>4 DEF Next

-----------------------------------------------------------------------------
(* What is left at the end.                                                  *)

(* The frontends and rules that were not dropped are left.                   *)
LEMMA Left ==
    ASSUME EInv, pc = "written"
    PROVE  /\ ToSet(lb.frontends) = Frontends \ DroppedFrontends
           /\ ToSet(lb.rules) = Rules \ DroppedRules
<1>1. original.frontends \in Seq(Frontends) /\ original.rules \in Seq(Rules)
  BY WellFormedLists DEF EInv, Given, Distinct, Frontends, Rules
<1> QED
  BY <1>1, WithoutList DEF EInv, Edited, Frontends, Rules

(* A probe stays as long as one of its rules does.                           *)
LEMMA ProbesLeft ==
    ASSUME EInv, pc = "written"
    PROVE  ToSet(lb.probes) =
           {q \in Probes : q.rules # Nil /\ \E r \in ToSet(q.rules) : r \notin DroppedRuleIDs}
<1> DEFINE n == Len(original.probes)
           Stays(q) == q.rules # Nil /\ \E r \in ToSet(q.rules) : r \notin DroppedRuleIDs
<1>1. /\ original.probes \in Seq(Probes) /\ n \in Nat
      /\ \A q \in Probes : q.rules # Nil => q.rules \in Seq(ToSet(RuleIDs))
  BY WellFormedLists DEF EInv, Given, Probes
<1>2. \A i \in 1 .. n : original.probes[i] \in Probes
  BY <1>1
<1>3. Probes = {original.probes[i] : i \in 1 .. n}
  BY <1>1 DEF Probes, ToSet
<1>4. ASSUME NEW q \in Probes
      PROVE  /\ Copies(q, DroppedRuleIDs) \in Seq(Probes)
             /\ ToSet(Copies(q, DroppedRuleIDs)) = {p \in {q} : Stays(p)}
  <2> DEFINE stay == Without(q.rules, DroppedRuleIDs \ {Nil})
             m == Len(stay)
  <2>1. CASE q.rules = Nil
    BY <2>1 DEF Copies, ToSet
  <2>2. CASE q.rules # Nil
    <3>1. q.rules \in Seq(ToSet(RuleIDs)) /\ Nil \notin ToSet(q.rules)
      <4>1. q.rules \in Seq(ToSet(RuleIDs))
        BY <1>1, <2>2
      <4>2. \A e \in ToSet(q.rules) : e \in ToSet(RuleIDs)
        BY <4>1 DEF ToSet
      <4> QED
        BY <4>1, <4>2, LBConstants
    <3>2. stay \in Seq(ToSet(RuleIDs)) /\ ToSet(stay) = ToSet(q.rules) \ (DroppedRuleIDs \ {Nil})
      BY <3>1, WithoutList
    <3>3. Copies(q, DroppedRuleIDs) = [i \in 1 .. m |-> q]
      BY <2>2 DEF Copies
    <3> HIDE DEF stay
    <3>4. m \in Nat /\ (m = 0 <=> ToSet(stay) = {})
      <4>1. m \in Nat /\ DOMAIN stay = 1 .. m
        BY <3>2
      <4>2. m = 0 => 1 .. m = {}
        OBVIOUS
      <4>3. m # 0 => 1 \in 1 .. m
        BY <4>1
      <4> QED
        BY <4>1, <4>2, <4>3 DEF ToSet
    <3> HIDE DEF m
    <3>5. ToSet([i \in 1 .. m |-> q]) = {p \in {q} : m # 0}
      <4>1. m = 0 => 1 .. m = {}
        OBVIOUS
      <4>2. m # 0 => 1 \in 1 .. m
        BY <3>4
      <4> QED
        BY <4>1, <4>2 DEF ToSet
    <3>6. [i \in 1 .. m |-> q] \in Seq(Probes)
      BY <3>4
    <3>7. m # 0 <=> Stays(q)
      BY <2>2, <3>1, <3>2, <3>4
    <3> QED
      BY <3>3, <3>5, <3>6, <3>7
  <2> QED
    BY <2>1, <2>2
<1>5. Copied \in Seq(Seq(Probes)) /\ Len(Copied) = n
      /\ \A i \in 1 .. n : Copied[i] = Copies(original.probes[i], DroppedRuleIDs)
  BY <1>1, <1>2, <1>4 DEF Copied
<1>6. ToSet(FlattenSeq(Copied)) = UNION {ToSet(Copied[i]) : i \in 1 .. n}
  BY <1>5, FlattenedSet
<1>7. \A i \in 1 .. n : ToSet(Copied[i]) = {p \in {original.probes[i]} : Stays(p)}
  BY <1>2, <1>4, <1>5
<1> HIDE DEF Stays
<1>8. ToSet(FlattenSeq(Copied)) = {q \in Probes : Stays(q)}
  BY <1>3, <1>6, <1>7
<1> QED
  BY <1>8 DEF EInv, Edited, Stays

(* After RemoveFromLoadBalancer every rule that is left still has the        *)
(* frontend it had, and every probe that is left has a rule: each function   *)
(* drops what uses an id that the one before has dropped.                    *)
THEOREM ReferencesKept == Spec => []ReferencesResolve
<1>1. EInv => ReferencesResolve
  <2> SUFFICES ASSUME EInv, pc = "written"
               PROVE  /\ \A r \in ToSet(lb.rules) :
                            r.fc = Nil \/ \E f \in ToSet(lb.frontends) : f.id = r.fc
                      /\ \A q \in ToSet(lb.probes) : \E r \in ToSet(lb.rules) : RefersTo(q, r)
    BY DEF ReferencesResolve
  <2>1. /\ Distinct(original.frontends) /\ Distinct(original.rules) /\ WellFormed(original)
    BY WellFormedLists DEF EInv, Given
  <2>2. ASSUME NEW r \in ToSet(lb.rules), r.fc # Nil
        PROVE  \E f \in ToSet(lb.frontends) : f.id = r.fc
    <3>1. r \in Rules /\ r \notin DroppedRules /\ r.id # Nil
      BY <2>1, <2>2, Left DEF Distinct, Rules
    <3>2. PICK f \in Frontends : f.id = r.fc
      BY <2>1, <2>2, <3>1 DEF WellFormed, Frontends, Rules
    <3>3. r.fc \notin DroppedFcIDs
      BY <2>2, <3>1 DEF DroppedRules, UsesFrontend
    <3>4. f \notin DroppedFrontends
      BY <3>2, <3>3 DEF DroppedFcIDs
    <3> QED
      BY <3>2, <3>4, Left
  <2>3. ASSUME NEW q \in ToSet(lb.probes) PROVE \E r \in ToSet(lb.rules) : RefersTo(q, r)
    <3>1. PICK id \in ToSet(q.rules) : q \in Probes /\ q.rules # Nil /\ id \notin DroppedRuleIDs
      BY <2>3, ProbesLeft
    <3>2. PICK r \in Rules : r.id = id
      BY <2>1, <3>1 DEF WellFormed, Probes, Rules
    <3>3. r \notin DroppedRules
      BY <3>1, <3>2 DEF DroppedRuleIDs
    <3> QED
      BY <3>1, <3>2, <3>3, Left DEF RefersTo
  <2> QED
    BY <2>2, <2>3
<1> QED
  BY <1>1, Initially, Stepwise, PTL DEF Spec

(* The frontends and rules of the addresses that were not given are written  *)
(* back as they were read and in their order, together with every probe that *)
(* one of these rules uses, also where a probe is shared with a rule that    *)
(* goes.                                                                     *)
THEOREM OthersKept == Spec => []OthersStay
<1>1. EInv => OthersStay
  <2> SUFFICES ASSUME EInv, pc = "written" PROVE OthersStay
    BY DEF OthersStay
  <2> DEFINE others == Without(original.frontends, {f \in Frontends : f.ip \in given})
             lost   == {r \in Rules : r.fc # Nil /\ r.fc \notin {f.id : f \in ToSet(others)}}
             served == Without(original.rules, lost)
  <2>1. /\ Distinct(original.frontends) /\ Distinct(original.rules) /\ WellFormed(original)
    BY WellFormedLists DEF EInv, Given
  <2>2. {f \in Frontends : f.ip \in given} = DroppedFrontends
    BY <2>1 DEF DroppedFrontends, UsesIP, Distinct, Frontends, EInv, Given
  <2>3. lb.frontends = others /\ ToSet(others) = Frontends \ DroppedFrontends
    BY <2>2, Left DEF EInv, Edited
  <2> HIDE DEF others
  <2>4. lost = DroppedRules
    <3>1. ASSUME NEW r \in Rules, r.fc # Nil
          PROVE  r.fc \notin {f.id : f \in ToSet(others)} <=> r.fc \in DroppedFcIDs
      <4>1. PICK f \in Frontends : f.id = r.fc
        BY <2>1, <3>1 DEF WellFormed, Frontends, Rules
      <4>2. \A g \in Frontends : g.id = r.fc => g = f
        BY <2>1, <4>1 DEF Distinct, Frontends
      <4> QED
        BY <2>3, <4>1, <4>2 DEF DroppedFcIDs, DroppedFrontends
    <3>2. \A r \in Rules : r.id # Nil
      BY <2>1 DEF Distinct, Rules
    <3> QED
      BY <3>1, <3>2 DEF DroppedRules, UsesFrontend
  <2>5. lb.rules = served /\ ToSet(served) = Rules \ DroppedRules
    BY <2>4, Left DEF EInv, Edited
  <2>6. ASSUME NEW q \in Probes, NEW r \in ToSet(served), RefersTo(q, r)
        PROVE  q \in ToSet(lb.probes)
    <3>1. r \in Rules /\ r \notin DroppedRules
      BY <2>5
    <3>2. r.id \notin DroppedRuleIDs
      BY <2>1, <3>1 DEF DroppedRuleIDs, DroppedRules, Distinct, Rules
    <3> QED
      BY <2>6, <3>2, ProbesLeft DEF RefersTo
  <2> HIDE DEF served
  <2>7. \A q \in Probes : (\E r \in ToSet(served) : RefersTo(q, r)) => q \in ToSet(lb.probes)
    BY <2>6
  <2> QED
    BY <2>3, <2>5, <2>7 DEF OthersStay, others, served, Frontends, Rules, Probes
<1> QED
  BY <1>1, Initially, Stepwise, PTL DEF Spec
==================================================================================
