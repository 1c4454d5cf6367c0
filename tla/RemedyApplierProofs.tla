---------------------------- MODULE RemedyApplierProofs ----------------------------
(*****************************************************************************)
(* Theorems about RemedyApplier, for any number of addresses and however     *)
(* many errors, retries and stops there are: addresses that services have    *)
(* are kept, and the applier waits the longer the more often it failed.      *)
(*****************************************************************************)
EXTENDS RemedyApplier, RecursiveFunctions

-----------------------------------------------------------------------------
(* The least of some numbers is one of them: what Delete deletes next is an  *)
(* orphan.                                                                   *)
LEMMA MinIsMember ==
    ASSUME NEW T \in SUBSET Nat, T # {}
    PROVE  Min(T) \in T
<1>1. PICK x \in T : \A y \in T : x <= y
  BY Least
<1> QED
  BY <1>1 DEF Min

-----------------------------------------------------------------------------
(* The inductive invariant.                                                  *)

(* An address that does not exist has no IP.                                 *)
Built(a) == a.ip # NoIP => a.exists

(* What is typed of the state, up to the delays between two passes.          *)
Typed ==
    /\ azure \in [Names -> Address] /\ \A n \in Names : Built(azure[n])
    /\ frontends \subseteq Names /\ lb \subseteq Names /\ claimed \subseteq IPs
    /\ pc \in {"sleep", "getAll", "getLB", "putLB", "delete"}
    /\ orphans \subseteq Ours
    /\ pc \in {"sleep", "getAll"} => orphans = {}
    /\ steady \subseteq Names

(* The IP of a steady address is the one that its service has, the pass      *)
(* knows it when it lists the addresses, and does not take it for an orphan. *)
Claimed(n) == azure[n].ip \in claimed

Known(n) == pc = "getAll" => azure[n].ip \in known

Spared(n) == n \notin orphans

IInv == Typed /\ \A n \in steady : Claimed(n) /\ Known(n) /\ Spared(n)

(* Every step of a pass keeps the invariant.                                 *)
LEMMA PassInductive == IInv /\ CleanPublicIps => IInv'
<1> SUFFICES ASSUME IInv, CleanPublicIps PROVE IInv'
  OBVIOUS
<1> USE ApplierConstants
<1>0. \A n \in Names : /\ azure[n] \in Address /\ Absent(azure[n].allocations) \in Address
                       /\ Absent(azure[n].allocations).ip = NoIP
                       /\ Built(azure[n]) /\ Built(Absent(azure[n].allocations))
  BY DEF IInv, Typed, Address, Absent, Built
(* A pass that ends forgets what it found.                                   *)
<1>a. ASSUME pc' = "sleep", orphans' = {}, lb' = {}, UNCHANGED <<claimed, steady>>,
             azure' \in [Names -> Address], \A n \in Names : Built(azure'[n]),
             frontends' \subseteq Names,
             \A n \in steady : azure'[n].ip = azure[n].ip
      PROVE  IInv'
  BY <1>a DEF IInv, Typed, Claimed, Known, Spared
<1>1. CASE getKnownK8sIps
  <2>1. CASE CallFails /\ UNCHANGED <<steady, azure, frontends, claimed>>
    BY <1>a, <2>1 DEF CallFails, Fail, IInv, Typed
  <2>2. CASE /\ pc = "sleep" /\ pc' = "getAll" /\ known' = claimed
             /\ steady' = {n \in Names : azure[n].ip \in claimed}
             /\ UNCHANGED <<orphans, lb, azure, frontends, claimed>>
    BY <2>2 DEF IInv, Typed, Claimed, Known, Spared
  <2> QED
    BY <1>1, <2>1, <2>2 DEF getKnownK8sIps
<1>2. CASE GetAll
  <2>1. CASE CallFails /\ UNCHANGED <<azure, frontends, claimed, steady>>
    BY <1>a, <2>1 DEF CallFails, Fail, IInv, Typed
  <2>2. CASE /\ pc = "getAll" /\ pc' = "getLB"
             /\ orphans' = separateOrphanAndKnownIps(known)
             /\ UNCHANGED <<known, lb, azure, frontends, claimed, steady>>
    BY <2>2 DEF IInv, Typed, Claimed, Known, Spared, separateOrphanAndKnownIps
  <2> QED
    BY <1>2, <2>1, <2>2 DEF GetAll
<1>3. CASE GetLoadBalancer
  <2>1. CASE CallFails /\ UNCHANGED <<azure, frontends, claimed, steady>>
    BY <1>a, <2>1 DEF CallFails, Fail, IInv, Typed
  <2>2. CASE /\ pc' = "putLB" /\ lb' = frontends
             /\ UNCHANGED <<known, orphans, azure, frontends, claimed, steady>>
    BY <2>2 DEF IInv, Typed, Claimed, Known, Spared
  <2> QED
    BY <1>3, <2>1, <2>2 DEF GetLoadBalancer
<1>4. CASE PutLoadBalancer
  <2>1. frontends' \subseteq Names
    BY <1>4 DEF PutLoadBalancer, WithoutOrphans, IInv, Typed
  <2>2. CASE Fail
    BY <1>4, <1>a, <2>1, <2>2 DEF PutLoadBalancer, Fail, IInv, Typed
  <2>3. CASE pc' = "delete" /\ UNCHANGED <<known, orphans, lb>>
    BY <1>4, <2>1, <2>3 DEF PutLoadBalancer, IInv, Typed, Claimed, Known, Spared
  <2> QED
    BY <1>4, <2>2, <2>3 DEF PutLoadBalancer, CallFails
<1>5. CASE Delete
  <2> DEFINE n    == Min(orphans)
             gone == [azure EXCEPT ![n] = Absent(@.allocations)]
  <2>1. n \in orphans /\ n \in Names /\ n \notin steady
    BY <1>5, MinIsMember DEF Delete, IInv, Typed, Spared
  <2>2. /\ gone \in [Names -> Address] /\ \A k \in Names : Built(gone[k])
        /\ \A k \in steady : gone[k] = azure[k]
    BY <1>0, <2>1 DEF IInv, Typed
  <2>3. (azure' = gone \/ azure' = azure) /\ UNCHANGED <<frontends, claimed, steady>>
    BY <1>5 DEF Delete
  <2>4. CASE Fail
    BY <1>a, <2>2, <2>3, <2>4 DEF Fail, IInv, Typed
  <2>5. CASE pc = "delete" /\ orphans' = orphans \ {n} /\ UNCHANGED <<pc, known, lb>>
    BY <2>2, <2>3, <2>5 DEF IInv, Typed, Claimed, Known, Spared
  <2> QED
    BY <1>5, <2>4, <2>5 DEF Delete, CallFails
<1>6. CASE Finish
  BY <1>a, <1>6 DEF Finish, Reset, IInv, Typed
<1> QED
  BY <1>1, <1>2, <1>3, <1>4, <1>5, <1>6 DEF CleanPublicIps

(* The steps of the stop signal and of the cloud provider keep it too: the   *)
(* provider takes down only what no service has, and an address that has an  *)
(* IP is not given another one.                                              *)
LEMMA OthersInductive == IInv /\ [Next]_vars => CleanPublicIps \/ IInv'
<1> SUFFICES ASSUME IInv, [Next]_vars PROVE CleanPublicIps \/ IInv'
  OBVIOUS
<1> USE ApplierConstants
<1>0. \A n \in Names : /\ azure[n] \in Address /\ Absent(azure[n].allocations) \in Address
                       /\ Absent(azure[n].allocations).ip = NoIP
                       /\ Built(azure[n]) /\ Built(Absent(azure[n].allocations))
  BY DEF IInv, Typed, Address, Absent, Built
(* A step that changes one address, of which no steady service knows.        *)
<1>a. ASSUME NEW n \in Names, n \notin steady, NEW a \in Address, Built(a),
             azure' = [azure EXCEPT ![n] = a], frontends' \subseteq Names,
             UNCHANGED <<claimed, steady, applier>>
      PROVE  IInv'
  BY <1>a DEF IInv, Typed, Claimed, Known, Spared, applier
<1>1. ASSUME NEW n \in Names, Allocate(n) PROVE IInv'
  <2> DEFINE a == [Absent(azure[n].allocations + 1) EXCEPT !.exists = TRUE]
  <2>1. /\ ~azure[n].exists /\ azure' = [azure EXCEPT ![n] = a]
        /\ UNCHANGED <<frontends, claimed, steady, applier>>
    BY <1>1 DEF Allocate
  <2>2. azure[n].allocations + 1 \in 0 .. MaxAllocations
    BY <1>0, <1>1 DEF Allocate, Address
  <2>3. a \in Address /\ Built(a)
    BY <2>2 DEF Address, Absent, Built
  <2>4. n \notin steady
    BY <1>0, <2>1 DEF IInv, Typed, Claimed, Built
  <2> QED
    BY <1>a, <2>1, <2>3, <2>4 DEF IInv, Typed
<1>2. ASSUME NEW n \in Names, Assign(n) PROVE IInv'
  <2>1. n \notin steady
    BY <1>2 DEF Assign, IInv, Typed, Claimed
  <2>2. PICK ip \in IPs : azure' = [azure EXCEPT ![n].ip = ip]
    BY <1>2 DEF Assign
  <2>3. [azure[n] EXCEPT !.ip = ip] \in Address /\ Built([azure[n] EXCEPT !.ip = ip])
    BY <1>0, <1>2 DEF Assign, Address, Built
  <2>4. azure' = [azure EXCEPT ![n] = [azure[n] EXCEPT !.ip = ip]]
    BY <2>2 DEF IInv, Typed
  <2> QED
    BY <1>2, <1>a, <2>1, <2>3, <2>4 DEF Assign, IInv, Typed
<1>3. ASSUME NEW n \in Names, Attach(n) PROVE IInv'
  <2>1. [azure[n] EXCEPT !.attached = TRUE] \in Address /\ Built([azure[n] EXCEPT !.attached = TRUE])
    BY <1>0 DEF Address, Built
  <2>2. /\ azure' \in [Names -> Address] /\ \A k \in Names : Built(azure'[k])
        /\ frontends' \subseteq Names
    BY <1>3, <2>1 DEF Attach, IInv, Typed
  <2>3. \A k \in Names : azure'[k].ip = azure[k].ip
    <3>1. [azure[n] EXCEPT !.attached = TRUE].ip = azure[n].ip
      BY <1>0 DEF Address
    <3>2. azure' = [azure EXCEPT ![n] = [azure[n] EXCEPT !.attached = TRUE]]
      BY <1>3 DEF Attach
    <3> QED
      BY <3>1, <3>2 DEF IInv, Typed
  <2> QED
    <3>1. UNCHANGED <<claimed, steady, pc, known, orphans, lb>>
      BY <1>3 DEF Attach, applier
    <3>2. Typed'
      BY <2>2, <3>1 DEF IInv, Typed
    <3>3. \A k \in steady : k \in Names /\ Claimed(k) /\ Known(k) /\ Spared(k)
      BY DEF IInv, Typed
    <3> QED
      BY <2>3, <3>1, <3>2, <3>3 DEF IInv, Claimed, Known, Spared
<1>4. ASSUME NEW n \in Names, Publish(n) PROVE IInv'
  <2>1. azure[n].ip \in IPs
    BY <1>0, <1>4 DEF Publish, Address
  <2> QED
    BY <1>4, <2>1 DEF Publish, IInv, Typed, Claimed, Known, Spared, applier
<1>5. ASSUME NEW ip \in IPs, Withdraw(ip) PROVE IInv'
  BY <1>5 DEF Withdraw, IInv, Typed, Claimed, Known, Spared, applier
<1>6. ASSUME NEW n \in Names, Release(n) PROVE IInv'
  <2>1. n \notin steady /\ frontends' \subseteq Names
    BY <1>6 DEF Release, IInv, Typed, Claimed
  <2> QED
    BY <1>0, <1>6, <1>a, <2>1 DEF Release
<1>7. CASE StopSignal
  BY <1>7 DEF StopSignal, IInv, Typed, Claimed, Known, Spared
<1>8. CASE Exit
  BY <1>8 DEF Exit, Reset, IInv, Typed
<1>9. CASE UNCHANGED vars
  BY <1>9 DEF vars, IInv, Typed, Claimed, Known, Spared
<1> QED
  BY <1>1, <1>2, <1>3, <1>4, <1>5, <1>6, <1>7, <1>8, <1>9 DEF Next

(* The initial states satisfy the invariant.                                 *)
LEMMA Initial == Init => IInv
<1>1. Absent(0) \in Address /\ Built(Absent(0))
  BY ApplierConstants DEF Absent, Address, Built
<1> QED
  BY <1>1 DEF Init, IInv, Typed

(* Only Delete and Release end an address, and Delete only an orphan.        *)
LEMMA DeletesOrphans ==
    ASSUME IInv, [Next]_vars, NEW n \in Names, Deleted(n)
    PROVE  n \in orphans
<1> USE ApplierConstants
<1>1. azure[n].exists /\ ~azure'[n].exists /\ ~UNCHANGED <<pc, orphans>>
  BY DEF Deleted
<1>2. CASE Delete
  BY <1>1, <1>2, MinIsMember DEF Delete, IInv, Typed
<1>3. CASE CleanPublicIps /\ ~Delete
  BY <1>1, <1>3
     DEF CleanPublicIps, getKnownK8sIps, GetAll, GetLoadBalancer, PutLoadBalancer, Finish
<1>4. ASSUME NEW m \in Names, Allocate(m) \/ Assign(m) \/ Attach(m) \/ Publish(m) \/ Release(m)
      PROVE  FALSE
  BY <1>1, <1>4 DEF Allocate, Assign, Attach, Publish, Release, applier
<1>5. ASSUME NEW ip \in IPs, Withdraw(ip) PROVE FALSE
  BY <1>1, <1>5 DEF Withdraw
<1>6. CASE StopSignal \/ Exit \/ UNCHANGED vars
  BY <1>1, <1>6 DEF StopSignal, Exit, vars
<1> QED
  BY <1>2, <1>3, <1>4, <1>5, <1>6 DEF Next

(* The applier never deletes an address that a service has had since before  *)
(* the pass began, although it deletes by names listed some calls earlier    *)
(* and looks neither at the services nor at the addresses again.             *)
THEOREM SteadyKept == Spec => KeepsSteadyAddresses
<1> DEFINE Keeps == \A n \in Names : Deleted(n) => n \notin steady
<1>1. IInv /\ [Next]_vars => IInv'
  BY PassInductive, OthersInductive
<1>2. IInv /\ [Next]_vars => [Keeps]_vars
  BY DeletesOrphans DEF IInv, Spared
<1> QED
  BY <1>1, <1>2, Initial, PTL DEF Spec, KeepsSteadyAddresses

-----------------------------------------------------------------------------
(* The delays.  After k failures in a row the applier waits as long as the   *)
(* k-th delay says, and that is what makes the delays comparable: a failure  *)
(* goes on to the next one.  A pass that succeeded waits for nothing.        *)

Paced == retry \in Nat /\ sleep = IF retry = 0 THEN Zero ELSE backoff(retry - 1)

(* The table of the delays, and beyond it, is backoff.                       *)
LEMMA DelayIsBackoff ==
    ASSUME NEW k \in Nat
    PROVE  delay(k) = backoff(k)
<1> DEFINE b == [j \in Nat |-> backoff(j)]  s == [j \in 1 .. MaxRetry |-> b[j - 1]]
<1> USE ApplierConstants
<1>1. Delays = Append(s, b[MaxRetry])
  <2>1. \A j \in 1 .. MaxRetry : j - 1 \in Nat
    OBVIOUS
  <2> QED
    BY <2>1 DEF Delays
<1> HIDE DEF b
<1>2. s \in Seq({s[j] : j \in 1 .. MaxRetry}) /\ Len(s) = MaxRetry
  OBVIOUS
<1>3. ASSUME k <= MaxRetry PROVE Delays[k + 1] = b[k]
  <2>1. CASE k = MaxRetry
    BY <1>1, <1>2, <2>1
  <2>2. CASE k < MaxRetry
    <3>1. k + 1 \in 1 .. MaxRetry /\ (k + 1) - 1 = k
      BY <2>2
    <3>2. Delays[k + 1] = s[k + 1]
      BY <1>1, <1>2, <3>1
    <3> QED
      BY <3>1, <3>2
  <2> QED
    BY <1>3, <2>1, <2>2
<1> QED
  BY <1>3 DEF delay, b

(* What is typed of the rest.                                                *)
Counted ==
    /\ pc = "sleep" => known = {} /\ lb = {}
    /\ known \subseteq IPs
    /\ program \in {"up", "stopping"} /\ stops \in 0 .. MaxStops

(* A failure takes the next delay ...                                        *)
LEMMA FailPaced ==
    ASSUME Paced, Fail
    PROVE  retry' = retry + 1 /\ sleep' = backoff(retry) /\ Paced'
<1>1. retry \in Nat /\ retry' = retry + 1 /\ sleep' = backoff(retry)
  BY DelayIsBackoff DEF Fail, Paced
<1>2. retry' \in Nat /\ retry' # 0 /\ retry' - 1 = retry
  BY <1>1
<1> QED
  BY <1>1, <1>2 DEF Paced

(* ... and a pass that succeeds, or a program that starts again, starts over. *)
LEMMA ResetPaced ==
    ASSUME Reset
    PROVE  Paced'
  BY DEF Paced, Reset

(* Whatever happens next, the delay is the one of the failures.              *)
LEMMA PacedInductive == Paced /\ [Next]_vars => Paced'
<1> SUFFICES ASSUME Paced, [Next]_vars PROVE Paced'
  OBVIOUS
<1>0. ASSUME UNCHANGED <<retry, sleep>> PROVE Paced'
  BY <1>0 DEF Paced
<1>1. CASE CleanPublicIps
  <2>1. Fail \/ Reset \/ UNCHANGED <<retry, sleep>>
    BY <1>1 DEF CleanPublicIps, getKnownK8sIps, GetAll, GetLoadBalancer, PutLoadBalancer, Delete,
                Finish, CallFails
  <2> QED
    BY <1>0, <2>1, FailPaced, ResetPaced
<1>2. CASE StopSignal \/ Exit \/ UNCHANGED vars
  BY <1>0, <1>2, ResetPaced DEF StopSignal, Exit, vars
<1>3. ASSUME NEW n \in Names, Allocate(n) \/ Assign(n) \/ Attach(n) \/ Publish(n) \/ Release(n)
      PROVE  Paced'
  BY <1>0, <1>3 DEF Allocate, Assign, Attach, Publish, Release, applier
<1>4. ASSUME NEW ip \in IPs, Withdraw(ip) PROVE Paced'
  BY <1>0, <1>4 DEF Withdraw, applier
<1> QED
  BY <1>1, <1>2, <1>3, <1>4 DEF Next

(* Only a failure counts up, and it sets the delay of the count so far.      *)
LEMMA FailsSlower ==
    ASSUME Paced, [Next]_vars, retry' > retry
    PROVE  retry' = retry + 1 /\ sleep' = backoff(retry)
<1>1. retry \in Nat
  BY DEF Paced
<1>2. ~(Reset \/ UNCHANGED retry)
  BY <1>1 DEF Reset
<1>3. CASE CleanPublicIps
  <2>1. Fail \/ Reset \/ UNCHANGED retry
    BY <1>3 DEF CleanPublicIps, getKnownK8sIps, GetAll, GetLoadBalancer, PutLoadBalancer, Delete,
                Finish, CallFails
  <2> QED
    BY <1>2, <2>1, FailPaced
<1>4. CASE StopSignal \/ Exit \/ UNCHANGED vars
  BY <1>2, <1>4 DEF StopSignal, Exit, vars
<1>5. ASSUME NEW n \in Names, Allocate(n) \/ Assign(n) \/ Attach(n) \/ Publish(n) \/ Release(n)
      PROVE  FALSE
  BY <1>2, <1>5 DEF Allocate, Assign, Attach, Publish, Release, applier
<1>6. ASSUME NEW ip \in IPs, Withdraw(ip) PROVE FALSE
  BY <1>2, <1>6 DEF Withdraw, applier
<1> QED
  BY <1>3, <1>4, <1>5, <1>6 DEF Next

(* The other variables keep their types.                                     *)
LEMMA CountedInductive == Counted /\ IInv /\ [Next]_vars => Counted'
<1> SUFFICES ASSUME Counted, IInv, [Next]_vars PROVE Counted'
  OBVIOUS
<1> USE ApplierConstants
<1>0. ASSUME UNCHANGED <<pc, known, lb, life>> PROVE Counted'
  BY <1>0 DEF Counted, life
<1>f. ASSUME Fail \/ Reset, UNCHANGED life PROVE Counted'
  BY <1>f DEF Counted, life, Fail, Reset
<1>1. CASE CleanPublicIps
  <2>1. CASE Fail \/ Reset
    BY <1>1, <1>f, <2>1 DEF CleanPublicIps
  <2>2. CASE getKnownK8sIps /\ ~Fail
    BY <1>1, <2>2 DEF CleanPublicIps, getKnownK8sIps, CallFails, Counted, IInv, Typed, life
  <2>3. CASE GetAll /\ ~Fail
    BY <1>1, <2>3 DEF CleanPublicIps, GetAll, CallFails, Counted, life
  <2>4. CASE GetLoadBalancer /\ ~Fail
    BY <1>1, <2>4 DEF CleanPublicIps, GetLoadBalancer, CallFails, Counted, life
  <2>5. CASE PutLoadBalancer /\ ~Fail
    BY <1>1, <2>5 DEF CleanPublicIps, PutLoadBalancer, CallFails, Counted, life
  <2>6. CASE Delete /\ ~Fail
    BY <1>1, <2>6 DEF CleanPublicIps, Delete, CallFails, Counted, life
  <2> QED
    BY <1>1, <2>1, <2>2, <2>3, <2>4, <2>5, <2>6 DEF CleanPublicIps, Finish
<1>2. CASE StopSignal
  BY <1>2 DEF StopSignal, Counted
<1>3. CASE Exit
  BY <1>3 DEF Exit, Reset, Counted
<1>4. ASSUME NEW n \in Names, Allocate(n) \/ Assign(n) \/ Attach(n) \/ Publish(n) \/ Release(n)
      PROVE  Counted'
  BY <1>0, <1>4 DEF Allocate, Assign, Attach, Publish, Release, applier
<1>5. ASSUME NEW ip \in IPs, Withdraw(ip) PROVE Counted'
  BY <1>0, <1>5 DEF Withdraw, applier
<1>6. CASE UNCHANGED vars
  BY <1>0, <1>6 DEF vars
<1> QED
  BY <1>1, <1>2, <1>3, <1>4, <1>5, <1>6 DEF Next

(* The state is well typed: the delays are durations, for whatever number of *)
(* failures in a row, in spite of the sums that wrap around; a pass leaves   *)
(* nothing behind, and only has addresses of its shoot in hand.              *)
THEOREM TypeCorrect == Spec => []TypeOK
<1> USE ApplierConstants
<1> DEFINE All == IInv /\ Counted /\ Paced
<1>1. Init => All
  <2>1. Init => Counted /\ Paced
    BY DEF Init, Counted, Paced
  <2> QED
    BY <2>1, Initial
<1>2. All /\ [Next]_vars => All'
  BY PassInductive, OthersInductive, CountedInductive, PacedInductive
<1>3. All => TypeOK
  <2> SUFFICES ASSUME All PROVE TypeOK
    OBVIOUS
  <2>1. sleep \in Duration
    <3>1. retry > 0 => retry - 1 \in Nat
      BY DEF Paced
    <3> QED
      BY <3>1, BackoffType, Durations DEF Paced
  <2> QED
    BY <2>1 DEF TypeOK, IInv, Typed, Counted, Paced
<1> QED
  BY <1>1, <1>2, <1>3, PTL DEF Spec

(* However many attempts fail in a row, the applier waits five minutes at    *)
(* most; and, for as many as are in range, no negative time, and the longer  *)
(* the more they are.                                                        *)
THEOREM BacksOff == Spec => RetriesSlowDown
<1> DEFINE Slow == /\ ~Less(FiveMinutes, sleep')
                   /\ retry' <= InRange => ~Negative(sleep')
                   /\ (retry' > retry /\ retry' <= InRange) => ~Less(sleep', sleep)
<1>1. Init => Paced
  BY DEF Init, Paced
<1>2. Paced /\ [Next]_vars => Paced'
  BY PacedInductive
<1>3. Paced /\ [Next]_vars => [Slow]_vars
  <2> SUFFICES ASSUME Paced, [Next]_vars PROVE Slow
    OBVIOUS
  <2>1. retry \in Nat /\ sleep = IF retry = 0 THEN Zero ELSE backoff(retry - 1)
    BY DEF Paced
  <2>2. sleep' = IF retry' = 0 THEN Zero ELSE backoff(retry' - 1)
    BY <1>2 DEF Paced
  <2>a. retry' \in Nat
    BY <1>2 DEF Paced
  <2>3. CASE retry' = 0
    <3>1. sleep' = backoff(0) /\ 0 \in 0 .. 49
      BY <2>2, <2>3, BackoffStarts
    <3> QED
      BY <2>1, <2>3, <3>1, BackoffLimited
  <2>4. CASE retry' > 0
    <3>0. retry' # 0 /\ retry' - 1 \in Nat
      <4>1. \A n \in Nat : n > 0 => n # 0 /\ n - 1 \in Nat
        OBVIOUS
      <4> QED
        BY <2>a, <2>4, <4>1
    <3>1. sleep' = backoff(retry' - 1)
      BY <2>2, <3>0
    <3>2. retry' <= InRange => retry' - 1 \in 0 .. 49
      BY <2>a, <2>4 DEF InRange
    <3>3. ~Less(FiveMinutes, sleep') /\ (retry' <= InRange => ~Negative(sleep'))
      BY <3>0, <3>1, <3>2, BackoffCapped, BackoffLimited
    <3>4. ASSUME retry' > retry, retry' <= InRange PROVE ~Less(sleep', sleep)
      <4>1. retry' = retry + 1 /\ sleep' = backoff(retry) /\ retry \in 0 .. 49
        BY <2>1, <3>4, FailsSlower DEF InRange
      <4>2. \E m \in 0 .. 49 : m <= retry /\ sleep = backoff(m)
        <5>1. CASE retry = 0
          BY <2>1, <5>1, BackoffStarts
        <5>2. CASE retry > 0
          <6>1. retry - 1 \in 0 .. 49 /\ retry - 1 <= retry /\ sleep = backoff(retry - 1)
            BY <2>1, <4>1, <5>2
          <6> QED
            BY <6>1
        <5> QED
          BY <2>1, <5>1, <5>2
      <4> QED
        BY <4>1, <4>2, BackoffGrows
    <3> QED
      BY <3>3, <3>4
  <2> QED
    BY <2>a, <2>3, <2>4
<1> QED
  BY <1>1, <1>2, <1>3, PTL DEF Spec, RetriesSlowDown

(* The range is as large as it can be: the delay after one failure more is   *)
(* negative, and the applier tries again at once.                            *)
THEOREM RangeIsExact == Negative(delay(InRange))
  BY DelayIsBackoff, BackoffOverflows DEF InRange
====================================================================================
