--------------------------------- MODULE Backoff ---------------------------------
(*****************************************************************************)
(* The delays between two attempts: of the remedy applier                    *)
(* (pkg/remedies/azure/pubip.go, backoff and fib) and of the publicipaddress *)
(* and virtualmachine controllers (their RequeueAfterErrors).  A             *)
(* time.Duration is an int64 number of nanoseconds whose additions wrap      *)
(* around: here four 16-bit digits, the least significant one first, in      *)
(* two's complement.                                                         *)
(*****************************************************************************)
EXTENDS Integers

Base == 65536

Duration == [1 .. 4 -> 0 .. Base - 1]

Zero == <<0, 0, 0, 0>>

Second == <<51712, 15258, 0, 0>>            \* 10^9 = 3B9ACA00 in base 16

Minute == <<22528, 63559, 13, 0>>           \* 6 * 10^10 = DF8475800 in base 16

FiveMinutes == <<47104, 55652, 69, 0>>      \* 3 * 10^11 = 45D964B800 in base 16

(* The sum of two int64, without its overflow.                               *)
Plus(a, b) ==
    LET s1 == a[1] + b[1]
        s2 == a[2] + b[2] + s1 \div Base
        s3 == a[3] + b[3] + s2 \div Base
        s4 == a[4] + b[4] + s3 \div Base
    IN  <<s1 % Base, s2 % Base, s3 % Base, s4 % Base>>

Negative(d) == d[4] >= Base \div 2

(* a < b as signed numbers: the sign decides, then the highest digit that    *)
(* differs.                                                                  *)
Less(a, b) ==
    \/ Negative(a) /\ ~Negative(b)
    \/ /\ Negative(a) = Negative(b)
       /\ \E i \in 1 .. 4 : a[i] < b[i] /\ \A j \in i + 1 .. 4 : a[j] = b[j]

(* The n-th element of the Fibonacci sequence and the next one.  The code's  *)
(* double recursion computes the same sums.                                  *)
Advance[p \in Duration \X Duration] == <<p[2], Plus(p[1], p[2])>>

FibPair[n \in Nat] == IF n = 0 THEN <<Zero, Second>> ELSE Advance[FibPair[n - 1]]

fib(n) == FibPair[n][1]

(* Mutant of backoff: without the limit.                                     *)
backoffUnlimited(n) == fib(n)

backoff(n) ==
    LET b == fib(n) IN IF Less(FiveMinutes, b) THEN FiveMinutes ELSE b

(* d, doubled k times.                                                       *)
Doubled[d \in Duration] == Plus(d, d)

ShiftLeft(d, k) ==
    LET shifted[i \in Nat] == IF i = 0 THEN d ELSE Doubled[shifted[i - 1]]
    IN  shifted[k]

(* Mutant of requeueDelay: shifted once too often.                           *)
requeueDelayDoubled(interval, attempts) == ShiftLeft(interval, attempts)

(* RequeueInterval * (1 << (attempts - 1)), before attempts + 1.             *)
requeueDelay(interval, attempts) == ShiftLeft(interval, attempts - 1)
==================================================================================
