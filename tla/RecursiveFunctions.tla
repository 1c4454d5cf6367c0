---------------------------- MODULE RecursiveFunctions ----------------------------
(*****************************************************************************)
(* Induction and recursion on the natural numbers, stated for sets and       *)
(* functions, and what the recursive functions of Backoff compute.  (The     *)
(* theorems of the library on recursion take operators as parameters.)       *)
(*                                                                           *)
(* The limit of an int64 and the products near it are never written out:     *)
(* this version of tlapm multiplies constants with 63 bits.  The proofs      *)
(* compare factors below 2^62 instead (FitsLimit) and hide the rest.         *)
(*****************************************************************************)
EXTENDS Backoff, WellFoundedInduction, TLAPS

(* Some numbers have a least one.                                            *)
LEMMA Least ==
    ASSUME NEW T \in SUBSET Nat, T # {}
    PROVE  \E x \in T : \A y \in T : x <= y
<1> DEFINE less == {p \in Nat \X Nat : p[1] < p[2]}
<1>1. IsWellFoundedOn(less, Nat)
  BY NatLessThanWellFounded DEF OpToRel
<1>2. PICK x \in T : \A y \in T : <<y, x>> \notin less
  <2> HIDE DEF less
  <2> QED
    BY <1>1, WFMin
<1>3. ASSUME NEW y \in T PROVE x <= y
  <2>1. x \in Nat /\ y \in Nat /\ <<y, x>> \in Nat \X Nat
    OBVIOUS
  <2>2. ~(<<y, x>>[1] < <<y, x>>[2])
    BY <1>2, <2>1
  <2> QED
    BY <2>1, <2>2
<1> QED
  BY <1>3

(* Induction: a set that contains 0 and, with each number, the next one.     *)
LEMMA Induction ==
    ASSUME NEW S, 0 \in S, \A n \in Nat : n \in S => n + 1 \in S
    PROVE  Nat \subseteq S
<1> DEFINE T == Nat \ S
<1> SUFFICES ASSUME T # {} PROVE FALSE
  OBVIOUS
<1>1. PICK n \in T : \A m \in T : n <= m
  BY Least
<1>2. n # 0
  OBVIOUS
<1>3. n - 1 \in Nat /\ ~(n <= n - 1) /\ (n - 1) + 1 = n
  BY <1>2
<1>4. n - 1 \in S
  BY <1>1, <1>3
<1> QED
  BY <1>3, <1>4

-----------------------------------------------------------------------------
(* Recursion: there is a function that starts with c and takes its next      *)
(* value by a step.                                                          *)

(* The first n + 1 values of it.  Any two such lists agree where both have   *)
(* values, and there is one of every length.                                 *)
Begins(S, c, step, n) ==
    {g \in [0 .. n -> S] :
        /\ g[0] = c
        /\ \A i \in 0 .. n : i + 1 \in 0 .. n => g[i + 1] = step[<<i, g[i]>>]}

(* Two of them are equal as far as both reach.                               *)
LEMMA BeginsUnique ==
    ASSUME NEW S, NEW c, NEW step, NEW n \in Nat, NEW m \in Nat,
           NEW g \in Begins(S, c, step, n), NEW h \in Begins(S, c, step, m)
    PROVE  \A i \in Nat : i <= n /\ i <= m => g[i] = h[i]
<1> DEFINE Same == {j \in Nat : j <= n /\ j <= m => g[j] = h[j]}
<1>1. 0 \in Same
  BY DEF Begins
<1>2. ASSUME NEW j \in Nat, j \in Same PROVE j + 1 \in Same
  <2> SUFFICES ASSUME j + 1 <= n, j + 1 <= m PROVE g[j + 1] = h[j + 1]
    OBVIOUS
  <2>1. /\ j \in 0 .. n /\ j + 1 \in 0 .. n /\ j \in 0 .. m /\ j + 1 \in 0 .. m
    OBVIOUS
  <2>2. g[j] = h[j]
    BY <1>2, <2>1
  <2> QED
    BY <2>1, <2>2 DEF Begins
<1> HIDE DEF Same
<1>3. Nat \subseteq Same
  BY <1>1, <1>2, Induction
<1> QED
  BY <1>3 DEF Same

(* There is one for every n: the last value of a shorter one has a next.     *)
LEMMA BeginsExist ==
    ASSUME NEW S, NEW c \in S, NEW step \in [Nat \X S -> S], NEW n \in Nat
    PROVE  Begins(S, c, step, n) # {}
<1> DEFINE Some == {k \in Nat : Begins(S, c, step, k) # {}}
<1>1. 0 \in Some
  <2>1. [i \in 0 .. 0 |-> c] \in Begins(S, c, step, 0)
    BY DEF Begins
  <2> QED
    BY <2>1
<1>2. ASSUME NEW k \in Nat, k \in Some PROVE k + 1 \in Some
  <2>1. PICK g : g \in Begins(S, c, step, k)
    BY <1>2
  <2>2. g \in [0 .. k -> S] /\ g[0] = c
    BY <2>1 DEF Begins
  <2>3. \A i \in 0 .. k : i + 1 \in 0 .. k => g[i + 1] = step[<<i, g[i]>>]
    BY <2>1 DEF Begins
  <2>4. g[k] \in S /\ step[<<k, g[k]>>] \in S
    <3>1. g[k] \in S
      BY <2>2
    <3>2. <<k, g[k]>> \in Nat \X S
      BY <3>1
    <3> QED
      BY <3>1, <3>2
  <2> DEFINE next == step[<<k, g[k]>>]
             h == [i \in 0 .. k + 1 |-> IF i <= k THEN g[i] ELSE next]
  <2> HIDE DEF next
  <2>5. /\ h \in [0 .. k + 1 -> S] /\ h[k + 1] = next
        /\ \A i \in 0 .. k : h[i] = g[i]
    BY <2>2, <2>4 DEF next
  <2> HIDE DEF h
  <2>6. ASSUME NEW i \in 0 .. k + 1, i + 1 \in 0 .. k + 1 PROVE h[i + 1] = step[<<i, h[i]>>]
    <3>1. CASE i + 1 <= k
      <4>1. i \in 0 .. k /\ i + 1 \in 0 .. k
        BY <3>1
      <4>2. h[i + 1] = g[i + 1] /\ h[i] = g[i]
        BY <2>5, <4>1
      <4> QED
        BY <2>3, <4>1, <4>2
    <3>2. CASE i = k
      <4>1. h[i + 1] = next /\ h[i] = g[k]
        BY <2>5, <3>2
      <4> QED
        BY <3>2, <4>1 DEF next
    <3> QED
      BY <2>6, <3>1, <3>2
  <2>7. h[0] = c
    BY <2>2, <2>5
  <2>8. h \in Begins(S, c, step, k + 1)
    BY <2>5, <2>6, <2>7 DEF Begins
  <2> QED
    BY <2>8
<1> HIDE DEF Some
<1>3. Nat \subseteq Some
  BY <1>1, <1>2, Induction
<1> QED
  BY <1>3 DEF Some

Recursive(S, c, step) ==
    {f \in [Nat -> S] : f[0] = c /\ \A n \in Nat : f[n + 1] = step[<<n, f[n]>>]}

(* The lists agree, so that their last values make up the whole function.    *)
LEMMA RecursiveFunction ==
    ASSUME NEW S, NEW c \in S, NEW step \in [Nat \X S -> S]
    PROVE  Recursive(S, c, step) # {}
<1> DEFINE b == [n \in Nat |-> CHOOSE g : g \in Begins(S, c, step, n)]
           f == [n \in Nat |-> b[n][n]]
<1>1. \A n \in Nat : b[n] \in Begins(S, c, step, n)
  BY BeginsExist
<1>2. ASSUME NEW n \in Nat
      PROVE  /\ b[n] \in [0 .. n -> S] /\ b[n][0] = c
             /\ \A i \in 0 .. n : i + 1 \in 0 .. n => b[n][i + 1] = step[<<i, b[n][i]>>]
  BY <1>1 DEF Begins
<1> HIDE DEF b
<1>3. f \in [Nat -> S]
  BY <1>2
<1>4. f[0] = c
  BY <1>2
<1>5. ASSUME NEW n \in Nat PROVE f[n + 1] = step[<<n, f[n]>>]
  <2>1. n + 1 \in Nat /\ n <= n + 1 /\ n <= n
    OBVIOUS
  <2>2. b[n + 1][n] = b[n][n]
    <3>1. b[n] \in Begins(S, c, step, n) /\ b[n + 1] \in Begins(S, c, step, n + 1)
      BY <1>1, <2>1
    <3>2. \A i \in Nat : i <= n /\ i <= n + 1 => b[n][i] = b[n + 1][i]
      BY <2>1, <3>1, BeginsUnique
    <3> QED
      BY <2>1, <3>2
  <2>3. b[n + 1][n + 1] = step[<<n, b[n + 1][n]>>]
    <3>1. n \in 0 .. n + 1 /\ n + 1 \in 0 .. n + 1
      OBVIOUS
    <3> QED
      BY <1>2, <2>1, <3>1
  <2> QED
    BY <2>2, <2>3
<1> QED
  BY <1>3, <1>4, <1>5 DEF Recursive

(* What a definition f[n \in Nat] == IF n = 0 THEN c ELSE step[f[n - 1]]     *)
(* stands for.                                                               *)
Iterated(c, step) ==
    CHOOSE f : f = [n \in Nat |-> IF n = 0 THEN c ELSE step[f[n - 1]]]

(* A function satisfies that definition, so CHOOSE takes one.                *)
LEMMA IteratedFunction ==
    ASSUME NEW S, NEW c \in S, NEW step \in [S -> S]
    PROVE  /\ Iterated(c, step) \in [Nat -> S]
           /\ Iterated(c, step)[0] = c
           /\ \A n \in Nat : Iterated(c, step)[n + 1] = step[Iterated(c, step)[n]]
<1> DEFINE numbered == [q \in Nat \X S |-> step[q[2]]]
<1>1. PICK f : f \in Recursive(S, c, numbered)
  <2>1. numbered \in [Nat \X S -> S]
    OBVIOUS
  <2> HIDE DEF numbered
  <2>2. Recursive(S, c, numbered) # {}
    BY <2>1, RecursiveFunction
  <2> QED
    BY <2>2
<1>2. /\ f \in [Nat -> S] /\ f[0] = c
      /\ \A n \in Nat : f[n + 1] = step[f[n]]
  BY <1>1 DEF Recursive
<1>3. f = [n \in Nat |-> IF n = 0 THEN c ELSE step[f[n - 1]]]
  <2>1. ASSUME NEW n \in Nat, n # 0 PROVE f[n] = step[f[n - 1]]
    <3>1. n - 1 \in Nat /\ (n - 1) + 1 = n
      BY <2>1
    <3> QED
      BY <1>2, <3>1
  <2> QED
    BY <1>2, <2>1
<1> DEFINE g == Iterated(c, step)
<1>4. g = [n \in Nat |-> IF n = 0 THEN c ELSE step[g[n - 1]]]
  BY <1>3 DEF Iterated
<1> HIDE DEF g
<1>5. \A n \in Nat : g[n + 1] = step[g[n]]
  BY <1>4
<1>6. g[0] = c
  BY <1>4
<1> DEFINE G == {n \in Nat : g[n] \in S}
<1>7. Nat \subseteq G
  <2>1. 0 \in G
    BY <1>6
  <2>2. ASSUME NEW n \in Nat, n \in G PROVE n + 1 \in G
    BY <1>5, <2>2
  <2> HIDE DEF G
  <2> QED
    BY <2>1, <2>2, Induction
<1>8. g \in [Nat -> S]
  BY <1>4, <1>7
<1> QED
  BY <1>5, <1>6, <1>8 DEF g

-----------------------------------------------------------------------------
(* The numbers that durations stand for.                                     *)

Digit(n) == n \in Int /\ 0 <= n /\ n < Base

Million == 1000 * 1000

(* The value of a duration, if it is not negative, and their limit, 2^63.    *)
Val(d) == d[1] + Base * (d[2] + Base * (d[3] + Base * d[4]))

Limit == Base * (Base * (Base * (Base \div 2)))

(* Four digits, each of S.                                                   *)
LEMMA Tuple ==
    ASSUME NEW S, NEW d \in [1 .. 4 -> S]
    PROVE  d[1] \in S /\ d[2] \in S /\ d[3] \in S /\ d[4] \in S
OBVIOUS

(* The elements of a duration are digits.                                    *)
LEMMA Digits ==
    ASSUME NEW d \in Duration
    PROVE  Digit(d[1]) /\ Digit(d[2]) /\ Digit(d[3]) /\ Digit(d[4])
<1> DEFINE S == 0 .. Base - 1
<1>1. Duration = [1 .. 4 -> S]
  BY DEF Duration
<1> HIDE DEF S
<1>2. d[1] \in S /\ d[2] \in S /\ d[3] \in S /\ d[4] \in S
  BY <1>1, Tuple
<1>3. \A n \in S : Digit(n)
  BY SMT DEF S, Base, Digit
<1> QED
  BY <1>2, <1>3

(* The higher digits decide which of two numbers is less.                    *)
LEMMA HigherFirst ==
    ASSUME NEW x, NEW y, Digit(x), Digit(y), NEW p \in Int, NEW q \in Int,
           NEW X, NEW Y, X = x + Base * p, Y = y + Base * q
    PROVE  /\ X < Y <=> p < q \/ (p = q /\ x < y)
           /\ X = Y <=> p = q /\ x = y
           /\ X \in Int /\ Y \in Int
BY SMT DEF Digit, Base

(* The limit is a number.                                                    *)
LEMMA LimitType == Limit \in Int
<1>1. Base \in Int /\ Base \div 2 \in Int
  BY SMT DEF Base
<1> QED
  BY <1>1 DEF Limit

(* One more digit below the others changes neither the sign of a number nor  *)
(* whether it reaches a limit.                                               *)
LEMMA OneDigitMore ==
    ASSUME NEW x, Digit(x), NEW p \in Int, p >= 0, NEW q \in Int,
           NEW X, NEW Y, X = x + Base * p, Y = Base * q
    PROVE  X \in Int /\ X >= 0 /\ Y \in Int /\ (X >= Y <=> p >= q)
BY SMT DEF Digit, Base

(* A duration is negative when the number its digits stand for has reached   *)
(* the limit.                                                                *)
LEMMA ValType ==
    ASSUME NEW d \in Duration
    PROVE  Val(d) \in Int /\ Val(d) >= 0 /\ (Negative(d) <=> Val(d) >= Limit)
<1>1. Digit(d[1]) /\ Digit(d[2]) /\ Digit(d[3]) /\ Digit(d[4])
  BY Digits
<1> DEFINE h1 == Base \div 2  h2 == Base * h1  h3 == Base * h2
           v2 == d[3] + Base * d[4]  v3 == d[2] + Base * v2
<1>2. h1 \in Int
  BY SMT DEF Base
<1>3. v2 \in Int /\ v2 >= 0 /\ h2 \in Int /\ (v2 >= h2 <=> d[4] >= h1)
  <2> DEFINE v1 == d[4]
  <2>1. v1 \in Int /\ v1 >= 0 /\ v2 = d[3] + Base * v1 /\ h2 = Base * h1
    BY <1>1 DEF Digit
  <2> HIDE DEF h1, h2, v1, v2
  <2>2. v2 \in Int /\ v2 >= 0 /\ h2 \in Int /\ (v2 >= h2 <=> v1 >= h1)
    BY <1>1, <1>2, <2>1, OneDigitMore
  <2> QED
    BY <2>2 DEF v1
<1>4. v3 \in Int /\ v3 >= 0 /\ h3 \in Int /\ (v3 >= h3 <=> v2 >= h2)
  <2> HIDE DEF h2, v2
  <2> QED
    BY <1>1, <1>3, OneDigitMore
<1>5. Val(d) \in Int /\ Val(d) >= 0 /\ (Val(d) >= Limit <=> v3 >= h3)
  <2>1. Val(d) = d[1] + Base * v3 /\ Limit = Base * h3
    BY DEF Val, Limit
  <2> HIDE DEF h3, v3
  <2> QED
    BY <1>1, <1>4, <2>1, OneDigitMore
<1> QED
  BY <1>3, <1>4, <1>5 DEF Negative

(* A sum of digits: r is written, c carried.                                 *)
Division(s, r, c) == s \in Int /\ Digit(r) /\ c \in Int /\ c >= 0 /\ r = s - 65536 * c

(* What Plus writes and carries for a digit.                                 *)
LEMMA DigitSum ==
    ASSUME NEW s \in Int, s >= 0
    PROVE  Division(s, s % Base, s \div Base)
BY SMT DEF Base, Digit, Division

(* Plus adds what is not negative, up to twice the limit: nothing is carried *)
(* out of the highest digit.                                                 *)
LEMMA PlusVal ==
    ASSUME NEW a \in Duration, NEW b \in Duration, ~Negative(a), ~Negative(b)
    PROVE  Val(Plus(a, b)) = Val(a) + Val(b)
<1> DEFINE s1 == a[1] + b[1]
           s2 == a[2] + b[2] + s1 \div Base
           s3 == a[3] + b[3] + s2 \div Base
           s4 == a[4] + b[4] + s3 \div Base
<1>1. Digit(a[1]) /\ Digit(a[2]) /\ Digit(a[3]) /\ Digit(a[4])
  BY Digits
<1>2. Digit(b[1]) /\ Digit(b[2]) /\ Digit(b[3]) /\ Digit(b[4])
  BY Digits
<1>a. \A x, y, c : Digit(x) /\ Digit(y) /\ c \in Int /\ c >= 0
                      => Division(x + y + c, (x + y + c) % Base, (x + y + c) \div Base)
  BY DigitSum DEF Digit
<1>3. Division(s1, s1 % Base, s1 \div Base)
  <2>1. s1 \in Int /\ s1 >= 0
    BY <1>1, <1>2 DEF Digit
  <2> HIDE DEF s1
  <2> QED
    BY <2>1, DigitSum
<1>4. Division(s2, s2 % Base, s2 \div Base)
  BY <1>1, <1>2, <1>a, <1>3 DEF Division
<1>5. Division(s3, s3 % Base, s3 \div Base)
  BY <1>1, <1>2, <1>a, <1>4 DEF Division
<1>6. Division(s4, s4 % Base, s4 \div Base)
  BY <1>1, <1>2, <1>a, <1>5 DEF Division
<1>7. Plus(a, b) = <<s1 % Base, s2 % Base, s3 % Base, s4 % Base>>
  BY DEF Plus
<1>9. Val(Plus(a, b)) = (s1 % Base) + Base * ((s2 % Base) + Base * ((s3 % Base) + Base * (s4 % Base)))
  BY <1>7 DEF Val
<1> DEFINE c1 == s1 \div Base  c2 == s2 \div Base  c3 == s3 \div Base  c4 == s4 \div Base
           r1 == s1 % Base  r2 == s2 % Base  r3 == s3 % Base  r4 == s4 % Base
<1>b. /\ Division(a[1] + b[1], r1, c1) /\ Division(a[2] + b[2] + c1, r2, c2)
      /\ Division(a[3] + b[3] + c2, r3, c3) /\ Division(a[4] + b[4] + c3, r4, c4)
  BY <1>3, <1>4, <1>5, <1>6
<1>c. Val(Plus(a, b)) = r1 + Base * (r2 + Base * (r3 + Base * r4))
  BY <1>9
<1> HIDE DEF r1, r2, r3, r4, c1, c2, c3, c4
<1>8. c4 = 0
  <2>4. Base \div 2 = 32768
    BY SMT DEF Base
  <2>5. a[4] <= 32767 /\ b[4] <= 32767
    BY <1>1, <1>2, <2>4 DEF Negative, Digit
  <2>6. c1 <= 1
    BY <1>1, <1>2, <1>b, SMT DEF Division, Digit, Base
  <2>7. c2 <= 1
    BY <1>1, <1>2, <1>b, <2>6, SMT DEF Division, Digit, Base
  <2>8. c3 <= 1
    BY <1>1, <1>2, <1>b, <2>7, SMT DEF Division, Digit, Base
  <2> QED
    BY <1>1, <1>2, <1>b, <2>5, <2>8, SMT DEF Division, Digit, Base
<1> QED
  BY <1>1, <1>2, <1>b, <1>c, <1>8, SMT DEF Val, Division, Digit, Base

(* A sum below the limit has summands that are not negative.                 *)
LEMMA SummandsFit ==
    ASSUME NEW a \in Duration, NEW b \in Duration, Val(a) + Val(b) < Limit
    PROVE  ~Negative(a) /\ ~Negative(b)
<1>1. /\ Val(a) \in Int /\ Val(a) >= 0 /\ (Negative(a) <=> Val(a) >= Limit)
      /\ Val(b) \in Int /\ Val(b) >= 0 /\ (Negative(b) <=> Val(b) >= Limit)
  BY ValType
<1>2. Limit \in Int
  BY LimitType
<1> QED
  BY <1>1, <1>2

(* Less compares what durations that are not negative stand for.             *)
LEMMA LessVal ==
    ASSUME NEW a \in Duration, NEW b \in Duration, ~Negative(a), ~Negative(b)
    PROVE  Less(a, b) <=> Val(a) < Val(b)
<1>1. Digit(a[1]) /\ Digit(a[2]) /\ Digit(a[3]) /\ Digit(a[4])
  BY Digits
<1>2. Digit(b[1]) /\ Digit(b[2]) /\ Digit(b[3]) /\ Digit(b[4])
  BY Digits
<1>3. Less(a, b) <=> \/ a[4] < b[4]
                     \/ a[3] < b[3] /\ a[4] = b[4]
                     \/ a[2] < b[2] /\ a[3] = b[3] /\ a[4] = b[4]
                     \/ a[1] < b[1] /\ a[2] = b[2] /\ a[3] = b[3] /\ a[4] = b[4]
  <2>1. /\ 1 .. 4 = {1, 2, 3, 4} /\ 1 + 1 .. 4 = {2, 3, 4} /\ 2 + 1 .. 4 = {3, 4}
        /\ 3 + 1 .. 4 = {4} /\ 4 + 1 .. 4 = {}
    OBVIOUS
  <2> DEFINE Differ(i) == a[i] < b[i] /\ \A j \in i + 1 .. 4 : a[j] = b[j]
  <2>2. Less(a, b) <=> \E i \in 1 .. 4 : Differ(i)
    <3> DEFINE E == \E i \in 1 .. 4 : Differ(i)
    <3>1. Less(a, b) <=> (Negative(a) /\ ~Negative(b)) \/ (Negative(a) = Negative(b) /\ E)
      BY DEF Less
    <3> HIDE DEF E
    <3>2. Negative(a) \in BOOLEAN /\ Negative(b) \in BOOLEAN
      BY DEF Negative
    <3> QED
      BY <3>1, <3>2 DEF E
  <2>3. Less(a, b) <=> Differ(1) \/ Differ(2) \/ Differ(3) \/ Differ(4)
    <3> HIDE DEF Differ
    <3> QED
      BY <2>1, <2>2
  <2> QED
   BY <2>1, <2>3
<1> DEFINE a4 == a[4] a3 == a[3] + Base * a4  a2 == a[2] + Base * a3
           b4 == b[4] b3 == b[3] + Base * b4  b2 == b[2] + Base * b3
<1>4. a4 \in Int /\ b4 \in Int
  BY <1>1, <1>2 DEF Digit
<1>5. /\ a3 \in Int /\ b3 \in Int
      /\ a3 < b3 <=> a4 < b4 \/ (a4 = b4 /\ a[3] < b[3])
      /\ a3 = b3 <=> a4 = b4 /\ a[3] = b[3]
  <2> HIDE DEF a4, b4
  <2> QED
    BY <1>1, <1>2, <1>4, HigherFirst
<1>6. /\ a2 \in Int /\ b2 \in Int
      /\ a2 < b2 <=> a3 < b3 \/ (a3 = b3 /\ a[2] < b[2])
      /\ a2 = b2 <=> a3 = b3 /\ a[2] = b[2]
  <2> HIDE DEF a3, b3
  <2> QED
    BY <1>1, <1>2, <1>5, HigherFirst
<1>7. Val(a) < Val(b) <=> a2 < b2 \/ (a2 = b2 /\ a[1] < b[1])
  <2> DEFINE a1 == Val(a)  b1 == Val(b)
  <2>1. a1 = a[1] + Base * a2 /\ b1 = b[1] + Base * b2
    BY DEF Val
  <2> HIDE DEF a1, b1, a2, b2
  <2>2. a1 < b1 <=> a2 < b2 \/ (a2 = b2 /\ a[1] < b[1])
    <3>1. Digit(a[1]) /\ Digit(b[1]) /\ a2 \in Int /\ b2 \in Int
      BY <1>1, <1>2, <1>6
    <3> QED
      BY <2>1, <3>1, HigherFirst
  <2> QED
    BY <2>2 DEF a1, b1
<1> HIDE DEF a2, b2, a3, b3
<1> QED
  BY <1>3, <1>5, <1>6, <1>7

-----------------------------------------------------------------------------
(* The Fibonacci numbers.                                                    *)
Sums == [p \in Nat \X Nat |-> <<p[2], p[1] + p[2]>>]

F(n) == Iterated(<<0, 1>>, Sums)[n][1]

(* They are numbers, and each is the sum of the two before.                  *)
LEMMA Fibonacci ==
    /\ F(0) = 0 /\ F(1) = 1
    /\ \A n \in Nat : F(n) \in Nat /\ F(n + 2) = F(n) + F(n + 1)
<1> DEFINE S == Nat \X Nat  c == <<0, 1>>  G == Iterated(c, Sums)
<1>1. c \in S /\ Sums \in [S -> S]
  BY DEF Sums
<1>2. G \in [Nat -> S] /\ G[0] = c /\ \A n \in Nat : G[n + 1] = Sums[G[n]]
  <2> HIDE DEF S, c
  <2> QED
    BY <1>1, IteratedFunction
<1>3. \A n \in Nat : F(n) = G[n][1]
  BY DEF F
<1> HIDE DEF G
<1>4. \A n \in Nat : /\ G[n] \in Nat \X Nat /\ G[n + 1][1] = G[n][2]
                      /\ G[n + 1][2] = G[n][1] + G[n][2]
  <2> TAKE n \in Nat
  <2>1. G[n] \in Nat \X Nat /\ G[n + 1] = Sums[G[n]]
    BY <1>2
  <2>2. G[n + 1] = <<G[n][2], G[n][1] + G[n][2]>>
    BY <2>1 DEF Sums
  <2> QED
    BY <2>1, <2>2
<1>5. F(0) = 0 /\ F(1) = 1
  <2>1. G[0][1] = 0 /\ G[0][2] = 1 /\ 0 + 1 = 1
    BY <1>2
  <2> QED
    BY <1>3, <1>4, <2>1
<1>6. ASSUME NEW n \in Nat PROVE F(n) \in Nat /\ F(n + 2) = F(n) + F(n + 1)
  <2>1. n + 1 \in Nat /\ n + 2 \in Nat /\ (n + 1) + 1 = n + 2
    OBVIOUS
  <2>2. G[n + 2][1] = G[n + 1][2]
    BY <1>4, <2>1
  <2>3. G[n] \in Nat \X Nat /\ G[n + 1][2] = G[n][1] + G[n + 1][1]
    BY <1>4
  <2> QED
    BY <2>1, <2>2, <2>3, <1>3
<1> QED
  BY <1>5, <1>6

(* They grow.                                                                *)
LEMMA FibonacciGrows == \A m, n \in Nat : m <= n => F(m) <= F(n)
<1> DEFINE G == {n \in Nat : F(n) <= F(n + 1) /\ \A m \in Nat : m <= n => F(m) <= F(n)}
<1>1. 0 \in G
  BY Fibonacci
<1>2. ASSUME NEW n \in Nat, n \in G PROVE n + 1 \in G
  <2>0. n + 1 \in Nat /\ n + 2 \in Nat /\ (n + 1) + 1 = n + 2
    OBVIOUS
  <2>1. F(n) \in Nat /\ F(n + 1) \in Nat /\ F(n + 2) = F(n) + F(n + 1)
    BY <2>0, Fibonacci
  <2>2. F(n + 1) <= F(n + 2)
    BY <2>1
  <2>3. ASSUME NEW m \in Nat, m <= n + 1 PROVE F(m) <= F(n + 1)
    <3>1. CASE m = n + 1
      BY <2>1, <3>1
    <3>2. CASE m <= n
      <4>1. F(m) <= F(n) /\ F(m) \in Nat
        BY <1>2, <3>2, Fibonacci
      <4>2. F(n) <= F(n + 1)
        BY <1>2
      <4> QED
        BY <2>1, <4>1, <4>2
    <3> QED
      BY <2>3, <3>1, <3>2
  <2> QED
    BY <2>0, <2>2, <2>3
<1> HIDE DEF G
<1>3. Nat \subseteq G
  BY <1>1, <1>2, Induction
<1> QED
  BY <1>3 DEF G

(* The sum again, for numbers that are known to follow each other.           *)
LEMMA FibonacciSum ==
    ASSUME NEW i \in Nat, NEW j \in Nat, NEW k \in Nat, j = i + 1, k = i + 2
    PROVE  F(k) = F(i) + F(j)
  BY Fibonacci

(* Twelve numbers further.                                                   *)
LEMMA Twelve ==
    ASSUME NEW n \in Nat, NEW x \in Nat, NEW y \in Nat, F(n) = x, F(n + 1) = y
    PROVE  F(n + 12) = 89 * x + 144 * y /\ F(n + 13) = 144 * x + 233 * y
<1>0. F(n + 2) = x + y
  BY FibonacciSum
<1>3. F(n + 3) = x + 2 * y
  BY <1>0, FibonacciSum
<1>4. F(n + 4) = 2 * x + 3 * y
  BY <1>0, <1>3, FibonacciSum
<1>5. F(n + 5) = 3 * x + 5 * y
  BY <1>4, <1>3, FibonacciSum
<1>6. F(n + 6) = 5 * x + 8 * y
  BY <1>5, <1>4, FibonacciSum
<1>7. F(n + 7) = 8 * x + 13 * y
  BY <1>6, <1>5, FibonacciSum
<1>8. F(n + 8) = 13 * x + 21 * y
  BY <1>7, <1>6, FibonacciSum
<1>9. F(n + 9) = 21 * x + 34 * y
  BY <1>8, <1>7, FibonacciSum
<1>10. F(n + 10) = 34 * x + 55 * y
  BY <1>9, <1>8, FibonacciSum
<1>11. F(n + 11) = 55 * x + 89 * y
  BY <1>10, <1>9, FibonacciSum
<1>12. F(n + 12) = 89 * x + 144 * y
  BY <1>11, <1>10, FibonacciSum
<1>13. F(n + 13) = 144 * x + 233 * y
  BY <1>12, <1>11, FibonacciSum
<1> QED
  BY <1>12, <1>13

-----------------------------------------------------------------------------
(* What Backoff computes with them.                                          *)

(* A sum is a duration, whatever is carried out of its highest digit.        *)
LEMMA PlusType ==
    ASSUME NEW a \in Duration, NEW b \in Duration
    PROVE  Plus(a, b) \in Duration
<1>0. 0 .. Base - 1 \subseteq Int
  BY DEF Base
<1>1. \A i \in 1 .. 4 : a[i] \in Int /\ b[i] \in Int
  BY <1>0 DEF Duration
<1>2. \A s \in Int : s % Base \in 0 .. Base - 1 /\ s \div Base \in Int
  BY DEF Base
<1>3. /\ a[1] \in Int /\ a[2] \in Int /\ a[3] \in Int /\ a[4] \in Int
      /\ b[1] \in Int /\ b[2] \in Int /\ b[3] \in Int /\ b[4] \in Int
  BY <1>1
<1> QED
  BY <1>2, <1>3 DEF Plus, Duration

(* The constants are durations.                                              *)
LEMMA Durations == {Zero, Second, Minute, FiveMinutes} \subseteq Duration
<1>1. \A S : \A w, x, y, z \in S : <<w, x, y, z>> \in [1 .. 4 -> S]
  OBVIOUS
<1>2. {0, 51712, 15258, 22528, 63559, 13, 47104, 55652, 69} \subseteq 0 .. Base - 1
  BY DEF Base
<1> QED
  BY <1>1, <1>2 DEF Zero, Second, FiveMinutes, Minute, Duration

(* FibPair is the function that its definition says.                         *)
LEMMA FibPairType ==
    /\ FibPair \in [Nat -> Duration \X Duration]
    /\ FibPair[0] = <<Zero, Second>>
    /\ \A n \in Nat : FibPair[n + 1] = Advance[FibPair[n]]
<1>1. Advance \in [Duration \X Duration -> Duration \X Duration] 
  BY PlusType DEF Advance
<1>2. <<Zero, Second>> \in Duration \X Duration
  BY Durations
<1>3. FibPair = Iterated(<<Zero, Second>>, Advance)
  BY DEF FibPair, Iterated
<1> DEFINE S == Duration \X Duration  c == <<Zero, Second>>
<1>4. c \in S /\ Advance \in [S -> S] /\ FibPair = Iterated(c, Advance)
  BY <1>1, <1>2, <1>3
<1> HIDE DEF c, S
<1>5. /\ FibPair \in [Nat -> S] /\ FibPair[0] = c
      /\ \A n \in Nat : FibPair[n + 1] = Advance[FibPair[n]]
  BY <1>4, IteratedFunction
<1> QED
  BY <1>5 DEF S, c

(* The next pair drops the first delay and adds the sum of both.             *)
LEMMA FibPairNext ==
    ASSUME NEW n \in Nat
    PROVE  /\ FibPair[n][1] \in Duration /\ FibPair[n][2] \in Duration
           /\ FibPair[n + 1][1] = FibPair[n][2]
           /\ FibPair[n + 1][2] = Plus(FibPair[n][1], FibPair[n][2])
<1> DEFINE p == FibPair[n]
<1>1. p \in Duration \X Duration /\ FibPair[n + 1] = Advance[p]
  BY FibPairType
<1> HIDE DEF p
<1>2. Advance[p] = <<p[2], Plus(p[1], p[2])>> /\ p[1] \in Duration /\ p[2] \in Duration
  BY <1>1 DEF Advance
<1> QED
  BY <1>1, <1>2 DEF p

(* The n-th delay is as many seconds as the n-th Fibonacci number, up to the *)
(* 49th: the next one overflows.                                             *)
LEMMA LastFibonacci ==
    /\ F(48) = 4807 * Million + 526 * 1000 + 976
    /\ F(49) = 7778 * Million + 742 * 1000 + 49
<1>1. F(12) = 144 /\ F(13) = 233
  <2>1. F(0) = 0 /\ F(0 + 1) = 1
    BY Fibonacci
  <2>2. F(0 + 12) = 144 /\ F(0 + 13) = 233
    BY <2>1, Twelve
  <2> QED
    BY <2>2
<1>2. F(24) = 46368 /\ F(25) = 75025
  <2>1. F(12 + 12) = 46368 /\ F(12 + 13) = 75025
    BY <1>1, Twelve
  <2> QED
    BY <2>1
<1>3. F(36) = 14 * Million + 930 * 1000 + 352 /\ F(37) = 24 * Million + 157 * 1000 + 817
  <2>1. /\ F(24 + 12) = 14 * Million + 930 * 1000 + 352
        /\ F(24 + 13) = 24 * Million + 157 * 1000 + 817
    BY <1>2, Twelve, SMT DEF Million
  <2> QED
    BY <2>1, SMT
<1>4. /\ F(36 + 12) = 4807 * Million + 526 * 1000 + 976
      /\ F(36 + 13) = 7778 * Million + 742 * 1000 + 49
  BY <1>3, Twelve, SMT DEF Million
<1> QED
  BY <1>4, SMT

(* Seconds up to the 49th Fibonacci number fit in an int64 of nanoseconds.   *)
LEMMA FitsLimit ==
    ASSUME NEW x \in Int, x <= 7778 * Million + 742 * 1000 + 49
    PROVE  1000 * Million * x < Limit
<1> DEFINE u == Base * (Base \div 2)  v == Base * u  w == Base * v
           square == Million * Million  y == Million * x
<1>1. Base \div 2 = 32768
  BY SMT DEF Base
<1>2. u \in Int /\ u >= 2147 * Million
  BY <1>1, SMT DEF Base, Million
<1>3. square \in Int /\ square > 0
  BY SMT DEF Million
<1>4. v \in Int /\ v >= 140 * square
  <2> HIDE DEF u
  <2> QED
    BY <1>2, SMT DEF Base, Million
<1>5. y \in Int /\ y <= 7779 * square
  BY SMT DEF Million
<1>6. Limit = w /\ 1000 * Million * x = 1000 * y
  BY SMT DEF Limit, Million
<1> HIDE DEF v, square, y
<1>7. 1000 * y < w
  BY <1>3, <1>4, <1>5, SMT DEF Base
<1> QED
  BY <1>6, <1>7

(* No sum up to there overflows.                                             *)
LEMMA FibSeconds ==
    ASSUME NEW n \in 0 .. 49
    PROVE  fib(n) \in Duration /\ ~Negative(fib(n)) /\ Val(fib(n)) = 1000 * Million * F(n)
<1> DEFINE last == 7778 * Million + 742 * 1000 + 49
           Seconds(d, k) == Val(d) = 1000 * Million * F(k)
<1>2. ASSUME NEW k \in Nat, k <= 49
      PROVE  F(k) \in Int /\ F(k) <= last /\ 1000 * Million * F(k) < Limit
  <2>1. F(k) \in Int /\ F(k) <= last
    <3> HIDE DEF last
    <3>1. F(k) <= F(49) /\ F(49) = last
      BY <1>2, LastFibonacci, FibonacciGrows DEF last
    <3> QED
      BY <3>1, Fibonacci
  <2> QED
    BY <2>1, FitsLimit
<1> HIDE DEF last
<1> DEFINE G == {k \in Nat : k <= 48 => /\ Seconds(FibPair[k][1], k)
                                        /\ Seconds(FibPair[k][2], k + 1)}
<1>3. Val(Zero) = 0 /\ Val(Second) = 1000 * Million
  BY SMT DEF Val, Zero, Second, Base, Million
<1>4. 0 \in G
  <2>1. FibPair[0][1] = Zero /\ FibPair[0][2] = Second /\ F(0) = 0 /\ F(0 + 1) = 1
    BY FibPairType, Fibonacci
  <2> QED
    BY <1>3, <2>1, SMT DEF Million
<1>5. ASSUME NEW k \in Nat, k \in G PROVE k + 1 \in G
  <2> SUFFICES ASSUME k + 1 <= 48
               PROVE  /\ Seconds(FibPair[k + 1][1], k + 1)
                      /\ Seconds(FibPair[k + 1][2], (k + 1) + 1)
    OBVIOUS
  <2> DEFINE a == FibPair[k][1]  b == FibPair[k][2]  j == k + 1  i == (k + 1) + 1
  <2>1. /\ a \in Duration /\ b \in Duration
        /\ FibPair[k + 1][1] = b /\ FibPair[k + 1][2] = Plus(a, b)
    BY FibPairNext
  <2>2. Seconds(a, k) /\ Seconds(b, j)
    BY <1>5
  <2>3. j \in Nat /\ i \in Nat /\ i <= 49 /\ j = k + 1 /\ i = k + 2
    OBVIOUS
  <2> HIDE DEF a, b, i, j
  <2>4. F(i) = F(k) + F(j) /\ F(k) \in Int /\ F(j) \in Int /\ F(i) \in Int
    <3>1. F(i) = F(k) + F(j)
      BY <2>3, FibonacciSum
    <3>2. \A m \in Nat : F(m) \in Nat
      BY Fibonacci
    <3> QED
      BY <2>3, <3>1, <3>2
  <2>5. Val(a) + Val(b) = 1000 * Million * F(i)
    BY <2>2, <2>4, SMT DEF Million
  <2>6. Val(a) + Val(b) < Limit
    BY <1>2, <2>3, <2>5
  <2>7. Seconds(Plus(a, b), i)
    BY <2>1, <2>5, <2>6, PlusVal, SummandsFit
  <2> QED
    BY <2>1, <2>2, <2>7 DEF i, j
<1>6. Nat \subseteq G
  <2> HIDE DEF G
  <2> QED
    BY <1>4, <1>5, Induction
<1>7. fib(n) \in Duration /\ Seconds(fib(n), n)
  <2>2. CASE n <= 48
    BY <1>6, <2>2, FibPairNext DEF fib
  <2>3. CASE n = 49
    <3>1. 48 \in G /\ 48 <= 48 /\ 48 + 1 = 49
      BY <1>6
    <3>2. Seconds(FibPair[48][2], 49)
      BY <3>1
    <3>3. FibPair[49][1] = FibPair[48][2] /\ FibPair[48][2] \in Duration
      BY <3>1, FibPairNext
    <3> QED
      BY <2>3, <3>2, <3>3 DEF fib
  <2> QED
    BY <2>2, <2>3
<1>9. Val(fib(n)) < Limit
  BY <1>2, <1>7
<1>10. ~(Val(fib(n)) >= Limit)
  <2>1. Val(fib(n)) \in Int /\ Limit \in Int
    BY <1>7, ValType, LimitType
  <2> QED
    BY <1>9, <2>1
<1> QED
  BY <1>7, <1>10, ValType

(* More seconds than that do not fit: the sum of the 48th and the 49th.      *)
LEMMA ExceedsLimit ==
    ASSUME NEW x \in Int, x >= 12586 * Million
    PROVE  1000 * Million * x >= Limit
<1> DEFINE u == Base * (Base \div 2)  v == Base * u  w == Base * v
           square == Million * Million  y == Million * x
<1>1. Base \div 2 = 32768
  BY SMT DEF Base
<1>2. u \in Int /\ u <= 2148 * Million
  BY <1>1, SMT DEF Base, Million
<1>3. square \in Int /\ square > 0
  BY SMT DEF Million
<1>4. v \in Int /\ v <= 141 * square
  <2> HIDE DEF u
  <2> QED
    BY <1>2, SMT DEF Base, Million
<1>5. y \in Int /\ y >= 12586 * square
  BY SMT DEF Million
<1>6. Limit = w /\ 1000 * Million * x = 1000 * y
  BY SMT DEF Limit, Million
<1> HIDE DEF v, square, y
<1>7. 1000 * y >= w
  BY <1>3, <1>4, <1>5, SMT DEF Base
<1> QED
  BY <1>6, <1>7

(* The 50th delay is negative.                                               *)
LEMMA FibOverflows == fib(50) \in Duration /\ Negative(fib(50))
<1> DEFINE a == fib(48)  b == fib(49)
<1>1. /\ a \in Duration /\ ~Negative(a) /\ Val(a) = 1000 * Million * F(48)
      /\ b \in Duration /\ ~Negative(b) /\ Val(b) = 1000 * Million * F(49)
  BY FibSeconds
<1>2. fib(50) = Plus(a, b)
  <2>1. /\ FibPair[48 + 1][1] = FibPair[48][2]
        /\ FibPair[48 + 1][2] = Plus(FibPair[48][1], FibPair[48][2])
        /\ FibPair[49 + 1][1] = FibPair[49][2]
    BY FibPairNext
  <2> QED
    BY <2>1 DEF fib
<1> HIDE DEF a, b
<1>3. F(48) \in Int /\ F(49) \in Int /\ F(48) + F(49) >= 12586 * Million
  <2>1. \A n \in Nat : F(n) \in Nat
    BY Fibonacci
  <2>2. F(48) \in Int /\ F(49) \in Int
    BY <2>1
  <2> QED
    BY <2>2, LastFibonacci, SMT DEF Million
<1>4. Val(a) + Val(b) = 1000 * Million * (F(48) + F(49))
  BY <1>1, <1>3, SMT DEF Million
<1>5. Val(Plus(a, b)) >= Limit
  BY <1>1, <1>3, <1>4, PlusVal, ExceedsLimit
<1> QED
  BY <1>1, <1>2, <1>5, PlusType, ValType

(* What the applier waits: never less than nothing or more than five         *)
(* minutes, and the longer the more attempts have failed in a row.           *)
LEMMA BackoffType == \A n \in Nat : backoff(n) \in Duration
<1>1. ASSUME NEW n \in Nat PROVE fib(n) \in Duration
  BY FibPairNext DEF fib
<1> QED
  BY <1>1, Durations DEF backoff

(* The first delay is none.                                                  *)
LEMMA BackoffStarts == backoff(0) = Zero
<1>1. fib(0) = Zero
  BY FibPairType DEF fib
<1>2. ~Less(FiveMinutes, Zero)
  <2>1. Base \div 2 = 32768
    BY SMT DEF Base
  <2>2. \A i \in 1 .. 4 : i = 1 \/ i = 2 \/ i = 3 \/ i = 4
    OBVIOUS
  <2> QED
    BY <2>1, <2>2 DEF Less, Negative, FiveMinutes, Zero
<1> QED
  BY <1>1, <1>2 DEF backoff

(* Five minutes are five minutes.                                            *)
LEMMA LimitOfBackoff ==
    /\ FiveMinutes \in Duration /\ ~Negative(FiveMinutes)
    /\ ~Less(FiveMinutes, FiveMinutes)
<1>1. FiveMinutes \in Duration /\ ~Negative(FiveMinutes)
  <2>1. Base \div 2 = 32768
    BY SMT DEF Base
  <2> QED
    BY <2>1, Durations DEF Negative, FiveMinutes
<1> QED
  BY <1>1, LessVal, ValType

(* No delay is longer, whatever overflows.                                   *)
LEMMA BackoffCapped == \A n \in Nat : ~Less(FiveMinutes, backoff(n))
  BY LimitOfBackoff DEF backoff

(* The delay after the 51st failure in a row, which fib(50) gives.           *)
LEMMA BackoffOverflows == Negative(backoff(50))
<1>1. ~Less(FiveMinutes, fib(50))
  BY FibOverflows, LimitOfBackoff DEF Less
<1> QED
  BY <1>1, FibOverflows DEF backoff

(* Up to 49 failures in a row, a delay is the one of fib or five minutes.    *)
LEMMA BackoffLimited ==
    ASSUME NEW n \in 0 .. 49
    PROVE  /\ backoff(n) \in Duration /\ ~Negative(backoff(n))
           /\ ~Less(FiveMinutes, backoff(n))
           /\ backoff(n) = fib(n) \/ (backoff(n) = FiveMinutes /\ Less(FiveMinutes, fib(n)))
  BY LimitOfBackoff, FibSeconds DEF backoff

(* More failures never make a delay shorter.                                 *)
LEMMA BackoffGrows ==
    ASSUME NEW m \in 0 .. 49, NEW n \in 0 .. 49, m <= n
    PROVE  ~Less(backoff(n), backoff(m))
<1> DEFINE x == backoff(m)  y == backoff(n)
<1>1. /\ x \in Duration /\ ~Negative(x) /\ ~Less(FiveMinutes, x)
      /\ x = fib(m) \/ (x = FiveMinutes /\ Less(FiveMinutes, fib(m)))
  BY BackoffLimited
<1>2. /\ y \in Duration /\ ~Negative(y)
      /\ y = fib(n) \/ (y = FiveMinutes /\ Less(FiveMinutes, fib(n)))
  BY BackoffLimited
<1> HIDE DEF x, y
<1>3. /\ fib(m) \in Duration /\ ~Negative(fib(m)) /\ fib(n) \in Duration /\ ~Negative(fib(n))
      /\ Val(fib(m)) = 1000 * Million * F(m) /\ Val(fib(n)) = 1000 * Million * F(n)
  BY FibSeconds
<1>4. F(m) \in Int /\ F(n) \in Int /\ F(m) <= F(n)
  <2>1. F(m) <= F(n)
    BY FibonacciGrows
  <2>2. \A k \in Nat : F(k) \in Nat
    BY Fibonacci
  <2> QED
    BY <2>1, <2>2
<1>5. Val(fib(m)) <= Val(fib(n))
  BY <1>3, <1>4, SMT DEF Million
<1>6. CASE y = FiveMinutes
  BY <1>1, <1>6 DEF y, x
<1>7. CASE y = fib(n) /\ x = fib(m)
  BY <1>3, <1>5, <1>7, LessVal, ValType DEF x, y
<1>8. CASE y = fib(n) /\ x = FiveMinutes /\ Less(FiveMinutes, fib(m))
  <2>1. Val(x) < Val(fib(m)) /\ Val(x) \in Int /\ Val(y) \in Int /\ Val(fib(m)) \in Int
    BY <1>1, <1>2, <1>3, <1>8, LessVal, ValType
  <2>2. ~(Val(y) < Val(x))
    BY <1>5, <1>8, <2>1
  <2> QED
    BY <1>1, <1>2, <2>2, LessVal DEF x, y
<1> QED
  BY <1>1, <1>2, <1>6, <1>7, <1>8

-----------------------------------------------------------------------------
(* The delays that the controllers ask for are doubled from one attempt to   *)
(* the next.                                                                 *)

Double == [x \in Nat |-> x + x]

(* x, doubled k times, as a number without limit.                            *)
Shifted(x, k) == Iterated(x, Double)[k]

(* Doubling makes a number no smaller.                                       *)
LEMMA ShiftedGrows ==
    ASSUME NEW x \in Nat
    PROVE  /\ Shifted(x, 0) = x
           /\ \A k \in Nat : /\ Shifted(x, k) \in Nat
                             /\ Shifted(x, k + 1) = Shifted(x, k) + Shifted(x, k)
           /\ \A k, n \in Nat : k <= n => x <= Shifted(x, k) /\ Shifted(x, k) <= Shifted(x, n)
<1>1. Double \in [Nat -> Nat]
  BY DEF Double
<1> DEFINE S == Nat  c == x  g == Iterated(c, Double)
<1>0. \A k : Shifted(x, k) = g[k]
  BY DEF Shifted
<1>a. g \in [Nat -> S] /\ g[0] = c /\ \A k \in Nat : g[k + 1] = Double[g[k]]
  <2>1. c \in S /\ Double \in [S -> S]
    BY <1>1
  <2> HIDE DEF S, c
  <2> QED
    BY <2>1, IteratedFunction
<1> HIDE DEF g
<1>2. Shifted(x, 0) = x /\ \A k \in Nat : Shifted(x, k) \in Nat
  BY <1>0, <1>a
<1>3. \A k \in Nat : Shifted(x, k + 1) = Double[Shifted(x, k)]
  BY <1>0, <1>a
<1>4. \A k \in Nat : Shifted(x, k + 1) = Shifted(x, k) + Shifted(x, k)
  BY <1>2, <1>3 DEF Double
<1> DEFINE G == {n \in Nat : /\ x <= Shifted(x, n)
                             /\ \A k \in Nat : k <= n => Shifted(x, k) <= Shifted(x, n)}
<1>5. 0 \in G
  <2>1. \A k \in Nat : k <= 0 => k = 0
    OBVIOUS
  <2> QED
    BY <1>2, <2>1
<1>6. ASSUME NEW n \in Nat, n \in G PROVE n + 1 \in G
  <2>1. n + 1 \in Nat /\ \A k \in Nat : k <= n + 1 => k <= n \/ k = n + 1
    OBVIOUS
  <2>2. Shifted(x, n) <= Shifted(x, n + 1) /\ Shifted(x, n + 1) \in Nat /\ Shifted(x, n) \in Nat
    <3>1. Shifted(x, n) \in Nat /\ Shifted(x, n + 1) = Shifted(x, n) + Shifted(x, n)
      BY <1>2, <1>4
    <3> QED
      BY <3>1
  <2>3. x <= Shifted(x, n + 1)
    BY <1>6, <2>2
  <2>4. ASSUME NEW k \in Nat, k <= n + 1 PROVE Shifted(x, k) <= Shifted(x, n + 1)
    <3>1. CASE k = n + 1
      BY <2>2, <3>1
    <3>2. CASE k <= n
      BY <1>2, <1>6, <2>2, <3>2
    <3> QED
      BY <2>1, <2>4, <3>1, <3>2
  <2> QED
    BY <2>1, <2>3, <2>4
<1>7. Nat \subseteq G
  <2> HIDE DEF G
  <2> QED
    BY <1>5, <1>6, Induction
<1>8. \A k, n \in Nat : k <= n => x <= Shifted(x, k) /\ Shifted(x, k) <= Shifted(x, n)
  BY <1>7
<1> QED
  BY <1>2, <1>4, <1>8

(* ShiftLeft doubles a duration, with the overflow of each sum.              *)
LEMMA ShiftLeftType ==
    ASSUME NEW d \in Duration
    PROVE  /\ ShiftLeft(d, 0) = d
           /\ \A k \in Nat : /\ ShiftLeft(d, k) \in Duration
                             /\ ShiftLeft(d, k + 1) = Plus(ShiftLeft(d, k), ShiftLeft(d, k))
<1>1. Doubled \in [Duration -> Duration]
  BY PlusType DEF Doubled
<1>2. ASSUME NEW k PROVE ShiftLeft(d, k) = Iterated(d, Doubled)[k]
  BY DEF ShiftLeft, Iterated
<1>3. /\ ShiftLeft(d, 0) = d
      /\ \A k \in Nat : /\ ShiftLeft(d, k) \in Duration
                        /\ ShiftLeft(d, k + 1) = Doubled[ShiftLeft(d, k)]
  BY <1>1, <1>2, IteratedFunction
<1> QED
  BY <1>3 DEF Doubled

(* As long as the result fits, nothing is lost of it.                        *)
LEMMA ShiftLeftExact ==
    ASSUME NEW d \in Duration, NEW n \in Nat, Shifted(Val(d), n) < Limit
    PROVE  Val(ShiftLeft(d, n)) = Shifted(Val(d), n)
<1> DEFINE x == Val(d)
           G == {k \in Nat : k <= n => Val(ShiftLeft(d, k)) = Shifted(x, k)}
<1>1. x \in Nat /\ Limit \in Int
  BY ValType, LimitType
<1> HIDE DEF x
<1>2. 0 \in G
  BY <1>1, ShiftLeftType, ShiftedGrows DEF x
<1>3. ASSUME NEW k \in Nat, k \in G PROVE k + 1 \in G
  <2> SUFFICES ASSUME k + 1 <= n PROVE Val(ShiftLeft(d, k + 1)) = Shifted(x, k + 1)
    OBVIOUS
  <2> DEFINE e == ShiftLeft(d, k)  j == k + 1
  <2>1. e \in Duration /\ ShiftLeft(d, j) = Plus(e, e) /\ Val(e) = Shifted(x, k) /\ j \in Nat
    BY <1>3, ShiftLeftType
  <2>2. Shifted(x, j) = Shifted(x, k) + Shifted(x, k)
    BY <1>1, ShiftedGrows
  <2>6. Shifted(x, j) \in Nat /\ Shifted(x, n) \in Nat /\ Shifted(x, j) <= Shifted(x, n)
    <3>1. j \in Nat /\ j <= n
      OBVIOUS
    <3> HIDE DEF j
    <3>2. \A i \in Nat : Shifted(x, i) \in Nat
      BY <1>1, ShiftedGrows
    <3>3. \A i, m \in Nat : i <= m => Shifted(x, i) <= Shifted(x, m)
      BY <1>1, ShiftedGrows
    <3> QED
      BY <3>1, <3>2, <3>3
  <2>3. Shifted(x, n) < Limit
    BY DEF x
  <2> HIDE DEF e, j
  <2>4. Val(e) + Val(e) < Limit /\ Val(e) + Val(e) = Shifted(x, j)
    BY <1>1, <2>1, <2>2, <2>3, <2>6
  <2>5. Val(Plus(e, e)) = Val(e) + Val(e)
    BY <2>1, <2>4, PlusVal, SummandsFit
  <2> QED
    BY <2>1, <2>4, <2>5 DEF j
<1>4. Nat \subseteq G
  <2> HIDE DEF G
  <2> QED
    BY <1>2, <1>3, Induction
<1> QED
  BY <1>4 DEF x
====================================================================================
