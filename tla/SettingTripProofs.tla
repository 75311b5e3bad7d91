-------------------------- MODULE SettingTripProofs --------------------------
(* What TLAPS proves of a setting's way to the unit and back, for any tables  *)
(* that meet the assumptions of SettingTrip, any settings and any number of   *)
(* writes.  What a recursive function computes is proved without induction    *)
(* rules: the least index where it would go wrong does not exist.             *)
EXTENDS SettingTrip, SequenceTheorems, WellFoundedInduction, TLAPS

-----------------------------------------------------------------------------
(* Recursion over 0..N                                                     *)

\* A set of naturals with 0 and every successor has them all.
LEMMA NatSetInduction ==
    ASSUME NEW S \in SUBSET Nat, 0 \in S, \A n \in S : n + 1 \in S
    PROVE  S = Nat
  <1> DEFINE R == OpToRel(<, Nat)
  <1>1. IsWellFoundedOn(R, Nat)
    BY NatLessThanWellFounded
  <1>2. ASSUME NEW x \in Nat, NEW y \in Nat, y < x PROVE <<y, x>> \in R
    BY <1>2 DEF OpToRel
  <1> HIDE DEF R
  <1>3. SUFFICES ASSUME Nat \ S # {} PROVE FALSE
    OBVIOUS
  <1>4. PICK x \in Nat \ S : \A y \in Nat \ S : ~ (<<y, x>> \in R)
    <2>1. Nat \ S \subseteq Nat
      OBVIOUS
    <2> QED
      BY <1>1, <1>3, <2>1, WFMin
  <1>5. x # 0
    BY <1>4
  <1>6. x - 1 \in Nat /\ x - 1 < x /\ (x - 1) + 1 = x
    BY <1>4, <1>5
  <1>7. x - 1 \in S
    BY <1>2, <1>4, <1>6
  <1> QED
    BY <1>4, <1>6, <1>7

\* The same up to N: how what a recursive function computes is proved.
LEMMA Induction ==
    ASSUME NEW N \in Nat, NEW S, 0 \in S,
           \A i \in 1..N : i - 1 \in S => i \in S
    PROVE  \A i \in 0..N : i \in S
  <1> DEFINE T == {k \in Nat : k <= N => k \in S}
  <1>1. 0 \in T
    OBVIOUS
  <1>2. ASSUME NEW k \in T PROVE k + 1 \in T
    <2>1. k + 1 \in Nat /\ (k + 1) - 1 = k
      OBVIOUS
    <2>2. ASSUME k + 1 <= N PROVE k + 1 \in S
      <3>1. k <= N /\ k + 1 \in 1..N
        BY <2>2
      <3> QED
        BY <2>1, <3>1
    <2> QED
      BY <2>1, <2>2
  <1>3. T \in SUBSET Nat
    OBVIOUS
  <1> HIDE DEF T
  <1>4. T = Nat
    BY <1>1, <1>2, <1>3, NatSetInduction
  <1> QED
    BY <1>4 DEF T

Recurses(f, N, start, step) ==
    f = [i \in 0..N |-> IF i = 0 THEN start ELSE step[<<i, f[i - 1]>>]]

\* A start and a step determine a function.
LEMMA Recursion ==
    ASSUME NEW N \in Nat, NEW V, NEW start \in V,
           NEW step \in [(1..N) \X V -> V]
    PROVE  \E f \in [0..N -> V] : Recurses(f, N, start, step)
  <1> DEFINE Good(k) ==
        \E f \in [0..k -> V] :
            f = [i \in 0..k |-> IF i = 0 THEN start ELSE step[<<i, f[i - 1]>>]]
      G == {k \in 0..N : Good(k)}
  <1>1. Good(0)
    <2> DEFINE z == [i \in 0..0 |-> start]
    <2>1. z \in [0..0 -> V]
      OBVIOUS
    <2>2. z = [i \in 0..0 |-> IF i = 0 THEN start ELSE step[<<i, z[i - 1]>>]]
      OBVIOUS
    <2> QED
      BY <2>1, <2>2
  <1>2. ASSUME NEW k \in 1..N, Good(k - 1) PROVE Good(k)
    <2>1. PICK f \in [0..(k - 1) -> V] :
            f = [i \in 0..(k - 1) |->
                   IF i = 0 THEN start ELSE step[<<i, f[i - 1]>>]]
      BY <1>2
    <2> DEFINE g == [i \in 0..k |-> IF i = k THEN step[<<k, f[k - 1]>>] ELSE f[i]]
    <2>2. f[k - 1] \in V /\ step[<<k, f[k - 1]>>] \in V
      BY <2>1
    <2>3. g \in [0..k -> V]
      BY <2>1, <2>2
    <2>4. ASSUME NEW i \in 0..k
          PROVE  g[i] = IF i = 0 THEN start ELSE step[<<i, g[i - 1]>>]
      <3>1. CASE i = k
        <4>1. g[i] = step[<<k, f[k - 1]>>] /\ g[k - 1] = f[k - 1]
          BY <3>1
        <4> QED
          BY <3>1, <4>1
      <3>2. CASE i # k
        <4>1. i \in 0..(k - 1) /\ g[i] = f[i]
          BY <3>2
        <4>2. i # 0 => g[i - 1] = f[i - 1]
          BY <4>1
        <4> QED
          BY <2>1, <4>1, <4>2
      <3> QED
        BY <3>1, <3>2
    <2>5. g = [i \in 0..k |-> IF i = 0 THEN start ELSE step[<<i, g[i - 1]>>]]
      BY <2>4
    <2> QED
      BY <2>3, <2>5
  <1> HIDE DEF Good
  <1>3. 0 \in G /\ \A i \in 1..N : i - 1 \in G => i \in G
    BY <1>1, <1>2
  <1> HIDE DEF G
  <1>4. N \in G
    BY <1>3, Induction
  <1> QED
    BY <1>4 DEF G, Good, Recurses

-----------------------------------------------------------------------------
(* Sums and digits                                                         *)

Sums(n, digits, base, N) ==
    /\ n[0] = 0
    /\ \A i \in 1..N : n[i] = base * n[i - 1] + digits[i]

\* FromDigits multiplies and adds.
LEMMA FromDigitsSums ==
    ASSUME NEW digits, NEW N \in Nat, Len(digits) = N, NEW base \in Nat,
           \A i \in 1..N : digits[i] \in Nat
    PROVE  \E n \in [0..N -> Nat] :
              /\ Sums(n, digits, base, N)
              /\ FromDigits(digits, base) = n[N]
  <1> DEFINE e(n) == [i \in 0..N |->
                        IF i = 0 THEN 0 ELSE base * n[i - 1] + digits[i]]
             f == CHOOSE n : n = e(n)
             step == [p \in (1..N) \X Nat |-> base * p[2] + digits[p[1]]]
  <1>1. ASSUME NEW x \in Nat, NEW y \in Nat PROVE x * y \in Nat
    OBVIOUS
  <1>2. step \in [(1..N) \X Nat -> Nat]
    <2>1. ASSUME NEW p \in (1..N) \X Nat PROVE base * p[2] + digits[p[1]] \in Nat
      <3>1. p[1] \in 1..N /\ p[2] \in Nat
        OBVIOUS
      <3>2. PICK y \in Nat : y = base * p[2]
        BY <1>1, <3>1
      <3> QED
        BY <3>1, <3>2
    <2> QED
      BY <2>1
  <1>3. \A i \in 1..N, x \in Nat : step[<<i, x>>] = base * x + digits[i]
    OBVIOUS
  <1> HIDE DEF step
  <1>4. PICK n \in [0..N -> Nat] : Recurses(n, N, 0, step)
    BY <1>2, Recursion
  <1>5. n[0] = 0
    BY <1>4 DEF Recurses
  <1>6. ASSUME NEW i \in 1..N PROVE n[i] = base * n[i - 1] + digits[i]
    <2>1. n[i - 1] \in Nat /\ n[i] = step[<<i, n[i - 1]>>]
      BY <1>4 DEF Recurses
    <2> QED
      BY <1>3, <2>1
  <1>7. n = e(n)
    <2>1. ASSUME NEW i \in 0..N PROVE n[i] = e(n)[i]
      <3>1. CASE i = 0
        BY <1>5, <3>1
      <3>2. CASE i # 0
        <4>1. i \in 1..N
          BY <3>2
        <4>2. e(n)[i] = base * n[i - 1] + digits[i]
          BY <3>2
        <4> QED
          BY <1>6, <4>1, <4>2
      <3> QED
        BY <3>1, <3>2
    <2> QED
      BY <2>1
  <1>8. f = e(f)
    BY <1>7
  <1>9. f[0] = 0
    <2>1. e(f)[0] = 0
      OBVIOUS
    <2> HIDE DEF e, f
    <2> QED
      BY <1>8, <2>1
  <1>10. ASSUME NEW i \in 1..N PROVE f[i] = base * f[i - 1] + digits[i]
    <2>1. i \in 0..N /\ i # 0
      OBVIOUS
    <2> QED
      BY <1>8, <2>1
  <1>11. FromDigits(digits, base) = f[N]
    BY DEF FromDigits
  <1> HIDE DEF e, f
  <1>12. f[N] = n[N]
    <2> DEFINE S == {k \in 0..N : f[k] = n[k]}
    <2>1. 0 \in S
      BY <1>5, <1>9
    <2>2. ASSUME NEW i \in 1..N, i - 1 \in S PROVE i \in S
      <3>1. i \in 0..N /\ f[i - 1] = n[i - 1]
        BY <2>2
      <3>2. f[i] = base * f[i - 1] + digits[i]
        BY <1>10
      <3>3. n[i] = base * n[i - 1] + digits[i]
        BY <1>6
      <3>4. f[i] = n[i]
        BY <3>1, <3>2, <3>3, Zenon
      <3> QED
        BY <3>1, <3>4
    <2>3. \A i \in 1..N : i - 1 \in S => i \in S
      BY <2>2
    <2> HIDE DEF S
    <2>4. \A i \in 0..N : i \in S
      BY <2>1, <2>3, Induction
    <2> QED
      BY <2>4 DEF S
  <1>13. FromDigits(digits, base) = n[N]
    BY <1>11, <1>12
  <1>14. Sums(n, digits, base, N)
    BY <1>5, <1>6, Zenon DEF Sums
  <1> QED
    BY <1>13, <1>14

\* ByteSum adds up.
LEMMA ByteSumSums ==
    ASSUME NEW bytes, NEW N \in Nat, Len(bytes) = N,
           \A i \in 1..N : bytes[i] \in Nat
    PROVE  \E sum \in [0..N -> Nat] :
              /\ sum[0] = 0
              /\ \A i \in 1..N : sum[i] = sum[i - 1] + bytes[i]
              /\ ByteSum(bytes) = sum[N]
  <1> DEFINE e(f) == [i \in 0..N |->
                        IF i = 0 THEN 0 ELSE f[i - 1] + bytes[i]]
             g == CHOOSE f : f = e(f)
             step == [p \in (1..N) \X Nat |-> p[2] + bytes[p[1]]]
  <1>1. step \in [(1..N) \X Nat -> Nat]
    OBVIOUS
  <1>2. \A i \in 1..N, x \in Nat : step[<<i, x>>] = x + bytes[i]
    OBVIOUS
  <1> HIDE DEF step
  <1>3. PICK sum \in [0..N -> Nat] : Recurses(sum, N, 0, step)
    BY <1>1, Recursion
  <1>4. sum[0] = 0
    BY <1>3 DEF Recurses
  <1>5. ASSUME NEW i \in 1..N PROVE sum[i] = sum[i - 1] + bytes[i]
    <2>1. sum[i - 1] \in Nat /\ sum[i] = step[<<i, sum[i - 1]>>]
      BY <1>3 DEF Recurses
    <2> QED
      BY <1>2, <2>1
  <1>6. sum = e(sum)
    <2>1. ASSUME NEW i \in 0..N PROVE sum[i] = e(sum)[i]
      <3>1. CASE i = 0
        BY <1>4, <3>1
      <3>2. CASE i # 0
        <4>1. i \in 1..N
          BY <3>2
        <4>2. e(sum)[i] = sum[i - 1] + bytes[i]
          BY <3>2
        <4> QED
          BY <1>5, <4>1, <4>2
      <3> QED
        BY <3>1, <3>2
    <2> QED
      BY <2>1
  <1>7. g = e(g)
    BY <1>6
  <1>8. g[0] = 0
    <2>1. e(g)[0] = 0
      OBVIOUS
    <2> HIDE DEF e, g
    <2> QED
      BY <1>7, <2>1
  <1>9. ASSUME NEW i \in 1..N PROVE g[i] = g[i - 1] + bytes[i]
    <2>1. i \in 0..N /\ i # 0
      OBVIOUS
    <2> QED
      BY <1>7, <2>1
  <1>10. ByteSum(bytes) = g[N] 
    BY DEF ByteSum
  <1> HIDE DEF e, g
  <1>11. \A i \in 0..N : i \in {k \in 0..N : g[k] = sum[k]}
    <2> DEFINE S == {k \in 0..N : g[k] = sum[k]}
    <2>1. 0 \in S
      BY <1>4, <1>8
    <2>2. ASSUME NEW i \in 1..N, i - 1 \in S PROVE i \in S
      <3>1. i \in 0..N /\ g[i - 1] = sum[i - 1]
        BY <2>2
      <3>2. g[i] = sum[i]
        BY <1>5, <1>9, <3>1
      <3> QED
        BY <3>1, <3>2
    <2>3. \A i \in 1..N : i - 1 \in S => i \in S
      BY <2>2
    <2> HIDE DEF S
    <2>4. \A i \in 0..N : i \in S
      BY <2>1, <2>3, Induction
    <2> QED
      BY <2>4 DEF S
  <1>12. ByteSum(bytes) = sum[N]
    BY <1>10, <1>11
  <1> QED
    BY <1>4, <1>5, <1>12, Zenon

\* NibbleLimit multiplies.
LEMMA NibbleLimitPowers ==
    ASSUME NEW N \in Nat
    PROVE  \E limit \in [0..N -> Nat] :
              /\ limit[0] = 1
              /\ \A i \in 1..N : limit[i] = 16 * limit[i - 1]
              /\ NibbleLimit(N) = limit[N]
  <1> DEFINE e(f) == [i \in 0..N |->
                        IF i = 0 THEN 1 ELSE 16 * f[i - 1]]
             g == CHOOSE f : f = e(f)
             step == [p \in (1..N) \X Nat |-> 16 * p[2]]
  <1>1. step \in [(1..N) \X Nat -> Nat]
    OBVIOUS
  <1>2. \A i \in 1..N, x \in Nat : step[<<i, x>>] = 16 * x
    OBVIOUS
  <1> HIDE DEF step
  <1>3. PICK limit \in [0..N -> Nat] : Recurses(limit, N, 1, step)
    BY <1>1, Recursion
  <1>4. limit[0] = 1
    BY <1>3 DEF Recurses
  <1>5. ASSUME NEW i \in 1..N PROVE limit[i] = 16 * limit[i - 1]
    <2>1. limit[i - 1] \in Nat /\ limit[i] = step[<<i, limit[i - 1]>>]
      BY <1>3 DEF Recurses
    <2> QED
      BY <1>2, <2>1
  <1>6. limit = e(limit)
    <2>1. ASSUME NEW i \in 0..N PROVE limit[i] = e(limit)[i]
      <3>1. CASE i = 0
        BY <1>4, <3>1
      <3>2. CASE i # 0
        <4>1. i \in 1..N
          BY <3>2
        <4>2. e(limit)[i] = 16 * limit[i - 1]
          BY <3>2
        <4> QED
          BY <1>5, <4>1, <4>2
      <3> QED
        BY <3>1, <3>2
    <2> QED
      BY <2>1
  <1>7. g = e(g)
    BY <1>6
  <1>8. g[0] = 1
    <2>1. e(g)[0] = 1
      OBVIOUS
    <2> HIDE DEF e, g
    <2> QED
      BY <1>7, <2>1
  <1>9. ASSUME NEW i \in 1..N PROVE g[i] = 16 * g[i - 1]
    <2>1. i \in 0..N /\ i # 0
      OBVIOUS
    <2> QED
      BY <1>7, <2>1
  <1>10. NibbleLimit(N) = g[N] 
    BY DEF NibbleLimit
  <1> HIDE DEF e, g
  <1>11. \A i \in 0..N : i \in {k \in 0..N : g[k] = limit[k]}
    <2> DEFINE S == {k \in 0..N : g[k] = limit[k]}
    <2>1. 0 \in S
      BY <1>4, <1>8
    <2>2. ASSUME NEW i \in 1..N, i - 1 \in S PROVE i \in S
      <3>1. i \in 0..N /\ g[i - 1] = limit[i - 1]
        BY <2>2
      <3>2. g[i] = limit[i]
        BY <1>5, <1>9, <3>1
      <3> QED
        BY <3>1, <3>2
    <2>3. \A i \in 1..N : i - 1 \in S => i \in S
      BY <2>2
    <2> HIDE DEF S
    <2>4. \A i \in 0..N : i \in S
      BY <2>1, <2>3, Induction
    <2> QED
      BY <2>4 DEF S
  <1>12. NibbleLimit(N) = limit[N]
    BY <1>10, <1>11
  <1> QED
    BY <1>4, <1>5, <1>12, Zenon

Divides(left, num, base, N) ==
    /\ left[0] = num
    /\ \A i \in 1..N : left[i] = left[i - 1] \div base

\* Digits divides.
LEMMA DigitsLeft ==
    ASSUME NEW num \in Nat, NEW base \in Nat \ {0}, NEW N \in Nat
    PROVE  \E left \in [0..N -> Nat] :
              /\ Divides(left, num, base, N)
              /\ Digits(num, base, N) = [i \in 1..N |-> left[N - i] % base]
  <1> DEFINE e(f) == [i \in 0..N |->
                        IF i = 0 THEN num ELSE f[i - 1] \div base]
             g == CHOOSE f : f = e(f)
             step == [p \in (1..N) \X Nat |-> p[2] \div base]
  <1>1. step \in [(1..N) \X Nat -> Nat]
    OBVIOUS
  <1>2. \A i \in 1..N, x \in Nat : step[<<i, x>>] = x \div base
    OBVIOUS
  <1> HIDE DEF step
  <1>3. PICK left \in [0..N -> Nat] : Recurses(left, N, num, step)
    BY <1>1, Recursion
  <1>4. left[0] = num
    BY <1>3 DEF Recurses
  <1>5. ASSUME NEW i \in 1..N PROVE left[i] = left[i - 1] \div base
    <2>1. left[i - 1] \in Nat /\ left[i] = step[<<i, left[i - 1]>>]
      BY <1>3 DEF Recurses
    <2> QED
      BY <1>2, <2>1
  <1>6. left = e(left)
    <2>1. ASSUME NEW i \in 0..N PROVE left[i] = e(left)[i]
      <3>1. CASE i = 0
        BY <1>4, <3>1
      <3>2. CASE i # 0
        <4>1. i \in 1..N
          BY <3>2
        <4>2. e(left)[i] = left[i - 1] \div base
          BY <3>2
        <4> QED
          BY <1>5, <4>1, <4>2
      <3> QED
        BY <3>1, <3>2
    <2> QED
      BY <2>1
  <1>7. g = e(g)
    BY <1>6
  <1>8. g[0] = num
    <2>1. e(g)[0] = num
      OBVIOUS
    <2> HIDE DEF e, g
    <2> QED
      BY <1>7, <2>1
  <1>9. ASSUME NEW i \in 1..N PROVE g[i] = g[i - 1] \div base
    <2>1. i \in 0..N /\ i # 0
      OBVIOUS
    <2> QED
      BY <1>7, <2>1
  <1>10. Digits(num, base, N) = [i \in 1..N |-> g[N - i] % base] 
    BY DEF Digits
  <1> HIDE DEF e, g
  <1>11. \A i \in 0..N : i \in {k \in 0..N : g[k] = left[k]}
    <2> DEFINE S == {k \in 0..N : g[k] = left[k]}
    <2>1. 0 \in S
      BY <1>4, <1>8
    <2>2. ASSUME NEW i \in 1..N, i - 1 \in S PROVE i \in S
      <3>1. i \in 0..N /\ g[i - 1] = left[i - 1]
        BY <2>2
      <3>2. g[i] = left[i]
        BY <1>5, <1>9, <3>1
      <3> QED
        BY <3>1, <3>2
    <2>3. \A i \in 1..N : i - 1 \in S => i \in S
      BY <2>2
    <2> HIDE DEF S
    <2>4. \A i \in 0..N : i \in S
      BY <2>1, <2>3, Induction
    <2> QED
      BY <2>4 DEF S
  <1>12. Digits(num, base, N) = [i \in 1..N |-> left[N - i] % base]
    BY <1>10, <1>11
  <1>13. Divides(left, num, base, N)
    BY <1>4, <1>5, Zenon DEF Divides
  <1> QED
    BY <1>12, <1>13

\* A nibble has no higher bits to mask.
LEMMA Modulo16 ==
    \A x \in 0..15 : x % 16 = x
  OBVIOUS

\* The nibbles of a value that fits them give the value back.
THEOREM NibblesBack ==
    ASSUME NEW v \in Nat, NEW w \in Nat \ {0}, v < NibbleLimit(w)
    PROVE  /\ PackNibbles(v, w) \in [1..w -> 0..15]
           /\ UnpackNibbles(PackNibbles(v, w)) = v
  <1> DEFINE p == PackNibbles(v, w)
             d == [i \in DOMAIN p |-> p[i] % 16]
  <1>1. PICK left \in [0..w -> Nat] :
            /\ left[0] = v
            /\ \A i \in 1..w : left[i] = left[i - 1] \div 16
            /\ Digits(v, 16, w) = [i \in 1..w |-> left[w - i] % 16]
    <2>1. 16 \in Nat \ {0} /\ w \in Nat
      OBVIOUS
    <2>2. PICK left \in [0..w -> Nat] :
            /\ Divides(left, v, 16, w)
            /\ Digits(v, 16, w) = [i \in 1..w |-> left[w - i] % 16]
      BY <2>1, DigitsLeft
    <2> QED
      BY <2>2 DEF Divides
  <1>2. PICK limit \in [0..w -> Nat] :
            /\ limit[0] = 1
            /\ \A i \in 1..w : limit[i] = 16 * limit[i - 1]
            /\ NibbleLimit(w) = limit[w]
    BY NibbleLimitPowers
  <1>3. p = [i \in 1..w |-> left[w - i] % 16]
    BY <1>1 DEF PackNibbles
  <1>4. \A i \in 1..w : left[w - i] \in Nat /\ left[w - i] % 16 \in 0..15
    <2>1. ASSUME NEW i \in 1..w PROVE left[w - i] \in Nat
      <3>1. w - i \in 0..w
        OBVIOUS
      <3> QED
        BY <1>1, <3>1
    <2>2. \A x \in Nat : x % 16 \in 0..15
      OBVIOUS
    <2> QED
      BY <2>1, <2>2
  <1>5. p \in [1..w -> 0..15]
    BY <1>3, <1>4
  <1>6. d = p
    <2> HIDE DEF p
    <2> QED
      BY <1>5, Modulo16
  <1>7. Len(d) = w /\ \A i \in 1..w : d[i] \in Nat /\ d[i] = left[w - i] % 16
    <2> HIDE DEF p, d
    <2> QED
      BY <1>3, <1>4, <1>5, <1>6
  <1> HIDE DEF p, d
  <1>8. PICK n \in [0..w -> Nat] :
            /\ n[0] = 0
            /\ \A i \in 1..w : n[i] = 16 * n[i - 1] + d[i]
            /\ FromDigits(d, 16) = n[w]
    <2>1. 16 \in Nat /\ w \in Nat /\ Len(d) = w
      BY <1>7
    <2>2. \A i \in 1..w : d[i] \in Nat
      BY <1>7
    <2>3. PICK n \in [0..w -> Nat] :
            Sums(n, d, 16, w) /\ FromDigits(d, 16) = n[w]
      BY <2>1, <2>2, FromDigitsSums
    <2> QED
      BY <2>3 DEF Sums
  <1>9. left[w] = 0
    <2> DEFINE S == {i \in 0..w : left[i] < limit[w - i]}
    <2>1. 0 \in S
      BY <1>1, <1>2
    <2>2. ASSUME NEW i \in 1..w, i - 1 \in S PROVE i \in S
      <3>1. left[i - 1] < limit[w - (i - 1)]
        BY <2>2
      <3>2. /\ w - i \in 0..w
            /\ w - (i - 1) \in 1..w
            /\ (w - (i - 1)) - 1 = w - i
            /\ i \in 0..w /\ i - 1 \in 0..w
        OBVIOUS
      <3>3. limit[w - (i - 1)] = 16 * limit[w - i]
        BY <1>2, <3>2
      <3>4. left[i] = left[i - 1] \div 16
        BY <1>1
      <3>5. left[i - 1] \in Nat /\ limit[w - i] \in Nat
        BY <1>1, <1>2, <3>2
      <3>6. \A x, y \in Nat : x < 16 * y => x \div 16 < y
        OBVIOUS
      <3>7. left[i] < limit[w - i]
        BY <3>1, <3>3, <3>4, <3>5, <3>6
      <3> QED
        BY <3>2, <3>7
    <2>3. \A i \in 1..w : i - 1 \in S => i \in S
      BY <2>2
    <2> HIDE DEF S
    <2>4. \A i \in 0..w : i \in S
      BY <2>1, <2>3, Induction
    <2>5. left[w] < limit[0] /\ left[w] \in Nat
      <3>1. w \in 0..w /\ w - w = 0
        OBVIOUS
      <3> QED
        BY <1>1, <2>4, <3>1 DEF S
    <2> QED
      BY <1>1, <1>2, <2>5
  <1>10. n[w] = v
    <2> DEFINE S == {i \in 0..w : n[i] = left[w - i]}
    <2>1. 0 \in S
      BY <1>8, <1>9
    <2>2. ASSUME NEW i \in 1..w, i - 1 \in S PROVE i \in S
      <3>1. n[i - 1] = left[w - (i - 1)]
        BY <2>2
      <3>2. /\ w - i \in 0..w
            /\ w - (i - 1) \in 1..w
            /\ (w - (i - 1)) - 1 = w - i
            /\ i \in 0..w
        OBVIOUS
      <3>3. left[w - (i - 1)] = left[w - i] \div 16
        BY <1>1, <3>2
      <3>4. n[i] = 16 * n[i - 1] + (left[w - i] % 16)
        BY <1>7, <1>8
      <3>5. left[w - i] \in Nat
        BY <1>1, <3>2
      <3>6. \A x \in Nat : 16 * (x \div 16) + (x % 16) = x
        OBVIOUS
      <3>7. n[i] = left[w - i]
        BY <3>1, <3>3, <3>4, <3>5, <3>6
      <3> QED
        BY <3>2, <3>7
    <2>3. \A i \in 1..w : i - 1 \in S => i \in S
      BY <2>2
    <2> HIDE DEF S
    <2>4. \A i \in 0..w : i \in S
      BY <2>1, <2>3, Induction
    <2>5. n[w] = left[w - w] /\ w - w = 0
      BY <2>4 DEF S
    <2> QED
      BY <1>1, <2>5
  <1>11. UnpackNibbles(p) = FromDigits(d, 16)
    BY DEF UnpackNibbles, d
  <1> QED
    BY <1>5, <1>8, <1>10, <1>11 DEF p

-----------------------------------------------------------------------------
(* Addresses                                                               *)

\* FromDigits has such sums.
HasSums(digits, base, N) ==
    \E n \in [0..N -> Nat] :
        Sums(n, digits, base, N) /\ FromDigits(digits, base) = n[N]

\* The same, so that it can be cited of a few bytes.
LEMMA SumsExist ==
    ASSUME NEW digits, NEW N \in Nat, Len(digits) = N, NEW base \in Nat,
           \A i \in 1..N : digits[i] \in Nat
    PROVE  HasSums(digits, base, N)
  BY FromDigitsSums DEF HasSums

\* The four bytes of a section's address as a number.
LEMMA Bytes4 ==
    ASSUME NEW d, Len(d) = 4, \A i \in 1..4 : d[i] \in Nat
    PROVE  BytesToInt(d) = 256 * (256 * (256 * d[1] + d[2]) + d[3]) + d[4]
  <1>1. PICK N \in Nat, base \in Nat : N = 4 /\ base = 256
    OBVIOUS
  <1>2. PICK n \in [0..N -> Nat] : Sums(n, d, base, N) /\ FromDigits(d, base) = n[N]
    <2>1. N \in Nat /\ base \in Nat /\ Len(d) = N
      BY <1>1
    <2>2. \A i \in 1..N : d[i] \in Nat
      BY <1>1
    <2>3. HasSums(d, base, N)
      BY <2>1, <2>2, SumsExist
    <2> QED
      BY <2>3 DEF HasSums
  <1>3. /\ n[0] = 0
        /\ n[1] = 256 * n[0] + d[1]
        /\ n[2] = 256 * n[1] + d[2]
        /\ n[3] = 256 * n[2] + d[3]
        /\ n[4] = 256 * n[3] + d[4]
    BY <1>1, <1>2 DEF Sums
  <1>4. d[1] \in Nat /\ d[2] \in Nat /\ d[3] \in Nat /\ d[4] \in Nat
    OBVIOUS
  <1>5. n[4] = 256 * (256 * (256 * d[1] + d[2]) + d[3]) + d[4]
    BY <1>3, <1>4
  <1> QED
    BY <1>1, <1>2, <1>5 DEF BytesToInt

\* The three bytes of an option's address.
LEMMA Bytes3 ==
    ASSUME NEW d, Len(d) = 3, \A i \in 1..3 : d[i] \in Nat
    PROVE  BytesToInt(d) = 256 * (256 * d[1] + d[2]) + d[3]
  <1>1. PICK N \in Nat, base \in Nat : N = 3 /\ base = 256
    OBVIOUS
  <1>2. PICK n \in [0..N -> Nat] : Sums(n, d, base, N) /\ FromDigits(d, base) = n[N]
    <2>1. N \in Nat /\ base \in Nat /\ Len(d) = N
      BY <1>1
    <2>2. \A i \in 1..N : d[i] \in Nat
      BY <1>1
    <2>3. HasSums(d, base, N)
      BY <2>1, <2>2, SumsExist
    <2> QED
      BY <2>3 DEF HasSums
  <1>3. /\ n[0] = 0
        /\ n[1] = 256 * n[0] + d[1]
        /\ n[2] = 256 * n[1] + d[2]
        /\ n[3] = 256 * n[2] + d[3]
    BY <1>1, <1>2 DEF Sums
  <1>4. d[1] \in Nat /\ d[2] \in Nat /\ d[3] \in Nat
    OBVIOUS
  <1>5. n[3] = 256 * (256 * d[1] + d[2]) + d[3]
    BY <1>3, <1>4
  <1> QED
    BY <1>1, <1>2, <1>5 DEF BytesToInt

\* The two bytes of a setting's offset.
LEMMA Bytes2 ==
    ASSUME NEW d, Len(d) = 2, \A i \in 1..2 : d[i] \in Nat
    PROVE  BytesToInt(d) = 256 * d[1] + d[2]
  <1>1. PICK N \in Nat, base \in Nat : N = 2 /\ base = 256
    OBVIOUS
  <1>2. PICK n \in [0..N -> Nat] : Sums(n, d, base, N) /\ FromDigits(d, base) = n[N]
    <2>1. N \in Nat /\ base \in Nat /\ Len(d) = N
      BY <1>1
    <2>2. \A i \in 1..N : d[i] \in Nat
      BY <1>1
    <2>3. HasSums(d, base, N)
      BY <2>1, <2>2, SumsExist
    <2> QED
      BY <2>3 DEF HasSums
  <1>3. /\ n[0] = 0
        /\ n[1] = 256 * n[0] + d[1]
        /\ n[2] = 256 * n[1] + d[2]
    BY <1>1, <1>2 DEF Sums
  <1>4. d[1] \in Nat /\ d[2] \in Nat
    OBVIOUS
  <1>5. n[2] = 256 * d[1] + d[2]
    BY <1>3, <1>4
  <1> QED
    BY <1>1, <1>2, <1>5 DEF BytesToInt

\* The remainders of repeated division are the digits.
HasDigits(num, base, N) ==
    \E left \in [0..N -> Nat] :
        /\ Divides(left, num, base, N)
        /\ Digits(num, base, N) = [i \in 1..N |-> left[N - i] % base]

\* Digits has such remainders.
LEMMA DigitsExist ==
    ASSUME NEW x \in Nat, NEW base \in Nat \ {0}, NEW N \in Nat
    PROVE  HasDigits(x, base, N)
  BY DigitsLeft DEF HasDigits

\* Quotient and remainder of a byte position.
LEMMA Quotient ==
    ASSUME NEW x \in Nat, NEW q \in Nat, NEW r \in 0..255, x = 256 * q + r
    PROVE  x \div 256 = q /\ x % 256 = r
  OBVIOUS

\* The sum of the addresses of a section, an option and a setting is the
\* address made of their bytes.
LEMMA AddressSum ==
    ASSUME NEW hi \in 1..127, NEW lo \in 0..127, NEW mid \in 0..127,
           NEW low \in 0..127
    PROVE  AddressBytes(BytesToInt(<<hi, lo, 0, 0>>) + BytesToInt(<<0, mid, 0>>)
                          + BytesToInt(<<0, low>>))
             = <<hi, lo, mid, low>>
  <1> DEFINE q1 == hi
             q2 == 256 * q1 + lo
             q3 == 256 * q2 + mid
             sum == 256 * q3 + low
  <1> DEFINE section == <<hi, lo, 0, 0>>
             option == <<0, mid, 0>>
             setting == <<0, low>>
  <1>1. BytesToInt(section) = 256 * (256 * (256 * hi + lo))
    <2>1. /\ Len(section) = 4
          /\ section[1] = hi /\ section[2] = lo /\ section[3] = 0 /\ section[4] = 0
      OBVIOUS
    <2> HIDE DEF section
    <2>2. \A i \in 1..4 : section[i] \in Nat
      BY <2>1
    <2> QED
      BY <2>1, <2>2, Bytes4
  <1>2. BytesToInt(option) = 256 * mid
    <2>1. Len(option) = 3 /\ option[1] = 0 /\ option[2] = mid /\ option[3] = 0
      OBVIOUS
    <2> HIDE DEF option
    <2>2. \A i \in 1..3 : option[i] \in Nat
      BY <2>1
    <2> QED
      BY <2>1, <2>2, Bytes3
  <1>3. BytesToInt(setting) = low
    <2>1. Len(setting) = 2 /\ setting[1] = 0 /\ setting[2] = low
      OBVIOUS
    <2> HIDE DEF setting
    <2>2. \A i \in 1..2 : setting[i] \in Nat
      BY <2>1
    <2> QED
      BY <2>1, <2>2, Bytes2
  <1> HIDE DEF section, option, setting
  <1>4. BytesToInt(section) + BytesToInt(option) + BytesToInt(setting) = sum
    <2>1. 256 * (256 * (256 * hi + lo)) + 256 * mid + low = sum
      OBVIOUS
    <2> HIDE DEF sum
    <2> QED
      BY <1>1, <1>2, <1>3, <2>1
  <1>5. sum \in Nat
    OBVIOUS
  <1>5a. sum >= 16777216
    BY SMT
  <1>6. PICK left \in [0..4 -> Nat] :
            /\ Divides(left, sum, 256, 4)
            /\ Digits(sum, 256, 4) = [i \in 1..4 |-> left[4 - i] % 256]
    <2> HIDE DEF sum
    <2>1. HasDigits(sum, 256, 4)
      <3>1. 4 \in Nat /\ 256 \in Nat \ {0}
        OBVIOUS
      <3> QED
        BY <1>5, <3>1, DigitsExist
    <2> QED
      BY <2>1 DEF HasDigits
  <1>7. /\ left[0] = sum
        /\ left[1] = left[0] \div 256
        /\ left[2] = left[1] \div 256
        /\ left[3] = left[2] \div 256
    <2> HIDE DEF sum
    <2> QED
      BY <1>6 DEF Divides
  <1>8. /\ q1 \in Nat /\ q2 \in Nat /\ q3 \in Nat
        /\ lo \in 0..255 /\ mid \in 0..255 /\ low \in 0..255
    OBVIOUS
  <1>9. sum = 256 * q3 + low /\ q3 = 256 * q2 + mid /\ q2 = 256 * q1 + lo
    OBVIOUS
  <1>10. q1 % 256 = hi
    OBVIOUS
  <1> HIDE DEF sum, q1, q2, q3
  <1>11. sum \div 256 = q3 /\ sum % 256 = low
    BY <1>5, <1>8, <1>9, Quotient, SMT
  <1>12. /\ q3 \div 256 = q2 /\ q3 % 256 = mid
         /\ q2 \div 256 = q1 /\ q2 % 256 = lo
    BY <1>5, <1>8, <1>9, Quotient, SMT
  <1>13. /\ left[0] % 256 = low
         /\ left[1] % 256 = mid
         /\ left[2] % 256 = lo
         /\ left[3] % 256 = hi
    BY <1>7, <1>10, <1>11, <1>12
  <1>14. Digits(sum, 256, 4) = <<hi, lo, mid, low>>
    <2> DEFINE d == [i \in 1..4 |-> left[4 - i] % 256]
    <2>1. d[1] = hi /\ d[2] = lo /\ d[3] = mid /\ d[4] = low
      BY <1>13
    <2>2. d = <<d[1], d[2], d[3], d[4]>>
      OBVIOUS
    <2> HIDE DEF d
    <2> QED
      BY <1>6, <2>1, <2>2 DEF d
  <1>15. ~ (sum < 256) /\ ~ (sum < 65536) /\ ~ (sum < 16777216)
    BY <1>5, <1>5a, SMT
  <1>16. AddressBytes(sum) = Digits(sum, 256, 4)
    BY <1>15, SMT DEF AddressBytes
  <1> QED
    BY <1>4, <1>14, <1>16 DEF section, option, setting

-----------------------------------------------------------------------------
(* Where a setting lives                                                   *)

Bytes(s) == ValueBytes(Entry(s), s)
W(s) == Width(Entry(s))

\* The place of a setting in the tables: the bytes of its address and its
\* positions among the options and the entries.
Placed(s, hi, lo, mid, low, o, e) ==
    /\ BaseAddresses[Section(s)].address = <<hi, lo, 0, 0>>
    /\ SectionsAt(<<hi, lo>>) = {Section(s)}
    /\ o \in DOMAIN OptionsOf(s)
    /\ OptionsOf(s)[o].key = Option(s)
    /\ \A j \in DOMAIN OptionsOf(s) \ {o} : OptionsOf(s)[j].address[2] # mid
    /\ OptionsOf(s)[o].address = <<0, mid, 0>>
    /\ OptionEntry(Section(s), Option(s)) = OptionsOf(s)[o]
    /\ e \in DOMAIN EntriesOf(s)
    /\ EntriesOf(s)[e].setting = s.setting
    /\ EntriesOf(s)[e].offset = <<0, low>>
    /\ low + W(s) <= 128
    /\ \A j \in DOMAIN EntriesOf(s) \ {e} :
          /\ EntriesOf(s)[j].setting # s.setting
          /\ EntriesOf(s)[j].bytes \in Nat \ {0}
          /\ \/ EntriesOf(s)[j].offset[2] >= low + W(s)
             \/ EntriesOf(s)[j].offset[2] + EntriesOf(s)[j].bytes <= low
    /\ Entry(s) = EntriesOf(s)[e]
    /\ Address(s) = <<hi, lo, mid, low>>

\* A name that one entry has is found there.
LEMMA NamedOne ==
    ASSUME NEW entries, NEW field, NEW name, NEW i \in DOMAIN entries,
           entries[i][field] = name,
           \A j \in DOMAIN entries \ {i} : entries[j][field] # name
    PROVE  Named(entries, field, name) = entries[i]
  <1> DEFINE where == {j \in DOMAIN entries : entries[j][field] = name}
  <1>1. where = {i}
    OBVIOUS
  <1> HIDE DEF where
  <1>2. (CHOOSE j \in where : TRUE) = i
    BY <1>1
  <1> QED
    BY <1>1, <1>2 DEF Named, where

\* Every setting has its place.
LEMMA Place ==
    ASSUME NEW s \in Settings
    PROVE  \E hi \in 1..127, lo, mid, low \in 0..127,
              o \in DOMAIN OptionsOf(s), e \in DOMAIN EntriesOf(s) :
              Placed(s, hi, lo, mid, low, o, e)
  <1>1. PICK hi \in 1..127, lo \in 0..127 :
            /\ BaseAddresses[Section(s)].address = <<hi, lo, 0, 0>>
            /\ SectionsAt(<<hi, lo>>) = {Section(s)}
    BY TablesAssumption
  <1>2. PICK mid \in 0..127, o \in DOMAIN OptionsOf(s) :
            /\ OptionsOf(s)[o].key = Option(s)
            /\ OptionsOf(s)[o].address = <<0, mid, 0>>
            /\ \A j \in DOMAIN OptionsOf(s) \ {o} :
                  /\ OptionsOf(s)[j].key # Option(s)
                  /\ OptionsOf(s)[j].address[2] # mid
    BY TablesAssumption
  <1>3. PICK low \in 0..127, e \in DOMAIN EntriesOf(s) :
            /\ EntriesOf(s)[e].setting = s.setting
            /\ EntriesOf(s)[e].offset = <<0, low>>
            /\ low + EntriesOf(s)[e].bytes <= 128
            /\ \A j \in DOMAIN EntriesOf(s) \ {e} :
                  /\ EntriesOf(s)[j].setting # s.setting
                  /\ EntriesOf(s)[j].bytes \in Nat \ {0}
                  /\ \/ EntriesOf(s)[j].offset[2] >= low + EntriesOf(s)[e].bytes
                     \/ EntriesOf(s)[j].offset[2] + EntriesOf(s)[j].bytes <= low
    BY TablesAssumption
  <1>4. OptionEntry(Section(s), Option(s)) = OptionsOf(s)[o]
    <2>1. \A j \in DOMAIN OptionsOf(s) : OptionsOf(s)[j]["key"] = OptionsOf(s)[j].key
      OBVIOUS
    <2>2. Named(OptionsOf(s), "key", Option(s)) = OptionsOf(s)[o]
      BY <1>2, <2>1, NamedOne
    <2> QED
      BY <2>2 DEF OptionEntry, OptionsOf
  <1>5. Entry(s) = EntriesOf(s)[e]
    <2>1. Entry(s) = SettingEntry(Section(s), Option(s), s.setting)
      BY DEF Entry, BlockEntry, Section, Option
    <2>2. OptionEntry(Section(s), Option(s)) # None
      BY EntriesAssumption
    <2>3. SettingEntry(Section(s), Option(s), s.setting)
            = Named(EntriesOf(s), "setting", s.setting)
      BY <2>2 DEF SettingEntry, EntriesOf
    <2>4. Named(EntriesOf(s), "setting", s.setting) = EntriesOf(s)[e]
      BY <1>3, NamedOne
    <2> QED
      BY <2>1, <2>3, <2>4
  <1>6. Address(s) = <<hi, lo, mid, low>>
    <2>1. Entry(s) = SettingEntry(Section(s), Option(s), s.setting)
      BY DEF Entry, BlockEntry, Section, Option
    <2>2. Entry(s) # None
      BY EntriesAssumption
    <2>3. Address(s) = AddressFor(Section(s), Option(s), s.setting)
      BY DEF Address, BlockAddress, Section, Option
    <2>4. Address(s) = AddressBytes(BytesToInt(<<hi, lo, 0, 0>>)
                         + BytesToInt(<<0, mid, 0>>) + BytesToInt(<<0, low>>))
      BY <1>1, <1>2, <1>3, <1>4, <1>5, <2>1, <2>2, <2>3, Zenon DEF AddressFor
    <2> QED
      BY <2>4, AddressSum
  <1>7. W(s) = EntriesOf(s)[e].bytes
    BY <1>5 DEF W, Width
  <1>8. Placed(s, hi, lo, mid, low, o, e)
    BY <1>1, <1>2, <1>3, <1>4, <1>5, <1>6, <1>7 DEF Placed
  <1> QED
    BY <1>8

-----------------------------------------------------------------------------
(* What a setting is written as and read as                                *)

\* What data reads as for a setting.
Raw(s, data) ==
    IF W(s) > 1 THEN UnpackNibbles(SubSeq(data, 1, W(s))) ELSE data[1]

\* A value has at least one byte, and at most those after its address.
LEMMA Widths ==
    ASSUME NEW s \in Settings
    PROVE  W(s) \in 1..128
  <1>1. PICK hi \in 1..127, lo \in 0..127, mid \in 0..127, low \in 0..127,
             o \in DOMAIN OptionsOf(s), e \in DOMAIN EntriesOf(s) :
               Placed(s, hi, lo, mid, low, o, e)
    BY Place
  <1>2. low + W(s) <= 128
    BY <1>1 DEF Placed
  <1>3. W(s) \in Nat \ {0}
    BY ValuesAssumption DEF W
  <1> QED
    BY <1>1, <1>2, <1>3

\* The bytes a value is written as are data bytes, and read as the value.
LEMMA ReadBack ==
    ASSUME NEW s \in Settings
    PROVE  /\ Bytes(s) \in [1..W(s) -> 0..127]
           /\ Raw(s, Bytes(s)) = s.raw
  <1>1. W(s) \in 1..128 /\ s.raw \in Nat
    BY Widths, ValuesAssumption
  <1>2. (IF s.label \in DOMAIN Entry(s).values
         THEN Entry(s).values[s.label] ELSE s.raw) = s.raw
    BY SettingsAssumption
  <1>3. Bytes(s) = IF W(s) > 1 THEN PackNibbles(s.raw, W(s)) ELSE <<s.raw>>
    BY <1>2 DEF Bytes, ValueBytes, W
  <1>4. CASE W(s) > 1
    <2>1. s.raw < NibbleLimit(W(s))
      BY <1>1, <1>4, ValuesAssumption DEF W
    <2>2. Bytes(s) = PackNibbles(s.raw, W(s))
      BY <1>3, <1>4
    <2>3. W(s) \in Nat \ {0} /\ s.raw \in Nat
      BY <1>1
    <2>4. /\ PackNibbles(s.raw, W(s)) \in [1..W(s) -> 0..15]
          /\ UnpackNibbles(PackNibbles(s.raw, W(s))) = s.raw
      BY <2>1, <2>3, NibblesBack
    <2>5. Bytes(s) \in [1..W(s) -> 0..15]
      BY <2>2, <2>4
    <2>6. SubSeq(Bytes(s), 1, W(s)) = Bytes(s)
      BY <2>3, <2>5
    <2>7. Raw(s, Bytes(s)) = s.raw
      BY <1>4, <2>2, <2>4, <2>6 DEF Raw
    <2> QED
      BY <2>5, <2>7
  <1>5. CASE ~ (W(s) > 1)
    <2>1. W(s) = 1
      BY <1>1, <1>5
    <2>2. s.raw < 128
      BY <2>1, ValuesAssumption DEF W
    <2>3. Bytes(s) = <<s.raw>>
      BY <1>3, <1>5
    <2>4. Bytes(s) \in [1..W(s) -> 0..127]
      BY <1>1, <2>1, <2>2, <2>3
    <2>5. Raw(s, Bytes(s)) = s.raw
      BY <1>5, <2>3 DEF Raw
    <2> QED
      BY <2>4, <2>5
  <1> QED
    BY <1>4, <1>5

\* The address of a value's i-th byte.
LEMMA Cells ==
    ASSUME NEW hi, NEW lo, NEW mid, NEW low \in Nat, NEW i \in Nat
    PROVE  Cell(<<hi, lo, mid, low>>, i) = <<hi, lo, mid, low + i - 1>>
  BY DEF Cell

\* Settings of one option are of one block and one effect.
LEMMA Ids ==
    ASSUME NEW s \in Settings, NEW t \in Settings, Option(s) = Option(t)
    PROVE  s.fx_type = t.fx_type /\ s.n = t.n /\ s.fx_name = t.fx_name
  <1> DEFINE suffix(x) == IF x.fx_name = None THEN NoSuffix
                          ELSE TableSuffix[x.fx_name]
  <1>1. ASSUME NEW x \in Settings
        PROVE  Option(x) = Key(x.fx_type, NormalizedId(x.fx_type, x.n), suffix(x))
    BY DEF Option, BlockSectionOption
  <1>2. /\ s.fx_type = t.fx_type
        /\ NormalizedId(s.fx_type, s.n) = NormalizedId(t.fx_type, t.n)
        /\ suffix(s) = suffix(t)
    <2> HIDE DEF suffix
    <2>1. Key(s.fx_type, NormalizedId(s.fx_type, s.n), suffix(s))
            = Key(t.fx_type, NormalizedId(t.fx_type, t.n), suffix(t))
      BY <1>1
    <2> QED
      BY <2>1 DEF Key
  <1>3. s.fx_name = t.fx_name
    <2>1. /\ s.fx_name \in DOMAIN TableSuffix \cup {None}
          /\ t.fx_name \in DOMAIN TableSuffix \cup {None}
      BY SettingsAssumption
    <2> QED
      BY <1>2, <2>1, SuffixesAssumption
  <1>4. s.n = t.n
    <2>1. /\ s.n \in 1..FxBlockCount(s.fx_type)
          /\ s.n \in 1..(IF s.fx_type = "preamp" THEN 2 ELSE 4)
          /\ t.n \in 1..FxBlockCount(s.fx_type)
          /\ t.n \in 1..(IF s.fx_type = "preamp" THEN 2 ELSE 4)
      BY <1>2, SettingsAssumption
    <2>2. NormalizedId(s.fx_type, s.n) = NormalizedId(s.fx_type, t.n)
      BY <1>2
    <2>3. CASE FxBlockCount(s.fx_type) = 1
      BY <2>1, <2>3
    <2>4. CASE FxBlockCount(s.fx_type) # 1 /\ s.fx_type = "preamp"
      <3>1. <<"A", "B">>[s.n] = <<"A", "B">>[t.n]
        BY <2>2, <2>4 DEF NormalizedId
      <3>2. s.n \in {1, 2} /\ t.n \in {1, 2}
        BY <2>1, <2>4
      <3> QED
        BY <3>1, <3>2
    <2>5. CASE FxBlockCount(s.fx_type) # 1 /\ s.fx_type # "preamp"
      <3>1. <<"1", "2", "3", "4">>[s.n] = <<"1", "2", "3", "4">>[t.n]
        BY <2>2, <2>5 DEF NormalizedId
      <3>2. s.n \in {1, 2, 3, 4} /\ t.n \in {1, 2, 3, 4}
        BY <2>1, <2>5
      <3> QED
        BY <3>1, <3>2
    <2> QED
      BY <2>3, <2>4, <2>5
  <1> QED
    BY <1>2, <1>3, <1>4

\* Settings that differ share no byte of the unit's memory.
THEOREM Apart ==
    ASSUME NEW s \in Settings, NEW t \in Settings, ~SameSetting(s, t),
           NEW i \in 1..W(s), NEW j \in 1..W(t)
    PROVE  Cell(Address(s), i) # Cell(Address(t), j)
  <1>1. PICK hi \in 1..127, lo \in 0..127, mid \in 0..127, low \in 0..127,
             o \in DOMAIN OptionsOf(s), e \in DOMAIN EntriesOf(s) :
               Placed(s, hi, lo, mid, low, o, e)
    BY Place
  <1>2. PICK hi2 \in 1..127, lo2 \in 0..127, mid2 \in 0..127, low2 \in 0..127,
             o2 \in DOMAIN OptionsOf(t), e2 \in DOMAIN EntriesOf(t) :
               Placed(t, hi2, lo2, mid2, low2, o2, e2)
    BY Place
  <1>3. i \in Nat /\ j \in Nat /\ W(s) \in Nat /\ W(t) \in Nat
        /\ i <= W(s) /\ j <= W(t) /\ i >= 1 /\ j >= 1
    BY Widths
  <1>4. SUFFICES ASSUME Cell(Address(s), i) = Cell(Address(t), j) PROVE FALSE
    OBVIOUS
  <1>5. /\ Address(s) = <<hi, lo, mid, low>>
        /\ Address(t) = <<hi2, lo2, mid2, low2>>
    BY <1>1, <1>2 DEF Placed
  <1>6. <<hi, lo, mid, low + i - 1>> = <<hi2, lo2, mid2, low2 + j - 1>>
    <2>1. low \in Nat /\ low2 \in Nat /\ i \in Nat /\ j \in Nat
      BY <1>1, <1>2, <1>3
    <2>2. Cell(<<hi, lo, mid, low>>, i) = <<hi, lo, mid, low + i - 1>>
      BY <2>1, Cells
    <2>3. Cell(<<hi2, lo2, mid2, low2>>, j) = <<hi2, lo2, mid2, low2 + j - 1>>
      BY <2>1, Cells
    <2> QED
      BY <1>4, <1>5, <2>2, <2>3
  <1>7. hi = hi2 /\ lo = lo2 /\ mid = mid2 /\ low + i - 1 = low2 + j - 1
    BY <1>6
  <1>8. Section(s) = Section(t)
    BY <1>1, <1>2, <1>7 DEF Placed
  <1>9. OptionsOf(s) = OptionsOf(t)
    BY <1>8 DEF OptionsOf
  <1>10. o = o2
    <2>1. OptionsOf(s)[o2].address[2] = mid2
      BY <1>2, <1>9 DEF Placed
    <2> QED
      BY <1>1, <1>2, <1>7, <1>9, <2>1 DEF Placed
  <1>11. Option(s) = Option(t)
    BY <1>1, <1>2, <1>9, <1>10 DEF Placed
  <1>12. s.setting # t.setting
    BY <1>11, Ids DEF SameSetting
  <1>13. EntriesOf(s) = EntriesOf(t)
    BY <1>8, <1>11 DEF EntriesOf
  <1>14. e # e2
    BY <1>1, <1>2, <1>12, <1>13 DEF Placed
  <1>15. /\ EntriesOf(s)[e2].offset[2] = low2
         /\ EntriesOf(s)[e2].bytes = W(t)
    BY <1>2, <1>13 DEF Placed, W, Width
  <1>16. low2 >= low + W(s) \/ low2 + W(t) <= low
    BY <1>1, <1>2, <1>13, <1>14, <1>15 DEF Placed
  <1> QED
    BY <1>3, <1>7, <1>16

\* The last entry with a key that no other has is that entry.
LEMMA LastAtOne ==
    ASSUME NEW keys, DOMAIN keys \subseteq Nat, NEW i \in DOMAIN keys,
           \A j \in DOMAIN keys \ {i} : keys[j] # keys[i]
    PROVE  LastAt(keys, keys[i]) = i
  <1>1. \A k \in DOMAIN keys :
           (keys[k] = keys[i] /\ \A j \in DOMAIN keys : keys[j] = keys[i] => j <= k)
             <=> k = i
    OBVIOUS
  <1> QED
    BY <1>1 DEF LastAt

\* A prefix, element by element.
LEMMA SubSeqOne ==
    ASSUME NEW q, NEW n \in Nat
    PROVE  SubSeq(q, 1, n) = [i \in 1..n |-> q[i]]
  OBVIOUS

\* The two most significant bytes of an address.
LEMMA FirstTwo ==
    ASSUME NEW v1, NEW v2, NEW v3, NEW v4
    PROVE  SubSeq(<<v1, v2, v3, v4>>, 1, 2) = <<v1, v2>>
  <1> DEFINE q == <<v1, v2, v3, v4>>
             r == SubSeq(q, 1, 2)
  <1>1. q[1] = v1 /\ q[2] = v2
    OBVIOUS
  <1>2. r = [i \in 1..2 |-> q[i]]
    <2> HIDE DEF q
    <2> QED
      BY Zenon, SubSeqOne DEF r
  <1>3. [i \in 1..2 |-> q[i]] = <<q[1], q[2]>>
    <2> HIDE DEF q
    <2> QED
      OBVIOUS
  <1>4. r = <<v1, v2>>
    <2> HIDE DEF q, r
    <2> QED
      BY <1>1, <1>2, <1>3, Zenon
  <1> QED
    BY <1>4

\* decode finds the entry a setting's address was made of.
LEMMA DecodeFinds ==
    ASSUME NEW s \in Settings, NEW data
    PROVE  Decode(Address(s), data) =
             [fx_type |-> IF Option(s).type \in FxTypes THEN Option(s).type ELSE None,
              number |-> DecodedNumber(Option(s)),
              fx_name |-> SuffixName(Option(s).suffix),
              setting |-> s.setting,
              label |-> LabelForRaw(Entry(s).values, Raw(s, data)),
              raw |-> Raw(s, data)]
  <1>1. PICK hi \in 1..127, lo \in 0..127, mid \in 0..127, low \in 0..127,
             o \in DOMAIN OptionsOf(s), e \in DOMAIN EntriesOf(s) :
               Placed(s, hi, lo, mid, low, o, e)
    BY Place
  <1> DEFINE a == Address(s)
             table == BaseAddresses[Section(s)].table
             tables == {BaseAddresses[x].table : x \in SectionsAt(SubSeq(a, 1, 2))}
             known == {t \in tables \cap DOMAIN PatchTables :
                         a[3] \in Range(PatchBytes(t))}
             lows == LastBytes(OptionsOf(s)[o].table)
  <1>2. a = <<hi, lo, mid, low>>
    BY <1>1 DEF Placed
  <1>3. SubSeq(a, 1, 2) = <<hi, lo>>
    <2> HIDE DEF a
    <2> QED
      BY <1>2, FirstTwo, Zenon
  <1>3a. a[3] = mid /\ a[4] = low /\ Len(a) = 4
    <2> HIDE DEF a
    <2> QED
      BY <1>2
  <1> HIDE DEF a
  <1>4. SectionsAt(<<hi, lo>>) = {Section(s)}
    BY <1>1 DEF Placed
  <1>5. tables = {table}
    <2>1. SectionsAt(SubSeq(a, 1, 2)) = {Section(s)}
      BY <1>3, <1>4, Zenon
    <2> QED
      BY <2>1, Zenon
  <1>6. table \in DOMAIN PatchTables
    BY TablesAssumption
  <1>7. /\ DOMAIN PatchBytes(table) = DOMAIN OptionsOf(s)
        /\ \A i \in DOMAIN OptionsOf(s) :
              PatchBytes(table)[i] = OptionsOf(s)[i].address[2]
    BY DEF PatchBytes, OptionsOf
  <1>8. /\ o \in DOMAIN PatchBytes(table)
        /\ PatchBytes(table)[o] = mid
        /\ \A j \in DOMAIN PatchBytes(table) \ {o} : PatchBytes(table)[j] # mid
    BY <1>1, <1>7 DEF Placed
  <1>9. known = {table}
    <2>1. mid \in Range(PatchBytes(table))
      BY <1>8 DEF Range
    <2> HIDE DEF table, tables
    <2> QED
      BY <1>3a, <1>5, <1>6, <2>1
  <1>10. LastAt(PatchBytes(table), mid) = o
    <2>1. DOMAIN PatchBytes(table) \subseteq Nat
      BY <1>7, EntriesAssumption
    <2> QED
      BY <1>8, <2>1, LastAtOne
  <1>11. /\ PatchTables[table][o] = OptionsOf(s)[o]
         /\ OptionsOf(s)[o].key = Option(s)
    BY <1>1 DEF OptionsOf, Placed
  <1>12. /\ EntriesOf(s) = SettingTables[OptionsOf(s)[o].table]
         /\ Entry(s) = EntriesOf(s)[e]
         /\ EntriesOf(s)[e].setting = s.setting
    BY <1>1 DEF EntriesOf, Placed
  <1>13. /\ DOMAIN lows = DOMAIN EntriesOf(s)
         /\ \A i \in DOMAIN EntriesOf(s) : lows[i] = EntriesOf(s)[i].offset[2]
    BY <1>12 DEF LastBytes
  <1>14. e \in DOMAIN lows /\ lows[e] = low
    BY <1>1, <1>13 DEF Placed
  <1>15. \A j \in DOMAIN lows \ {e} : lows[j] # low
    <2>1. W(s) \in Nat \ {0}
      BY ValuesAssumption DEF W
    <2> SUFFICES ASSUME NEW j \in DOMAIN lows \ {e}, lows[j] = low
                 PROVE  FALSE
      OBVIOUS
    <2>2. j \in DOMAIN EntriesOf(s) \ {e} /\ EntriesOf(s)[j].offset[2] = low
      BY <1>13
    <2>3. /\ EntriesOf(s)[j].bytes \in Nat \ {0}
          /\ \/ EntriesOf(s)[j].offset[2] >= low + W(s)
             \/ EntriesOf(s)[j].offset[2] + EntriesOf(s)[j].bytes <= low
      BY <1>1, <2>2 DEF Placed
    <2>4. PICK y \in Nat \ {0} : y = EntriesOf(s)[j].bytes
      BY <2>3
    <2>5. low >= low + W(s) \/ low + y <= low
      BY <2>2, <2>3, <2>4
    <2> QED
      BY <1>1, <2>1, <2>4, <2>5
  <1>16. LastAt(lows, low) = e
    <2>1. DOMAIN lows \subseteq Nat
      BY <1>13, EntriesAssumption
    <2> HIDE DEF lows
    <2> QED
      BY <1>14, <1>15, <2>1, LastAtOne
  <1>17. low \in Range(lows)
    BY <1>14 DEF Range
  <1> DEFINE raw == IF Width(Entry(s)) > 1
                    THEN UnpackNibbles(SubSeq(data, 1, Width(Entry(s))))
                    ELSE data[1]
  <1>18. raw = Raw(s, data)
    BY DEF Raw, W
  <1>19. (CHOOSE t \in known : TRUE) = table /\ known # {}
    <2> HIDE DEF known, table
    <2> QED
      BY <1>9
  <1>20. SettingTables[OptionsOf(s)[o].table][e] = Entry(s)
    BY <1>12
  <1> DEFINE option == PatchTables[table][LastAt(PatchBytes(table), mid)]
  <1>21. option = OptionsOf(s)[o]
    BY <1>10, <1>11
  <1> DEFINE found(x, l) ==
               LET entry == SettingTables[x.table][LastAt(l, low)]
                   r == IF Width(entry) > 1
                        THEN UnpackNibbles(SubSeq(data, 1, Width(entry)))
                        ELSE data[1]
               IN [fx_type |-> IF x.key.type \in FxTypes THEN x.key.type ELSE None,
                   number |-> DecodedNumber(x.key),
                   fx_name |-> SuffixName(x.key.suffix),
                   setting |-> entry.setting,
                   label |-> LabelForRaw(entry.values, r),
                   raw |-> r]
  <1>22. Decode(a, data) =
           LET x == PatchTables[CHOOSE t \in known : TRUE]
                      [LastAt(PatchBytes(CHOOSE t \in known : TRUE), mid)]
               l == LastBytes(x.table)
           IN IF low \notin Range(l) THEN None ELSE found(x, l)
    BY <1>3, <1>3a, <1>19, Zenon DEF Decode
  <1>23. Decode(a, data) =
           LET l == LastBytes(option.table)
           IN IF low \notin Range(l) THEN None ELSE found(option, l)
    BY <1>19, <1>22, Zenon
  <1>24. Decode(a, data) = found(OptionsOf(s)[o], lows)
    BY <1>17, <1>21, <1>23, Zenon
  <1>25. found(OptionsOf(s)[o], lows) =
             [fx_type |-> IF Option(s).type \in FxTypes THEN Option(s).type ELSE None,
              number |-> DecodedNumber(Option(s)),
              fx_name |-> SuffixName(Option(s).suffix),
              setting |-> s.setting,
              label |-> LabelForRaw(Entry(s).values, raw),
              raw |-> raw]
    BY <1>11, <1>12, <1>16, <1>20, Zenon
  <1> QED
    BY <1>18, <1>24, <1>25, Zenon DEF a

\* A raw value has the label it was written with.
LEMMA Labelled ==
    ASSUME NEW s \in Settings
    PROVE  LabelForRaw(Entry(s).values, s.raw) = s.label
  <1> DEFINE names == {name \in DOMAIN Entry(s).values :
                         Entry(s).values[name] = s.raw}
  <1>1. names = {name \in DOMAIN Entry(s).values : name = s.label}
    BY SettingsAssumption
  <1>2. CASE s.label \in DOMAIN Entry(s).values
    <2>1. names = {s.label}
      BY <1>1, <1>2
    <2> HIDE DEF names
    <2>2. names # {} /\ (CHOOSE name \in names : TRUE) = s.label
      BY <2>1
    <2> QED
      BY <2>2 DEF LabelForRaw, names
  <1>3. CASE s.label \notin DOMAIN Entry(s).values
    <2>1. names = {}
      BY <1>1, <1>3
    <2>2. s.label = None
      BY <1>3, SettingsAssumption
    <2> QED
      BY <2>1, <2>2 DEF LabelForRaw
  <1> QED
    BY <1>2, <1>3

\* The suffix of an effect tells the effect, none tells none.
LEMMA SuffixNames ==
    ASSUME NEW name \in DOMAIN TableSuffix \cup {None}
    PROVE  SuffixName(IF name = None THEN NoSuffix ELSE TableSuffix[name]) = name
  <1>1. CASE name = None
    <2>1. ~ \E x \in DOMAIN TableSuffix : TableSuffix[x] = NoSuffix
      BY SuffixesAssumption
    <2> QED
      BY <1>1, <2>1 DEF SuffixName
  <1>2. CASE name # None
    <2>1. name \in DOMAIN TableSuffix
      BY <1>2
    <2> DEFINE suffix == TableSuffix[name]
    <2>2. \A x \in DOMAIN TableSuffix : TableSuffix[x] = suffix <=> x = name
      BY <2>1, SuffixesAssumption
    <2>3. \E x \in DOMAIN TableSuffix : TableSuffix[x] = suffix
      BY <2>1
    <2> HIDE DEF suffix
    <2>4. (CHOOSE x \in DOMAIN TableSuffix : TableSuffix[x] = suffix) = name
      BY <2>1, <2>2
    <2>5. SuffixName(suffix) = name
      BY <2>3, <2>4 DEF SuffixName
    <2> QED
      BY <1>2, <2>5 DEF suffix
  <1> QED
    BY <1>1, <1>2

\* decode tells the number of the block, or 0.
LEMMA Numbers ==
    ASSUME NEW s \in Settings
    PROVE  DecodedNumber(Option(s)) \in {0, s.n}
  <1>1. Option(s).id = NormalizedId(s.fx_type, s.n)
    BY DEF Option, BlockSectionOption, Key
  <1>2. /\ s.n \in 1..FxBlockCount(s.fx_type)
        /\ s.n \in 1..(IF s.fx_type = "preamp" THEN 2 ELSE 4)
    BY SettingsAssumption
  <1> DEFINE id == Option(s).id
  <1>3. CASE id = NoId
    BY <1>3 DEF DecodedNumber
  <1>4. CASE id # NoId
    <2>1. FxBlockCount(s.fx_type) # 1
      BY <1>1, <1>4 DEF NormalizedId
    <2>2. CASE s.fx_type = "preamp"
      <3>1. id = <<"A", "B">>[s.n]
        BY <1>1, <2>1, <2>2 DEF NormalizedId
      <3>2. s.n \in {1, 2}
        BY <1>2, <2>2
      <3>3. (s.n = 1 /\ id = "A") \/ (s.n = 2 /\ id = "B")
        BY <3>1, <3>2
      <3> QED
        BY <1>4, <3>3 DEF DecodedNumber
    <2>3. CASE s.fx_type # "preamp"
      <3>1. id = <<"1", "2", "3", "4">>[s.n]
        BY <1>1, <2>1, <2>3 DEF NormalizedId
      <3>2. s.n \in 1..4
        BY <1>2, <2>3
      <3>3. id \notin {"A", "B"}
        <4>1. s.n \in {1, 2, 3, 4}
          BY <3>2
        <4> QED
          BY <3>1, <4>1
      <3>4. DecodedNumber(Option(s))
              = CHOOSE n \in 1..4 : <<"1", "2", "3", "4">>[n] = id
        BY <1>4, <3>3 DEF DecodedNumber
      <3>5. \A n \in 1..4 : <<"1", "2", "3", "4">>[n] = id <=> n = s.n
        <4>1. s.n \in {1, 2, 3, 4}
          BY <3>2
        <4> SUFFICES ASSUME NEW n \in 1..4
                     PROVE  <<"1", "2", "3", "4">>[n] = id <=> n = s.n
          OBVIOUS
        <4>2. n \in {1, 2, 3, 4}
          OBVIOUS
        <4> QED
          BY <3>1, <4>1, <4>2
      <3> HIDE DEF id
      <3>6. (CHOOSE n \in 1..4 : <<"1", "2", "3", "4">>[n] = id) = s.n
        BY <3>2, <3>5
      <3> QED
        BY <3>4, <3>6
    <2> QED
      BY <2>2, <2>3
  <1> QED
    BY <1>3, <1>4

\* decode is the reverse of address_for: the address and the bytes of
\* a setting decode to the setting and its value.
THEOREM DecodeNames ==
    ASSUME NEW s \in Settings
    PROVE  NamesWrite(Decode(Address(s), Bytes(s)), s)
  <1> DEFINE d == Decode(Address(s), Bytes(s))
  <1>1. Raw(s, Bytes(s)) = s.raw
    BY ReadBack
  <1>2. LabelForRaw(Entry(s).values, s.raw) = s.label
    BY Labelled
  <1>3. Option(s).type = s.fx_type /\ s.fx_type \in FxTypes
    BY SettingsAssumption DEF Option, BlockSectionOption, Key
  <1>4. SuffixName(Option(s).suffix) = s.fx_name
    <2>1. s.fx_name \in DOMAIN TableSuffix \cup {None}
      BY SettingsAssumption
    <2>2. Option(s).suffix = IF s.fx_name = None THEN NoSuffix
                             ELSE TableSuffix[s.fx_name]
      BY DEF Option, BlockSectionOption, Key
    <2> QED
      BY <2>1, <2>2, SuffixNames
  <1>5. PICK n \in {0, s.n} : n = DecodedNumber(Option(s))
    BY Numbers
  <1>6. d = [fx_type |-> s.fx_type, number |-> n, fx_name |-> s.fx_name,
             setting |-> s.setting, label |-> s.label, raw |-> s.raw]
    <2>1. d = [fx_type |-> IF Option(s).type \in FxTypes
                           THEN Option(s).type ELSE None,
               number |-> DecodedNumber(Option(s)),
               fx_name |-> SuffixName(Option(s).suffix),
               setting |-> s.setting,
               label |-> LabelForRaw(Entry(s).values, Raw(s, Bytes(s))),
               raw |-> Raw(s, Bytes(s))]
      BY DecodeFinds
    <2> QED
      BY <1>1, <1>2, <1>3, <1>4, <1>5, <2>1
  <1>7. d # None
    <2>1. n \in 0..s.n
      BY <1>5, SettingsAssumption
    <2> HIDE DEF d
    <2> QED
      BY <1>6, <2>1, EntriesAssumption
  <1> HIDE DEF d
  <1> QED
    BY <1>5, <1>6, <1>7 DEF NamesWrite, d

-----------------------------------------------------------------------------
(* Frames                                                                  *)

Byte == 0..255

\* A frame of bytes around a payload: eight before it, two after.
Wraps(f, payload) ==
    /\ f \in Seq(Byte)
    /\ Len(f) = Len(payload) + 10
    /\ \A i \in 1..Len(payload) : f[8 + i] = payload[i]

\* Concatenation, element by element.
LEMMA Concatenated ==
    ASSUME NEW s \in Seq(Byte), NEW t \in Seq(Byte)
    PROVE  /\ s \o t \in Seq(Byte)
           /\ Len(s \o t) = Len(s) + Len(t)
           /\ \A i \in 1..Len(s) : (s \o t)[i] = s[i]
           /\ \A i \in 1..Len(t) : (s \o t)[Len(s) + i] = t[i]
  <1> DEFINE u == s \o t
  <1>1. /\ u \in Seq(Byte)
        /\ Len(u) = Len(s) + Len(t)
        /\ \A i \in 1 .. Len(s) + Len(t) :
              u[i] = IF i <= Len(s) THEN s[i] ELSE t[i - Len(s)]
    BY ConcatProperties
  <1> HIDE DEF u
  <1>2. Len(s) \in Nat /\ Len(t) \in Nat
    OBVIOUS
  <1>3. \A i \in 1..Len(s) : u[i] = s[i]
    BY <1>1, <1>2
  <1>4. ASSUME NEW i \in 1..Len(t) PROVE u[Len(s) + i] = t[i]
    <2>1. /\ Len(s) + i \in 1 .. Len(s) + Len(t)
          /\ ~ (Len(s) + i <= Len(s))
          /\ (Len(s) + i) - Len(s) = i
      BY <1>2
    <2> QED
      BY <1>1, <2>1
  <1> QED
    BY <1>1, <1>3, <1>4 DEF u

\* One byte is a sequence of bytes.
LEMMA Single ==
    ASSUME NEW b \in Byte
    PROVE  <<b>> \in Seq(Byte) /\ Len(<<b>>) = 1
  OBVIOUS

ByteSeq(s, n) == s \in Seq(Byte) /\ Len(s) = n

\* Lengths add up.
LEMMA Joined ==
    ASSUME NEW s, NEW t, NEW m \in Nat, NEW n \in Nat, NEW k \in Nat,
           ByteSeq(s, m), ByteSeq(t, n), k = m + n
    PROVE  ByteSeq(s \o t, k)
  BY Concatenated DEF ByteSeq

\* A byte in place of a byte.
LEMMA Replaced ==
    ASSUME NEW s, NEW n, NEW i \in 1..n, NEW b \in Byte, ByteSeq(s, n)
    PROVE  ByteSeq([s EXCEPT ![i] = b], n)
  BY ExceptSeq DEF ByteSeq

\* A header, a payload, a checksum and the end are a frame.
LEMMA Wrapped ==
    ASSUME NEW h \in Seq(Byte), Len(h) = 8, NEW p \in Seq(Byte),
           NEW c \in Byte, NEW e \in Byte
    PROVE  Wraps(h \o p \o <<c>> \o <<e>>, p)
  <1> DEFINE f1 == h \o p
             f2 == f1 \o <<c>>
             f3 == f2 \o <<e>>
  <1>1. /\ f1 \in Seq(Byte) /\ Len(f1) = 8 + Len(p)
        /\ \A i \in 1..Len(p) : f1[8 + i] = p[i]
    <2>1. /\ f1 \in Seq(Byte) /\ Len(f1) = Len(h) + Len(p)
          /\ \A i \in 1..Len(p) : f1[Len(h) + i] = p[i]
      BY Concatenated
    <2> HIDE DEF f1
    <2> QED
      BY <2>1
  <1> HIDE DEF f1
  <1>2. /\ f2 \in Seq(Byte) /\ Len(f2) = 9 + Len(p)
        /\ \A i \in 1..(8 + Len(p)) : f2[i] = f1[i]
    <2>1. <<c>> \in Seq(Byte) /\ Len(<<c>>) = 1
      BY Single
    <2>2. /\ f2 \in Seq(Byte) /\ Len(f2) = Len(f1) + Len(<<c>>)
          /\ \A i \in 1..Len(f1) : f2[i] = f1[i]
      BY <1>1, <2>1, Concatenated
    <2> HIDE DEF f2
    <2> QED
      BY <1>1, <2>1, <2>2
  <1> HIDE DEF f2
  <1>3. /\ f3 \in Seq(Byte) /\ Len(f3) = 10 + Len(p)
        /\ \A i \in 1..(9 + Len(p)) : f3[i] = f2[i]
    <2>1. <<e>> \in Seq(Byte) /\ Len(<<e>>) = 1
      BY Single
    <2>2. /\ f3 \in Seq(Byte) /\ Len(f3) = Len(f2) + Len(<<e>>)
          /\ \A i \in 1..Len(f2) : f3[i] = f2[i]
      BY <1>2, <2>1, Concatenated
    <2> HIDE DEF f3
    <2> QED
      BY <1>2, <2>1, <2>2
  <1> HIDE DEF f3
  <1>4. \A i \in 1..Len(p) : f3[8 + i] = p[i]
    <2> SUFFICES ASSUME NEW i \in 1..Len(p) PROVE f3[8 + i] = p[i]
      OBVIOUS
    <2>1. 8 + i \in 1..(8 + Len(p)) /\ 8 + i \in 1..(9 + Len(p))
      OBVIOUS
    <2> QED
      BY <1>1, <1>2, <1>3, <2>1
  <1>5. Wraps(f3, p)
    BY <1>3, <1>4 DEF Wraps
  <1> QED
    BY <1>5 DEF f1, f2, f3

\* The address and the data of a frame's payload are at fixed places.
LEMMA Unwrapped ==
    ASSUME NEW f, NEW a \in Seq(Byte), Len(a) = 4, NEW d \in Seq(Byte),
           Wraps(f, a \o d)
    PROVE  /\ SubSeq(f, 9, 12) = a
           /\ SubSeq(f, 13, Len(f) - 2) = d
           /\ Payload(f) = a \o d
  <1> DEFINE p == a \o d
  <1>1. /\ p \in Seq(Byte) /\ Len(p) = 4 + Len(d)
        /\ \A i \in 1..4 : p[i] = a[i]
        /\ \A i \in 1..Len(d) : p[4 + i] = d[i]
    <2>1. /\ p \in Seq(Byte) /\ Len(p) = Len(a) + Len(d)
          /\ \A i \in 1..Len(a) : p[i] = a[i]
          /\ \A i \in 1..Len(d) : p[Len(a) + i] = d[i]
      BY Concatenated
    <2> HIDE DEF p
    <2> QED
      BY <2>1
  <1> HIDE DEF p
  <1>2. /\ f \in Seq(Byte) /\ Len(f) = Len(d) + 14
        /\ \A i \in 1..(4 + Len(d)) : f[8 + i] = p[i]
    BY <1>1 DEF Wraps, p
  <1>3. SubSeq(f, 9, 12) = [i \in 1..4 |-> f[i + 8]]
    BY <1>2
  <1>4. \A i \in 1..4 : f[i + 8] = a[i]
    BY <1>1, <1>2
  <1>5. a = [i \in 1..4 |-> a[i]]
    OBVIOUS
  <1>6. SubSeq(f, 9, 12) = a
    BY <1>3, <1>4, <1>5
  <1>7. SubSeq(f, 13, Len(f) - 2) = [i \in 1..Len(d) |-> f[i + 12]]
    BY <1>2
  <1>8. \A i \in 1..Len(d) : f[i + 12] = d[i]
    <2> SUFFICES ASSUME NEW i \in 1..Len(d) PROVE f[i + 12] = d[i]
      OBVIOUS
    <2>1. i + 12 = 8 + (4 + i) /\ 4 + i \in 1..(4 + Len(d))
      OBVIOUS
    <2> QED
      BY <1>1, <1>2, <2>1
  <1>9. d = [i \in 1..Len(d) |-> d[i]]
    OBVIOUS
  <1>10. SubSeq(f, 13, Len(f) - 2) = d
    BY <1>7, <1>8, <1>9
  <1>11. Payload(f) = [i \in 1..(4 + Len(d)) |-> f[i + 8]]
    BY <1>2 DEF Payload
  <1>12. \A i \in 1..(4 + Len(d)) : f[i + 8] = p[i]
    BY <1>2
  <1>13. p = [i \in 1..(4 + Len(d)) |-> p[i]]
    BY <1>1
  <1>14. Payload(f) = p
    BY <1>11, <1>12, <1>13
  <1> QED
    BY <1>6, <1>10, <1>14 DEF p

\* A checksum is a byte, the program's as well as the unit's.
LEMMA Checksums ==
    ASSUME NEW p \in Seq(Byte)
    PROVE  /\ 128 - (ByteSum(p) % 128) \in Byte
           /\ (128 - (ByteSum(p) % 128)) % 128 \in Byte
  <1>1. Len(p) \in Nat /\ \A i \in 1..Len(p) : p[i] \in Nat
    <2>1. Len(p) \in Nat /\ \A i \in 1..Len(p) : p[i] \in Byte
      OBVIOUS
    <2>2. \A b \in Byte : b \in Nat
      BY DEF Byte
    <2> QED
      BY <2>1, <2>2
  <1>2. PICK N \in Nat : N = Len(p)
    BY <1>1
  <1>3. \E sum \in [0..N -> Nat] : ByteSum(p) = sum[N]
    BY <1>1, <1>2, ByteSumSums
  <1>4. ByteSum(p) \in Nat
    BY <1>2, <1>3
  <1>5. PICK x \in Nat : x = ByteSum(p)
    BY <1>4
  <1>6. x % 128 \in 0..127
    <2>1. \A y \in Nat : y % 128 \in 0..127
      OBVIOUS
    <2> QED
      BY <1>5, <2>1
  <1>7. PICK r \in 0..127 : r = x % 128
    BY <1>6
  <1>8. 128 - r \in Byte /\ (128 - r) % 128 \in Byte
    BY <1>7 DEF Byte
  <1> QED
    BY <1>5, <1>7, <1>8

\* The parts of a header are bytes.
LEMMA Headers ==
    /\ ByteSeq(SysexStart, 1)
    /\ ByteSeq(ManufacturerId, 1)
    /\ ByteSeq(ModelId, 4)
    /\ ByteSeq(Dt1CommandId, 1)
    /\ ByteSeq(Dt1SysexHeader, 7)
    /\ ByteSeq(Rq1SysexHeader, 7)
  <1>1. /\ ByteSeq(SysexStart, 1)
        /\ ByteSeq(ManufacturerId, 1)
        /\ ByteSeq(ModelId, 4)
        /\ ByteSeq(Dt1CommandId, 1)
        /\ ByteSeq(Rq1CommandId, 1)
        /\ ByteSeq(<<DeviceIdBcast>>, 1)
    BY DEF SysexStart, ManufacturerId, ModelId, Dt1CommandId, Rq1CommandId, Byte,
           DeviceIdBcast, ByteSeq
  <1>2. 1 + 1 = 2 /\ 2 + 4 = 6 /\ 6 + 1 = 7
    OBVIOUS
  <1>3. ByteSeq(ManufacturerId \o <<DeviceIdBcast>>, 2)
    BY <1>1, <1>2, Joined
  <1>4. ByteSeq(ManufacturerId \o <<DeviceIdBcast>> \o ModelId, 6)
    BY <1>1, <1>2, <1>3, Joined
  <1>5. /\ ByteSeq(Dt1SysexHeader, 7)
        /\ ByteSeq(Rq1SysexHeader, 7)
    BY <1>1, <1>2, <1>4, Joined DEF Dt1SysexHeader, Rq1SysexHeader
  <1> QED
    BY <1>1, <1>5

\* What is sent and what is answered are frames.
LEMMA Framing ==
    ASSUME NEW id \in 0..127, NEW p \in Seq(Byte)
    PROVE  Wraps(EncodeDt1(id, p), p)
  <1> DEFINE h == SysexStart \o HeaderFor(Dt1SysexHeader, id)
             c == 128 - (ByteSum(p) % 128)
  <1>1. h \in Seq(Byte) /\ Len(h) = 8
    <2>1. 2 \in 1..7 /\ id \in Byte /\ ByteSeq(SysexStart, 1)
      BY Headers DEF Byte
    <2> DEFINE ours == HeaderFor(Dt1SysexHeader, id)
    <2>2. ByteSeq(ours, 7)
      BY <2>1, Headers, Replaced, Zenon DEF HeaderFor
    <2> HIDE DEF ours
    <2>3. ByteSeq(SysexStart \o ours, 8)
      <3>1. 1 + 7 = 8
        OBVIOUS
      <3> QED
        BY <2>1, <2>2, <3>1, Joined
    <2> QED
      BY <2>3 DEF ByteSeq, ours
  <1>2. c \in Byte
    BY Checksums
  <1>3. 247 \in Byte
    BY DEF Byte
  <1>4. EncodeDt1(id, p) = h \o p \o <<c>> \o <<247>>
    BY Zenon DEF EncodeDt1, Framed, CalculateChecksum, SysexEnd
  <1> HIDE DEF h, c
  <1> QED
    BY <1>1, <1>2, <1>3, <1>4, Wrapped

\* So are requests ...
LEMMA FramingRq1 ==
    ASSUME NEW id \in 0..127, NEW a \in Seq(Byte), NEW l \in Seq(Byte)
    PROVE  Wraps(EncodeRq1(id, a, l), a \o l)
  <1> DEFINE h == SysexStart \o HeaderFor(Rq1SysexHeader, id)
             p == a \o l
             c == 128 - (ByteSum(p) % 128)
  <1>1. h \in Seq(Byte) /\ Len(h) = 8
    <2>1. 2 \in 1..7 /\ id \in Byte /\ ByteSeq(SysexStart, 1)
      BY Headers DEF Byte
    <2> DEFINE ours == HeaderFor(Rq1SysexHeader, id)
    <2>2. ByteSeq(ours, 7)
      BY <2>1, Headers, Replaced, Zenon DEF HeaderFor
    <2> HIDE DEF ours
    <2>3. ByteSeq(SysexStart \o ours, 8)
      <3>1. 1 + 7 = 8
        OBVIOUS
      <3> QED
        BY <2>1, <2>2, <3>1, Joined
    <2> QED
      BY <2>3 DEF ByteSeq, ours
  <1>2. p \in Seq(Byte)
    OBVIOUS
  <1> HIDE DEF p
  <1>3. c \in Byte
    BY <1>2, Checksums
  <1>4. 247 \in Byte
    BY DEF Byte
  <1>5. EncodeRq1(id, a, l) = h \o p \o <<c>> \o <<247>>
    BY Zenon DEF EncodeRq1, Framed, CalculateChecksum, SysexEnd, p
  <1> HIDE DEF h, c
  <1>6. Wraps(EncodeRq1(id, a, l), p)
    BY <1>1, <1>2, <1>3, <1>4, <1>5, Wrapped
  <1> QED
    BY <1>6 DEF p

\* ... and replies.
LEMMA Replying ==
    ASSUME NEW p \in Seq(Byte)
    PROVE  Wraps(Reply(p), p)
  <1> DEFINE h == ReplyHeader(UnitId)
             c == (128 - (ByteSum(p) % 128)) % 128
  <1>1. h \in Seq(Byte) /\ Len(h) = 8
    <2> DEFINE h2 == SysexStart \o ManufacturerId
               id == <<UnitId>>
               h3 == h2 \o id
               h7 == h3 \o ModelId
    <2>1. ByteSeq(id, 1)
      BY UnitIdAssumption, Single DEF Byte, ByteSeq
    <2>2. /\ ByteSeq(SysexStart, 1) /\ ByteSeq(ManufacturerId, 1)
          /\ ByteSeq(ModelId, 4) /\ ByteSeq(Dt1CommandId, 1)
      BY Headers
    <2> HIDE DEF id
    <2>3. ByteSeq(h2, 2)
      <3>1. 1 + 1 = 2
        OBVIOUS
      <3> QED
        BY <2>2, <3>1, Joined
    <2> HIDE DEF h2
    <2>4. ByteSeq(h3, 3)
      <3>1. 2 + 1 = 3
        OBVIOUS
      <3> QED
        BY <2>1, <2>3, <3>1, Joined
    <2> HIDE DEF h3
    <2>5. ByteSeq(h7, 7)
      <3>1. 3 + 4 = 7
        OBVIOUS
      <3> QED
        BY <2>2, <2>4, <3>1, Joined
    <2> HIDE DEF h7
    <2>6. ByteSeq(h7 \o Dt1CommandId, 8)
      <3>1. 7 + 1 = 8
        OBVIOUS
      <3> QED
        BY <2>2, <2>5, <3>1, Joined
    <2> QED
      BY <2>6 DEF ByteSeq, h7, h3, h2, id, ReplyHeader
  <1>2. c \in Byte
    BY Checksums
  <1>3. 247 \in Byte
    BY DEF Byte
  <1>4. Reply(p) = h \o p \o <<c>> \o <<247>>
    BY Zenon DEF Reply, SysexEnd
  <1> HIDE DEF h, c
  <1> QED
    BY <1>1, <1>2, <1>3, <1>4, Wrapped

-----------------------------------------------------------------------------
(* The inductive invariant                                                 *)

\* The setting an index of written holds was not written again.
IsLast(i) ==
    \A j \in DOMAIN written : SameSetting(written[j], written[i]) => j <= i

\* The unit's memory holds the last write of every setting.
Remembered ==
    \A i \in DOMAIN written :
        IsLast(i) =>
            \A k \in 1..W(written[i]) :
                /\ Cell(Address(written[i]), k) \in DOMAIN memory
                /\ memory[Cell(Address(written[i]), k)] = Bytes(written[i])[k]

\* Every setting that was written has a last write.
HasLast ==
    \A i \in DOMAIN written :
        \E k \in DOMAIN written :
            SameSetting(written[k], written[i]) /\ IsLast(k)

\* The frame on the wire is that of the job.
OnTheWire ==
    /\ phase \in {"sent", "echo", "asked", "answered"} => job \in Settings
    /\ phase = "sent" => frame = EncodeDt1(device_id, Address(job) \o Bytes(job))
    /\ phase = "echo" => frame = Reply(Address(job) \o Bytes(job))
    /\ phase = "asked" =>
         frame = EncodeRq1(device_id, Address(job), <<0, 0, 0, W(job)>>)
    /\ phase = "answered" =>
         frame = Reply(Address(job) \o Held(Address(job), W(job)))

\* Only what was written is asked for, and there is an answer only after that.
Asked ==
    /\ phase \in {"asked", "answered"} =>
         \E i \in DOMAIN written : written[i] = job
    /\ value # None => phase = "ready"

Counted ==
    /\ written \in Seq(Settings)
    /\ phase = "sent" => Len(written) < MaxWrites

IInv ==
    /\ TypeOK
    /\ OnTheWire
    /\ Asked
    /\ Counted
    /\ HasLast
    /\ Remembered
    /\ LastWriteRead

-----------------------------------------------------------------------------
(* Addresses, bytes and memory                                             *)

\* An address is four bytes, and tells how far a cell is from it.
LEMMA AddressSeq ==
    ASSUME NEW s \in Settings
    PROVE  /\ Address(s) \in Seq(Byte)
           /\ Len(Address(s)) = 4
           /\ Address(s)[4] \in Nat
           /\ \A k \in Nat : Cell(Address(s), k)[4] - Address(s)[4] + 1 = k
  <1>1. PICK hi \in 1..127, lo \in 0..127, mid \in 0..127, low \in 0..127,
             o \in DOMAIN OptionsOf(s), e \in DOMAIN EntriesOf(s) :
               Placed(s, hi, lo, mid, low, o, e)
    BY Place
  <1>2. Address(s) = <<hi, lo, mid, low>>
    BY <1>1 DEF Placed
  <1>3. hi \in Byte /\ lo \in Byte /\ mid \in Byte /\ low \in Byte /\ low \in Nat
    BY <1>1 DEF Byte
  <1>4. ASSUME NEW k \in Nat PROVE Cell(Address(s), k)[4] - Address(s)[4] + 1 = k
    <2>1. low \in Nat
      BY <1>3
    <2>2. Cell(<<hi, lo, mid, low>>, k) = <<hi, lo, mid, low + k - 1>>
      BY <2>1, Cells
    <2>3. <<hi, lo, mid, low + k - 1>>[4] = low + k - 1
      OBVIOUS
    <2>4. <<hi, lo, mid, low>>[4] = low
      OBVIOUS
    <2>5. (low + k - 1) - low + 1 = k
      BY <2>1
    <2> QED
      BY <1>2, <2>2, <2>3, <2>4, <2>5
  <1>5. /\ <<hi, lo, mid, low>> \in Seq(Byte)
        /\ Len(<<hi, lo, mid, low>>) = 4
        /\ <<hi, lo, mid, low>>[4] \in Nat
    BY <1>3
  <1>6. Address(s) \in Seq(Byte) /\ Len(Address(s)) = 4 /\ Address(s)[4] \in Nat
    BY <1>2, <1>5
  <1> QED
    BY <1>4, <1>6

\* The bytes of a value are as many as the setting is wide.
LEMMA BytesSeq ==
    ASSUME NEW s \in Settings
    PROVE  /\ W(s) \in Nat
           /\ Bytes(s) \in Seq(Byte)
           /\ Len(Bytes(s)) = W(s)
           /\ DOMAIN Bytes(s) = 1..W(s)
           /\ \A k \in 1..W(s) : DataByte(Bytes(s)[k])
  <1>1. W(s) \in Nat /\ Bytes(s) \in [1..W(s) -> 0..127]
    <2>1. W(s) \in Nat
      BY Widths
    <2>2. Bytes(s) \in [1..W(s) -> 0..127]
      BY ReadBack
    <2> QED
      BY <2>1, <2>2
  <1>2. Bytes(s) \in [1..W(s) -> Byte]
    <2>1. \A b \in 0..127 : b \in Byte
      BY DEF Byte
    <2> QED
      BY <1>1, <2>1
  <1>3. Bytes(s) \in Seq(Byte) /\ Len(Bytes(s)) = W(s)
    BY <1>1, <1>2
  <1> QED
    BY <1>1, <1>3 DEF DataByte

\* The same setting has the same address and the same table entry.
LEMMA Same ==
    ASSUME NEW s, NEW t, SameSetting(s, t)
    PROVE  Address(s) = Address(t) /\ Entry(s) = Entry(t) /\ W(s) = W(t)
  BY DEF SameSetting, Address, Entry, W

\* What the unit stores it has ...
LEMMA StoredHere ==
    ASSUME NEW s \in Settings, NEW k \in 1..W(s)
    PROVE  LET m == Stored(Address(s), Bytes(s)) IN
           Cell(Address(s), k) \in DOMAIN m /\ m[Cell(Address(s), k)] = Bytes(s)[k]
  <1> DEFINE a == Address(s)
             d == Bytes(s)
             c == Cell(a, k)
  <1>1. k \in DOMAIN d /\ c[4] - a[4] + 1 = k
    <2>1. k \in Nat
      BY BytesSeq
    <2> QED
      BY <2>1, AddressSeq, BytesSeq
  <1> HIDE DEF a, d, c
  <1>2. c = Cell(a, k)
    BY DEF c
  <1>3. c \in {Cell(a, i) : i \in DOMAIN d} /\ \E i \in DOMAIN d : c = Cell(a, i)
    BY <1>1, <1>2
  <1>4. /\ c \in DOMAIN Stored(a, d)
        /\ Stored(a, d)[c] = d[c[4] - a[4] + 1]
    BY <1>3 DEF Stored
  <1> QED
    BY <1>1, <1>4 DEF a, d, c

\* ... what it had elsewhere stays ...
LEMMA StoredElsewhere ==
    ASSUME NEW s \in Settings, NEW c \in DOMAIN memory,
           \A k \in 1..W(s) : c # Cell(Address(s), k)
    PROVE  LET m == Stored(Address(s), Bytes(s)) IN
           c \in DOMAIN m /\ m[c] = memory[c]
  <1>1. DOMAIN Bytes(s) = 1..W(s)
    BY BytesSeq
  <1> QED
    BY <1>1 DEF Stored

\* ... and all of it are data bytes.
LEMMA StoredData ==
    ASSUME NEW s \in Settings, \A c \in DOMAIN memory : DataByte(memory[c])
    PROVE  LET m == Stored(Address(s), Bytes(s)) IN
           \A c \in DOMAIN m : DataByte(m[c])
  <1> DEFINE m == Stored(Address(s), Bytes(s))
  <1>1. SUFFICES ASSUME NEW c \in DOMAIN m PROVE DataByte(m[c])
    OBVIOUS
  <1>2. DOMAIN m = DOMAIN memory \cup {Cell(Address(s), k) : k \in DOMAIN Bytes(s)}
    BY DEF Stored
  <1>3. CASE \E k \in 1..W(s) : c = Cell(Address(s), k)
    <2>1. PICK k \in 1..W(s) : c = Cell(Address(s), k)
      BY <1>3
    <2>2. m[c] = Bytes(s)[k]
      BY <2>1, StoredHere
    <2> QED
      BY <2>2, BytesSeq
  <1>4. CASE ~ \E k \in 1..W(s) : c = Cell(Address(s), k)
    <2>1. c \in DOMAIN memory
      BY <1>1, <1>2, <1>4, BytesSeq
    <2>2. m[c] = memory[c]
      BY <1>4, <2>1, StoredElsewhere
    <2> QED
      BY <2>1, <2>2
  <1> QED
    BY <1>3, <1>4

\* What the unit answers with are bytes.
LEMMA HeldSeq ==
    ASSUME \A c \in DOMAIN memory : DataByte(memory[c]), NEW a, NEW n \in Nat
    PROVE  /\ Held(a, n) \in Seq(Byte)
           /\ Len(Held(a, n)) = n
  <1>1. Held(a, n) \in [1..n -> Byte]
    <2>1. \A b : DataByte(b) => b \in Byte
      BY DEF DataByte, Byte
    <2>2. 0 \in Byte
      BY DEF Byte
    <2> QED
      BY <2>1, <2>2 DEF Held
  <1> QED
    BY <1>1

-----------------------------------------------------------------------------
(* Which writes the unit takes                                             *)

\* The sum of one byte more.
LEMMA SumAppended ==
    ASSUME NEW p \in Seq(Byte), NEW c \in Byte
    PROVE  /\ ByteSum(p) \in Nat
           /\ ByteSum(p \o <<c>>) = ByteSum(p) + c
  <1> DEFINE q == p \o <<c>>
  <1>1. PICK N \in Nat : N = Len(p)
    OBVIOUS
  <1>2. /\ q \in Seq(Byte) /\ Len(q) = N + 1
        /\ \A i \in 1..N : q[i] = p[i]
        /\ q[N + 1] = c
    <2>1. <<c>> \in Seq(Byte) /\ Len(<<c>>) = 1 /\ <<c>>[1] = c
      BY Single
    <2>2. /\ q \in Seq(Byte) /\ Len(q) = Len(p) + Len(<<c>>)
          /\ \A i \in 1..Len(p) : q[i] = p[i]
          /\ \A i \in 1..Len(<<c>>) : q[Len(p) + i] = <<c>>[i]
      BY <2>1, Concatenated
    <2> HIDE DEF q
    <2>3. 1 \in 1..Len(<<c>>)
      BY <2>1
    <2> QED
      BY <1>1, <2>1, <2>2, <2>3
  <1> HIDE DEF q
  <1>3. \A b \in Byte : b \in Nat
    BY DEF Byte
  <1>4. \A i \in 1..N : p[i] \in Nat
    BY <1>1, <1>3
  <1>5. \A i \in 1..(N + 1) : q[i] \in Nat
    BY <1>1, <1>2, <1>3
  <1>6. PICK sum1 \in [0..N -> Nat] :
           /\ sum1[0] = 0
           /\ \A i \in 1..N : sum1[i] = sum1[i - 1] + p[i]
           /\ ByteSum(p) = sum1[N]
    BY <1>1, <1>4, ByteSumSums
  <1>7. PICK M \in Nat : M = N + 1
    BY <1>1
  <1>8. PICK sum2 \in [0..M -> Nat] :
           /\ sum2[0] = 0
           /\ \A i \in 1..M : sum2[i] = sum2[i - 1] + q[i]
           /\ ByteSum(q) = sum2[M]
    <2>1. M \in Nat /\ Len(q) = M /\ \A i \in 1..M : q[i] \in Nat
      BY <1>2, <1>5, <1>7
    <2> QED
      BY <2>1, ByteSumSums
  <1> DEFINE S == {i \in 0..N : sum1[i] = sum2[i]}
  <1>9. 0 \in S
    BY <1>1, <1>6, <1>8
  <1>10. ASSUME NEW i \in 1..N, i - 1 \in S PROVE i \in S
    <2>1. sum1[i - 1] = sum2[i - 1]
      BY <1>10
    <2>2. i \in 0..N /\ i \in 1..M
      BY <1>1, <1>7
    <2>3. sum1[i] = sum1[i - 1] + p[i] /\ sum2[i] = sum2[i - 1] + p[i]
      BY <1>2, <1>6, <1>8, <2>2
    <2> QED
      BY <2>1, <2>2, <2>3
  <1>11. \A i \in 1..N : i - 1 \in S => i \in S
    BY <1>10
  <1> HIDE DEF S
  <1>12. \A i \in 0..N : i \in S
    BY <1>1, <1>9, <1>11, Induction
  <1>13. sum1[N] = sum2[N]
    <2>1. N \in 0..N
      BY <1>1
    <2> QED
      BY <1>12, <2>1 DEF S
  <1>14. sum2[M] = sum2[N] + c
    <2>1. M \in 1..M /\ M - 1 = N
      BY <1>1, <1>7
    <2>2. sum2[M] = sum2[M - 1] + q[M]
      BY <1>8, <2>1
    <2> QED
      BY <1>2, <1>7, <2>1, <2>2
  <1>15. sum1[N] \in Nat
    BY <1>1, <1>6
  <1> QED
    BY <1>6, <1>8, <1>13, <1>14, <1>15 DEF q

DataSeq(s, n) ==
    s \in Seq(Byte) /\ Len(s) = n /\ \A i \in 1..n : DataByte(s[i])

\* Data bytes after data bytes.
LEMMA DataJoined ==
    ASSUME NEW s, NEW t, NEW m \in Nat, NEW n \in Nat, NEW k \in Nat,
           DataSeq(s, m), DataSeq(t, n), k = m + n
    PROVE  DataSeq(s \o t, k)
  <1> DEFINE u == s \o t
  <1>1. /\ s \in Seq(Byte) /\ Len(s) = m /\ \A i \in 1..m : DataByte(s[i])
        /\ t \in Seq(Byte) /\ Len(t) = n /\ \A i \in 1..n : DataByte(t[i])
    BY DEF DataSeq
  <1>2. /\ u \in Seq(Byte) /\ Len(u) = k
        /\ \A i \in 1..m : u[i] = s[i]
        /\ \A i \in 1..n : u[m + i] = t[i]
    <2>1. /\ u \in Seq(Byte) /\ Len(u) = Len(s) + Len(t)
          /\ \A i \in 1..Len(s) : u[i] = s[i]
          /\ \A i \in 1..Len(t) : u[Len(s) + i] = t[i]
      BY <1>1, Concatenated
    <2> QED
      BY <1>1, <2>1
  <1> HIDE DEF u
  <1>3. ASSUME NEW i \in 1..k PROVE DataByte(u[i])
    <2>1. CASE i <= m
      BY <1>1, <1>2, <2>1
    <2>2. CASE ~ (i <= m)
      <3>1. i - m \in 1..n /\ m + (i - m) = i
        BY <2>2
      <3> QED
        BY <1>1, <1>2, <3>1
    <2> QED
      BY <2>1, <2>2
  <1> QED
    BY <1>2, <1>3 DEF DataSeq, u

\* The bytes of a write between its start and its payload.
LEMMA HeaderData ==
    ASSUME NEW id \in 0..127
    PROVE  LET h == SysexStart \o HeaderFor(Dt1SysexHeader, id) IN
           /\ h \in Seq(Byte) /\ Len(h) = 8
           /\ \A i \in 2..8 : DataByte(h[i])
           /\ h[3] = id
  <1> DEFINE h7 == HeaderFor(Dt1SysexHeader, id)
             h == SysexStart \o h7
  <1>1. DataSeq(Dt1SysexHeader, 7)
    <2> DEFINE b == <<DeviceIdBcast>>
               h2 == ManufacturerId \o b
               h6 == h2 \o ModelId
    <2>1. /\ DataSeq(b, 1)
          /\ DataSeq(ManufacturerId, 1)
          /\ DataSeq(Dt1CommandId, 1)
      BY DEF ManufacturerId, Dt1CommandId, Byte, DeviceIdBcast, DataByte, DataSeq
    <2>2. DataSeq(ModelId, 4)
      BY DEF ModelId, Byte, DataByte, DataSeq
    <2> HIDE DEF b
    <2>3. DataSeq(h2, 2)
      BY <2>1, DataJoined
    <2> HIDE DEF h2
    <2>4. DataSeq(h6, 6)
      BY <2>2, <2>3, DataJoined
    <2> HIDE DEF h6
    <2>5. DataSeq(h6 \o Dt1CommandId, 7)
      BY <2>1, <2>4, DataJoined
    <2> QED
      BY <2>5 DEF h6, h2, b, Dt1SysexHeader
  <1>2. id \in Byte /\ DataByte(id)
    BY DEF Byte, DataByte
  <1>3. /\ h7 \in Seq(Byte) /\ Len(h7) = 7
        /\ \A i \in 1..7 : h7[i] = IF i = 2 THEN id ELSE Dt1SysexHeader[i]
    <2>1. Dt1SysexHeader \in Seq(Byte) /\ Len(Dt1SysexHeader) = 7
      BY <1>1 DEF DataSeq
    <2> DEFINE h0 == Dt1SysexHeader
    <2>2. h0 \in Seq(Byte) /\ 2 \in 1..Len(h0) /\ Len(h0) = 7
      BY <2>1
    <2>3. h7 = [h0 EXCEPT ![2] = id]
      BY DEF HeaderFor
    <2> HIDE DEF h0, h7
    <2>4. ByteSeq([h0 EXCEPT ![2] = id], 7)
      <3>1. ByteSeq(h0, 7) /\ 2 \in 1..7
        BY <2>2 DEF ByteSeq
      <3> QED
        BY <1>2, <3>1, Replaced
    <2>5. DOMAIN h0 = 1..7
      BY <2>2
    <2>6. \A j \in 1..7 : [h0 EXCEPT ![2] = id][j] = IF j = 2 THEN id ELSE h0[j]
      BY <2>5
    <2> QED
      BY <2>3, <2>4, <2>6 DEF h0, ByteSeq
  <1> HIDE DEF h7
  <1>4. /\ h \in Seq(Byte) /\ Len(h) = 8
        /\ \A i \in 1..7 : h[1 + i] = h7[i]
    <2>1. SysexStart \in Seq(Byte) /\ Len(SysexStart) = 1
      BY Headers DEF ByteSeq
    <2>2. /\ h \in Seq(Byte) /\ Len(h) = Len(SysexStart) + Len(h7)
          /\ \A i \in 1..Len(h7) : h[Len(SysexStart) + i] = h7[i]
      BY <1>3, <2>1, Concatenated
    <2> HIDE DEF h
    <2> QED
      BY <1>3, <2>1, <2>2
  <1> HIDE DEF h
  <1>5. h[3] = id
    <2>1. 2 \in 1..7 /\ 1 + 2 = 3
      OBVIOUS
    <2> QED
      BY <1>3, <1>4, <2>1
  <1>6. ASSUME NEW i \in 2..8 PROVE DataByte(h[i])
    <2>1. i - 1 \in 1..7 /\ 1 + (i - 1) = i
      OBVIOUS
    <2>2. h[i] = h7[i - 1]
      BY <1>4, <2>1
    <2>3. DataByte(h7[i - 1])
      BY <1>1, <1>2, <1>3, <2>1 DEF DataSeq
    <2> QED
      BY <2>2, <2>3
  <1> QED
    BY <1>4, <1>5, <1>6 DEF h, h7

\* All of a frame: its header, its payload and its checksum.
Whole(f, h, p, c) ==
    /\ f \in Seq(Byte) /\ Len(f) = Len(p) + 10
    /\ \A i \in 1..8 : f[i] = h[i]
    /\ \A i \in 1..Len(p) : f[8 + i] = p[i]
    /\ f[Len(p) + 9] = c
    /\ SubSeq(f, 9, Len(f) - 1) = p \o <<c>>

\* A frame has its parts in their places.
LEMMA WholeFrame ==
    ASSUME NEW h \in Seq(Byte), Len(h) = 8, NEW p \in Seq(Byte),
           NEW c \in Byte, NEW e \in Byte
    PROVE  Whole(h \o p \o <<c>> \o <<e>>, h, p, c)
  <1> DEFINE q == p \o <<c>>
             f == h \o p \o <<c>> \o <<e>>
             g == h \o q
  <1>1. <<c>> \in Seq(Byte) /\ Len(<<c>>) = 1 /\ <<c>>[1] = c
    BY Single
  <1>2. <<e>> \in Seq(Byte) /\ Len(<<e>>) = 1
    BY Single
  <1>3. /\ q \in Seq(Byte) /\ Len(q) = Len(p) + 1
        /\ \A i \in 1..Len(p) : q[i] = p[i]
        /\ q[Len(p) + 1] = c
    <2>1. /\ q \in Seq(Byte) /\ Len(q) = Len(p) + Len(<<c>>)
          /\ \A i \in 1..Len(p) : q[i] = p[i]
          /\ \A i \in 1..Len(<<c>>) : q[Len(p) + i] = <<c>>[i]
      BY <1>1, Concatenated
    <2> HIDE DEF q
    <2>2. 1 \in 1..Len(<<c>>)
      BY <1>1
    <2> QED
      BY <1>1, <2>1, <2>2
  <1>4. f = g \o <<e>>
    <2>1. (h \o p) \o <<c>> = h \o q
      BY <1>1, ConcatAssociative
    <2> QED
      BY <2>1
  <1> HIDE DEF q, f
  <1>5. /\ g \in Seq(Byte) /\ Len(g) = 9 + Len(p)
        /\ \A i \in 1..8 : g[i] = h[i]
        /\ \A i \in 1..(Len(p) + 1) : g[8 + i] = q[i]
    <2>1. /\ g \in Seq(Byte) /\ Len(g) = Len(h) + Len(q)
          /\ \A i \in 1..Len(h) : g[i] = h[i]
          /\ \A i \in 1..Len(q) : g[Len(h) + i] = q[i]
      BY <1>3, Concatenated
    <2> HIDE DEF g
    <2> QED
      BY <1>3, <2>1
  <1> HIDE DEF g
  <1>6. /\ f \in Seq(Byte) /\ Len(f) = Len(p) + 10
        /\ \A i \in 1..(9 + Len(p)) : f[i] = g[i]
    <2>1. /\ g \o <<e>> \in Seq(Byte) /\ Len(g \o <<e>>) = Len(g) + Len(<<e>>)
          /\ \A i \in 1..Len(g) : (g \o <<e>>)[i] = g[i]
      BY <1>2, <1>5, Concatenated
    <2> QED
      BY <1>2, <1>4, <1>5, <2>1
  <1>7. \A i \in 1..8 : f[i] = h[i]
    BY <1>5, <1>6
  <1>8. ASSUME NEW i \in 1..(Len(p) + 1) PROVE f[8 + i] = q[i]
    <2>1. 8 + i \in 1..(9 + Len(p))
      OBVIOUS
    <2> QED
      BY <1>5, <1>6, <2>1
  <1>9. f[Len(p) + 9] = c
    <2>1. Len(p) + 1 \in 1..(Len(p) + 1) /\ 8 + (Len(p) + 1) = Len(p) + 9
      OBVIOUS
    <2> QED
      BY <1>3, <1>8, <2>1
  <1>10. \A i \in 1..Len(p) : f[8 + i] = p[i]
    BY <1>3, <1>8
  <1>11. SubSeq(f, 9, Len(f) - 1) = q
    <2>1. SubSeq(f, 9, Len(f) - 1) = [i \in 1..(Len(p) + 1) |-> f[i + 8]]
      BY <1>6
    <2>2. \A i \in 1..(Len(p) + 1) : f[i + 8] = q[i]
      BY <1>8
    <2>3. q = [i \in 1..(Len(p) + 1) |-> q[i]]
      BY <1>3
    <2> QED
      BY <2>1, <2>2, <2>3
  <1>12. Whole(f, h, p, c)
    BY <1>6, <1>7, <1>9, <1>10, <1>11 DEF Whole, q
  <1> QED
    BY <1>12 DEF f

\* An address is of data bytes.
LEMMA AddressData ==
    ASSUME NEW s \in Settings
    PROVE  DataSeq(Address(s), 4)
  <1>1. PICK hi \in 1..127, lo \in 0..127, mid \in 0..127, low \in 0..127,
             o \in DOMAIN OptionsOf(s), e \in DOMAIN EntriesOf(s) :
               Placed(s, hi, lo, mid, low, o, e)
    BY Place
  <1> DEFINE a == <<hi, lo, mid, low>>
  <1>2. Address(s) = a
    BY <1>1 DEF Placed
  <1>3. hi \in 0..127 /\ lo \in 0..127 /\ mid \in 0..127 /\ low \in 0..127
    BY <1>1
  <1>4. \A i \in 1..4 : a[i] \in 0..127
    <2>1. \A i \in 1..4 : i \in {1, 2, 3, 4}
      OBVIOUS
    <2>2. a[1] = hi /\ a[2] = lo /\ a[3] = mid /\ a[4] = low
      OBVIOUS
    <2> HIDE DEF a
    <2> QED
      BY <1>3, <2>1, <2>2
  <1>5. Address(s) \in Seq(Byte) /\ Len(Address(s)) = 4
    BY AddressSeq
  <1> QED
    BY <1>2, <1>4, <1>5 DEF DataSeq, DataByte

\* The unit takes every write but one whose bytes sum to a multiple of
\* 128: calculate_checksum makes 128 of it, which is no data byte.
THEOREM WritesTaken ==
    ASSUME NEW s \in Settings
    PROVE  LET p == Address(s) \o Bytes(s) IN
           Valid(EncodeDt1(UnitId, p)) <=> ByteSum(p) % 128 # 0
  <1> DEFINE p == Address(s) \o Bytes(s)
             h == SysexStart \o HeaderFor(Dt1SysexHeader, UnitId)
             c == 128 - (ByteSum(p) % 128)
             f == EncodeDt1(UnitId, p)
  <1>1. DataSeq(p, 4 + W(s))
    <2>1. DataSeq(Address(s), 4)
      BY AddressData
    <2>2. DataSeq(Bytes(s), W(s)) /\ W(s) \in Nat
      BY BytesSeq DEF DataSeq
    <2>3. 4 + W(s) \in Nat
      BY <2>2
    <2> QED
      BY <2>1, <2>2, <2>3, DataJoined
  <1>2. p \in Seq(Byte) /\ \A i \in 1..Len(p) : DataByte(p[i])
    BY <1>1 DEF DataSeq
  <1> HIDE DEF p
  <1>3. c \in Byte
    BY <1>2, Checksums
  <1>4. f = h \o p \o <<c>> \o <<247>>
    BY Zenon DEF EncodeDt1, Framed, CalculateChecksum, SysexEnd
  <1>5. /\ h \in Seq(Byte) /\ Len(h) = 8
        /\ \A i \in 2..8 : DataByte(h[i])
        /\ h[3] = UnitId
    <2>1. UnitId \in 0..127
      BY UnitIdAssumption
    <2> QED
      BY <2>1, HeaderData, Zenon
  <1>6. 247 \in Byte
    BY DEF Byte
  <1> HIDE DEF h, f, c
  <1>7. /\ f \in Seq(Byte) /\ Len(f) = Len(p) + 10
        /\ \A i \in 1..8 : f[i] = h[i]
        /\ \A i \in 1..Len(p) : f[8 + i] = p[i]
        /\ f[Len(p) + 9] = c
        /\ SubSeq(f, 9, Len(f) - 1) = p \o <<c>>
    <2>1. Whole(f, h, p, c)
      BY <1>2, <1>3, <1>4, <1>5, <1>6, WholeFrame
    <2> QED
      BY <2>1 DEF Whole
  <1>8. PICK x \in Nat : x = ByteSum(p)
    BY <1>2, <1>3, SumAppended
  <1>9. c = 128 - (x % 128)
    BY <1>8 DEF c
  <1>10. ByteSum(SubSeq(f, 9, Len(f) - 1)) % 128 = 0
    <2>1. ByteSum(SubSeq(f, 9, Len(f) - 1)) = x + (128 - (x % 128))
      <3>1. ByteSum(p \o <<c>>) = ByteSum(p) + c
        BY <1>2, <1>3, SumAppended
      <3> QED
        BY <1>7, <1>8, <1>9, <3>1
    <2>2. (x + (128 - (x % 128))) % 128 = 0
      BY <1>8
    <2> QED
      BY <2>1, <2>2
  <1>11. f[3] = UnitId
    BY <1>5, <1>7
  <1>12. DataByte(c) <=> x % 128 # 0
    <2>1. \A y \in Nat : 128 - (y % 128) \in 0..127 <=> y % 128 # 0
      OBVIOUS
    <2> QED
      BY <1>8, <1>9, <2>1 DEF DataByte
  <1>13. (\A i \in DOMAIN Inner(f) : DataByte(Inner(f)[i])) <=> DataByte(c)
    <2>1. Inner(f) = [i \in 1..(Len(p) + 8) |-> f[i + 1]]
      BY <1>7 DEF Inner
    <2>2. Len(p) \in Nat
      BY <1>2
    <2>3. ASSUME NEW i \in 1..(Len(p) + 7) PROVE DataByte(f[i + 1])
      <3>1. CASE i <= 7
        <4>1. i + 1 \in 2..8 /\ i + 1 \in 1..8
          BY <3>1
        <4> QED
          BY <1>5, <1>7, <4>1
      <3>2. CASE ~ (i <= 7)
        <4>1. i - 7 \in 1..Len(p) /\ 8 + (i - 7) = i + 1
          BY <2>2, <3>2
        <4> QED
          BY <1>2, <1>7, <4>1
      <3> QED
        BY <3>1, <3>2
    <2>4. f[(Len(p) + 8) + 1] = c
      BY <1>7, <2>2
    <2>5. /\ Len(p) + 8 \in 1..(Len(p) + 8)
          /\ \A i \in 1..(Len(p) + 8) : i \in 1..(Len(p) + 7) \/ i = Len(p) + 8
      BY <2>2
    <2> QED
      BY <2>1, <2>3, <2>4, <2>5
  <1>14. Valid(f) <=> ByteSum(p) % 128 # 0
    BY <1>8, <1>10, <1>11, <1>12, <1>13 DEF Valid
  <1> QED
    BY <1>14 DEF f, p

-----------------------------------------------------------------------------
(* The steps keep the invariant                                            *)

\* Same settings: an equivalence.
LEMMA SameIsEquivalence ==
    /\ \A s : SameSetting(s, s)
    /\ \A s, t : SameSetting(s, t) => SameSetting(t, s)
    /\ \A s, t, u : SameSetting(s, t) /\ SameSetting(t, u) => SameSetting(s, u)
  BY DEF SameSetting

\* What leaves memory and history alone keeps what is said of them.
LEMMA MemoryKept ==
    ASSUME IInv, UNCHANGED <<memory, written>>
    PROVE  HasLast' /\ Remembered'
  <1>1. HasLast'
    BY DEF IInv, HasLast, IsLast
  <1>2. Remembered'
    BY DEF IInv, Remembered, IsLast
  <1> QED
    BY <1>1, <1>2

\* Nothing is written and nothing on the wire at the start.
LEMMA Initially ==
    ASSUME SettingInit
    PROVE  IInv
  <1>1. TypeOK
    BY WritesAssumption, UnitIdAssumption
       DEF SettingInit, TypeOK, DeviceIdBcast
  <1>2. OnTheWire /\ Asked
    BY DEF SettingInit, OnTheWire, Asked
  <1>3. Counted
    BY DEF SettingInit, Counted
  <1>4. HasLast /\ Remembered
    BY DEF SettingInit, HasLast, Remembered
  <1>5. LastWriteRead
    BY DEF SettingInit, LastWriteRead
  <1> QED
    BY <1>1, <1>2, <1>3, <1>4, <1>5 DEF IInv

\* Negotiation takes the unit's id.
LEMMA IdentifyKeeps ==
    ASSUME IInv, NEW revs \in Revisions, Identify(revs)
    PROVE  IInv'
  <1> DEFINE m == IdentityReply(UnitId, revs)
             reply == ParseIdentityReply(m)
  <1>1. reply.device_id = UnitId
    BY DEF ParseIdentityReply, DeviceIdByte, IdentityReply
  <1>2. reply.model \in {"GT-1000", "GT-1000L", "GT-1000CORE", "unknown"}
    BY DEF ParseIdentityReply, ModelOf
  <1> HIDE DEF m
  <1>3. /\ phase = "start" /\ phase' = "ready"
        /\ device_id' = UnitId
        /\ model' = IF reply.model = "unknown" THEN model ELSE reply.model
        /\ UNCHANGED <<frame, memory, job, decoded, value, written>>
    BY <1>1 DEF Identify, m
  <1> HIDE DEF reply
  <1>4. TypeOK'
    BY <1>2, <1>3, UnitIdAssumption DEF IInv, TypeOK, DeviceIdBcast
  <1>5. OnTheWire' /\ Asked'
    BY <1>3 DEF IInv, OnTheWire, Asked
  <1>6. Counted'
    BY <1>3 DEF IInv, Counted
  <1>7. HasLast' /\ Remembered'
    BY <1>3, MemoryKept
  <1>8. LastWriteRead'
    BY <1>3 DEF IInv, LastWriteRead
  <1> QED
    BY <1>4, <1>5, <1>6, <1>7, <1>8 DEF IInv

\* The unit's id is a data byte, ours too.
LEMMA DeviceIds ==
    ASSUME TypeOK
    PROVE  device_id \in 0..127
  BY UnitIdAssumption DEF TypeOK, DeviceIdBcast

\* A write carries the address and the bytes of its setting.
LEMMA WriteFrames ==
    ASSUME NEW id \in 0..127, NEW s \in Settings
    PROVE  LET f == EncodeDt1(id, Address(s) \o Bytes(s)) IN
           /\ f \in Seq(Byte)
           /\ SubSeq(f, 9, 12) = Address(s)
           /\ SubSeq(f, 13, Len(f) - 2) = Bytes(s)
           /\ Payload(f) = Address(s) \o Bytes(s)
  <1> DEFINE a == Address(s)
             d == Bytes(s)
             f == EncodeDt1(id, a \o d)
  <1>1. a \in Seq(Byte) /\ Len(a) = 4 /\ d \in Seq(Byte)
    BY AddressSeq, BytesSeq
  <1> HIDE DEF a, d
  <1>2. a \o d \in Seq(Byte)
    BY <1>1, Concatenated
  <1>3. Wraps(f, a \o d)
    BY <1>2, Framing
  <1> HIDE DEF f
  <1>4. f \in Seq(Byte)
    BY <1>3 DEF Wraps
  <1>5. /\ SubSeq(f, 9, 12) = a
        /\ SubSeq(f, 13, Len(f) - 2) = d
        /\ Payload(f) = a \o d
    BY <1>1, <1>3, Unwrapped
  <1> QED
    BY <1>4, <1>5 DEF f, a, d

\* A reply carries the address and the data.
LEMMA ReplyFrames ==
    ASSUME NEW s \in Settings, NEW d \in Seq(Byte)
    PROVE  LET f == Reply(Address(s) \o d) IN
           /\ f \in Seq(Byte)
           /\ SubSeq(f, 9, 12) = Address(s)
           /\ SubSeq(f, 13, Len(f) - 2) = d
  <1> DEFINE a == Address(s)
             f == Reply(a \o d)
  <1>1. a \in Seq(Byte) /\ Len(a) = 4
    BY AddressSeq
  <1> HIDE DEF a
  <1>2. a \o d \in Seq(Byte)
    BY <1>1, Concatenated
  <1>3. Wraps(f, a \o d)
    BY <1>2, Replying
  <1> HIDE DEF f
  <1>4. f \in Seq(Byte)
    BY <1>3 DEF Wraps
  <1>5. SubSeq(f, 9, 12) = a /\ SubSeq(f, 13, Len(f) - 2) = d
    BY <1>1, <1>3, Unwrapped
  <1> QED
    BY <1>4, <1>5 DEF f, a

\* A request carries the address and the width.
LEMMA AskFrames ==
    ASSUME NEW id \in 0..127, NEW s \in Settings
    PROVE  LET f == EncodeRq1(id, Address(s), <<0, 0, 0, W(s)>>) IN
           /\ f \in Seq(Byte)
           /\ SubSeq(f, 9, 12) = Address(s)
           /\ f[16] = W(s)
  <1> DEFINE a == Address(s)
             l == <<0, 0, 0, W(s)>>
             f == EncodeRq1(id, a, l)
             p == a \o l
  <1>1. a \in Seq(Byte) /\ Len(a) = 4
    BY AddressSeq
  <1>2. l \in Seq(Byte) /\ Len(l) = 4 /\ l[4] = W(s)
    <2>1. W(s) \in Byte /\ 0 \in Byte
      BY Widths DEF Byte
    <2> QED
      BY <2>1
  <1> HIDE DEF a, l
  <1>3. Wraps(f, p)
    BY <1>1, <1>2, FramingRq1
  <1>4. Len(p) = 8 /\ p[8] = l[4]
    <2>1. /\ Len(p) = Len(a) + Len(l)
          /\ \A i \in 1..Len(l) : p[Len(a) + i] = l[i]
      BY <1>1, <1>2, Concatenated
    <2> HIDE DEF p
    <2>2. 4 \in 1..Len(l) /\ Len(a) + 4 = 8 /\ Len(a) + Len(l) = 8
      BY <1>1, <1>2
    <2> QED
      BY <2>1, <2>2
  <1>5. SubSeq(f, 9, 12) = a
    <2> HIDE DEF f
    <2> QED
      BY <1>1, <1>2, <1>3, Unwrapped DEF p
  <1> HIDE DEF f, p
  <1>6. f \in Seq(Byte) /\ f[16] = p[8]
    BY <1>3, <1>4 DEF Wraps
  <1> QED
    BY <1>2, <1>4, <1>5, <1>6 DEF f, a, l

\* What is a sequence of bytes has bytes.
LEMMA FrameBytes ==
    ASSUME NEW f \in Seq(Byte)
    PROVE  \A i \in DOMAIN f : f[i] \in 0..255
  <1>1. \A i \in DOMAIN f : f[i] \in Byte
    OBVIOUS
  <1> QED
    BY <1>1 DEF Byte

\* A write is the frame of its setting.
LEMMA WriteKeeps ==
    ASSUME IInv, NEW s \in Settings, WriteSetting(s)
    PROVE  IInv'
  <1>1. /\ phase = "ready" /\ phase' = "sent"
        /\ Len(written) < MaxWrites
        /\ job' = s /\ decoded' = None /\ value' = None
        /\ frame' = EncodeDt1(device_id, Address(s) \o Bytes(s))
        /\ UNCHANGED <<device_id, model, memory, written>>
    BY DEF WriteSetting, BlockAddressValue, Address, Bytes, Entry
  <1>2. device_id \in 0..127
    BY DeviceIds DEF IInv
  <1>3. frame' \in Seq(Byte)
    BY <1>1, <1>2, WriteFrames
  <1>4. TypeOK'
    <2>1. \A i \in DOMAIN frame' : frame'[i] \in 0..255
      BY <1>3, FrameBytes
    <2> QED
      BY <1>1, <2>1 DEF IInv, TypeOK
  <1>5. OnTheWire' /\ Asked'
    BY <1>1 DEF OnTheWire, Asked
  <1>6. Counted'
    BY <1>1 DEF IInv, Counted
  <1>7. HasLast' /\ Remembered'
    BY <1>1, MemoryKept
  <1>8. LastWriteRead'
    BY <1>1 DEF LastWriteRead
  <1> QED
    BY <1>4, <1>5, <1>6, <1>7, <1>8 DEF IInv

\* A refusal leaves all as it was.
LEMMA RefusesKeeps ==
    ASSUME IInv, UnitRefuses
    PROVE  IInv'
  <1>1. /\ phase \in {"sent", "asked"} /\ phase' = "ready"
        /\ UNCHANGED <<device_id, model, frame, memory, job, decoded, value, written>>
    BY DEF UnitRefuses
  <1>2. TypeOK' /\ OnTheWire' /\ Asked' /\ Counted'
    BY <1>1 DEF IInv, TypeOK, OnTheWire, Asked, Counted
  <1>3. HasLast' /\ Remembered'
    BY <1>1, MemoryKept
  <1>4. LastWriteRead'
    BY <1>1 DEF IInv, LastWriteRead
  <1> QED
    BY <1>2, <1>3, <1>4 DEF IInv

\* So does the echo, but for what is decoded.
LEMMA EchoKeeps ==
    ASSUME IInv, ReceiveEcho
    PROVE  IInv'
  <1>1. /\ phase = "echo" /\ phase' = "ready"
        /\ UNCHANGED <<device_id, model, frame, memory, job, value, written>>
    BY DEF ReceiveEcho
  <1>2. TypeOK' /\ OnTheWire' /\ Asked' /\ Counted'
    BY <1>1 DEF IInv, TypeOK, OnTheWire, Asked, Counted
  <1>3. HasLast' /\ Remembered'
    BY <1>1, MemoryKept
  <1>4. LastWriteRead'
    BY <1>1 DEF IInv, LastWriteRead
  <1> QED
    BY <1>2, <1>3, <1>4 DEF IInv

\* Only a written setting is asked for.
LEMMA AskKeeps ==
    ASSUME IInv, NEW i \in DOMAIN written, AskSetting(written[i])
    PROVE  IInv'
  <1>1. PICK s \in Settings : s = written[i]
    BY DEF IInv, Counted
  <1>2. /\ phase = "ready" /\ phase' = "asked"
        /\ job' = s /\ decoded' = None /\ value' = None
        /\ frame' = EncodeRq1(device_id, Address(s), <<0, 0, 0, W(s)>>)
        /\ UNCHANGED <<device_id, model, memory, written>>
    <2>1. AskSetting(s)
      BY <1>1
    <2> QED
      BY <2>1 DEF AskSetting, BlockSettingBytes, Address, W, Entry
  <1>3. frame' \in Seq(Byte)
    <2>1. device_id \in 0..127
      BY DeviceIds DEF IInv
    <2> QED
      BY <1>2, <2>1, AskFrames
  <1>4. TypeOK'
    <2>1. \A k \in DOMAIN frame' : frame'[k] \in 0..255
      BY <1>3, FrameBytes
    <2> QED
      BY <1>2, <2>1 DEF IInv, TypeOK
  <1>5. OnTheWire'
    BY <1>2 DEF OnTheWire
  <1>6. Asked'
    BY <1>1, <1>2 DEF Asked
  <1>7. Counted'
    BY <1>2 DEF IInv, Counted
  <1>8. HasLast' /\ Remembered'
    BY <1>2, MemoryKept
  <1>9. LastWriteRead'
    BY <1>2 DEF LastWriteRead
  <1> QED
    BY <1>4, <1>5, <1>6, <1>7, <1>8, <1>9 DEF IInv

\* The answer has what memory holds.
LEMMA AnswersKeeps ==
    ASSUME IInv, UnitAnswers
    PROVE  IInv'
  <1>1. PICK s \in Settings : s = job
    BY DEF IInv, OnTheWire, UnitAnswers
  <1>2. frame = EncodeRq1(device_id, Address(s), <<0, 0, 0, W(s)>>)
    BY <1>1 DEF IInv, OnTheWire, UnitAnswers
  <1>3. SubSeq(frame, 9, 12) = Address(s) /\ frame[16] = W(s)
    <2>1. device_id \in 0..127
      BY DeviceIds DEF IInv
    <2> QED
      BY <1>2, <2>1, AskFrames
  <1>4. /\ phase = "asked" /\ phase' = "answered"
        /\ frame' = Reply(Address(s) \o Held(Address(s), W(s)))
        /\ UNCHANGED <<device_id, model, memory, job, decoded, value, written>>
    BY <1>3 DEF UnitAnswers
  <1>5. Held(Address(s), W(s)) \in Seq(Byte)
    <2>1. \A c \in DOMAIN memory : DataByte(memory[c])
      BY DEF IInv, TypeOK
    <2>2. W(s) \in Nat
      BY BytesSeq
    <2> QED
      BY <2>1, <2>2, HeldSeq
  <1>6. frame' \in Seq(Byte)
    BY <1>4, <1>5, ReplyFrames
  <1>7. TypeOK'
    <2>1. \A k \in DOMAIN frame' : frame'[k] \in 0..255
      BY <1>6, FrameBytes
    <2> QED
      BY <1>4, <2>1 DEF IInv, TypeOK
  <1>8. OnTheWire'
    <2>1. Held(Address(s), W(s))' = Held(Address(s), W(s))
      BY <1>4 DEF Held
    <2> QED
      BY <1>1, <1>4, <2>1 DEF OnTheWire
  <1>9. Asked' /\ Counted'
    BY <1>4 DEF IInv, Asked, Counted
  <1>10. HasLast' /\ Remembered'
    BY <1>4, MemoryKept
  <1>11. LastWriteRead'
    BY <1>4 DEF IInv, LastWriteRead
  <1> QED
    BY <1>7, <1>8, <1>9, <1>10, <1>11 DEF IInv

\* The unit keeps the bytes of the write; those of other settings stay.
LEMMA TakesKeeps ==
    ASSUME IInv, UnitTakes
    PROVE  IInv'
  <1>1. PICK s \in Settings : s = job
    BY DEF IInv, OnTheWire, UnitTakes
  <1>2. frame = EncodeDt1(device_id, Address(s) \o Bytes(s))
    BY <1>1 DEF IInv, OnTheWire, UnitTakes
  <1>3. /\ SubSeq(frame, 9, 12) = Address(s)
        /\ SubSeq(frame, 13, Len(frame) - 2) = Bytes(s)
        /\ Payload(frame) = Address(s) \o Bytes(s)
    <2>1. device_id \in 0..127
      BY DeviceIds DEF IInv
    <2> QED
      BY <1>2, <2>1, WriteFrames
  <1>4. /\ phase = "sent" /\ phase' = "echo"
        /\ memory' = Stored(Address(s), Bytes(s))
        /\ frame' = Reply(Address(s) \o Bytes(s))
        /\ written' = Append(written, s)
        /\ UNCHANGED <<device_id, model, job, decoded, value>>
    BY <1>1, <1>3 DEF UnitTakes
  <1>5. /\ written \in Seq(Settings)
        /\ Len(written) \in Nat
        /\ Len(written) < MaxWrites
    BY <1>4 DEF IInv, Counted
  <1>14. PICK n \in Nat : n = Len(written)
    BY <1>5
  <1>6. /\ written' \in Seq(Settings)
        /\ DOMAIN written = 1..n
        /\ DOMAIN written' = 1..(n + 1)
        /\ Len(written') = n + 1
        /\ written'[n + 1] = s
        /\ \A i \in 1..n : written'[i] = written[i]
        /\ \A i \in 1..n : written[i] \in Settings
    BY <1>4, <1>5, <1>14
  <1>7. frame' \in Seq(Byte)
    <2>1. Bytes(s) \in Seq(Byte)
      BY BytesSeq
    <2> QED
      BY <1>4, <2>1, ReplyFrames
  <1>8. \A c \in DOMAIN memory' : DataByte(memory'[c])
    <2>1. \A c \in DOMAIN memory : DataByte(memory[c])
      BY DEF IInv, TypeOK
    <2> QED
      BY <1>4, <2>1, StoredData
  <1>9. TypeOK'
    <2>1. \A k \in DOMAIN frame' : frame'[k] \in 0..255
      BY <1>7, FrameBytes
    <2>2. Len(written') <= MaxWrites
      BY <1>5, <1>6, <1>14, WritesAssumption
    <2> QED
      BY <1>4, <1>8, <2>1, <2>2 DEF IInv, TypeOK
  <1>10. OnTheWire'
    BY <1>1, <1>4 DEF OnTheWire
  <1>11. value = None
    BY <1>4 DEF IInv, Asked
  <1>12. Asked' /\ LastWriteRead'
    BY <1>4, <1>11 DEF Asked, LastWriteRead
  <1>13. Counted'
    BY <1>4, <1>6 DEF Counted
  <1>15. \A i \in 1..n : IsLast(i)' <=> IsLast(i) /\ ~SameSetting(s, written[i])
    <2> SUFFICES ASSUME NEW i \in 1..n
                 PROVE  IsLast(i)' <=> IsLast(i) /\ ~SameSetting(s, written[i])
      OBVIOUS
    <2>1. IsLast(i)' <=> \A j \in 1..(n + 1) :
                            SameSetting(written'[j], written[i]) => j <= i
      BY <1>6 DEF IsLast
    <2>2. IsLast(i) <=> \A j \in 1..n : SameSetting(written[j], written[i]) => j <= i
      BY <1>6 DEF IsLast
    <2>3. n + 1 \in 1..(n + 1) /\ ~(n + 1 <= i)
      BY <1>14
    <2>4. \A j \in 1..(n + 1) : j \in 1..n \/ j = n + 1
      BY <1>14
    <2>5. \A j \in 1..n : j \in 1..(n + 1)
      BY <1>14
    <2> QED
      BY <1>6, <2>1, <2>2, <2>3, <2>4, <2>5
  <1>16. IsLast(n + 1)'
    <2>1. \A j \in 1..(n + 1) : j <= n + 1
      BY <1>14
    <2> QED
      BY <1>6, <2>1 DEF IsLast
  <1>17. HasLast'
    <2> SUFFICES ASSUME NEW i \in 1..(n + 1)
                 PROVE  \E k \in 1..(n + 1) :
                          SameSetting(written'[k], written'[i]) /\ IsLast(k)'
      BY <1>6 DEF HasLast
    <2>1. n + 1 \in 1..(n + 1)
      BY <1>14
    <2>2. CASE SameSetting(s, written'[i])
      BY <1>6, <1>16, <2>1, <2>2
    <2>3. CASE ~SameSetting(s, written'[i])
      <3>1. i \in 1..n
        <4>1. i # n + 1
          BY <1>6, <2>3, SameIsEquivalence
        <4> QED
          BY <1>14, <4>1
      <3>2. PICK k \in 1..n : SameSetting(written[k], written[i]) /\ IsLast(k)
        BY <1>6, <3>1 DEF IInv, HasLast
      <3>3. ~SameSetting(s, written[k])
        BY <1>6, <2>3, <3>1, <3>2, SameIsEquivalence
      <3>4. IsLast(k)' /\ k \in 1..(n + 1)
        BY <1>14, <1>15, <3>2, <3>3
      <3> QED
        BY <1>6, <3>1, <3>2, <3>4
    <2> QED
      BY <2>2, <2>3
  <1>18. Remembered'
    <2> SUFFICES ASSUME NEW i \in 1..(n + 1), IsLast(i)',
                        NEW k \in 1..W(written'[i])
                 PROVE  LET c == Cell(Address(written'[i]), k) IN
                        c \in DOMAIN memory' /\ memory'[c] = Bytes(written'[i])[k]
      BY <1>6 DEF Remembered
    <2>1. CASE i = n + 1
      BY <1>4, <1>6, <2>1, StoredHere
    <2>2. CASE i # n + 1
      <3>1. i \in 1..n
        BY <1>14, <2>2
      <3>2. PICK t \in Settings : t = written[i] /\ t = written'[i]
        BY <1>6, <3>1
      <3>3. IsLast(i) /\ ~SameSetting(s, t)
        BY <1>15, <3>1, <3>2
      <3> DEFINE c == Cell(Address(t), k)
      <3>4. c \in DOMAIN memory /\ memory[c] = Bytes(t)[k]
        BY <1>6, <3>1, <3>2, <3>3 DEF IInv, Remembered
      <3>5. \A j \in 1..W(s) : c # Cell(Address(s), j)
        BY <3>2, <3>3, Apart
      <3> HIDE DEF c
      <3>6. c \in DOMAIN memory' /\ memory'[c] = memory[c]
        BY <1>4, <3>4, <3>5, StoredElsewhere
      <3> QED
        BY <3>2, <3>4, <3>6 DEF c
    <2> QED
      BY <2>1, <2>2
  <1> QED
    BY <1>9, <1>10, <1>12, <1>13, <1>17, <1>18 DEF IInv

\* What the application reads is what it wrote last.
LEMMA GotKeeps ==
    ASSUME IInv, GotSetting
    PROVE  IInv'
  <1>1. PICK s \in Settings : s = job
    BY DEF IInv, OnTheWire, GotSetting
  <1>2. PICK i \in DOMAIN written : written[i] = s
    BY <1>1 DEF IInv, Asked, GotSetting
  <1>3. PICK k \in DOMAIN written : SameSetting(written[k], s) /\ IsLast(k)
    BY <1>2 DEF IInv, HasLast
  <1>4. PICK t \in Settings : t = written[k]
    BY <1>3 DEF IInv, Counted
  <1>5. SameSetting(t, s)
    BY <1>3, <1>4
  <1>6. Address(s) = Address(t) /\ Entry(s) = Entry(t) /\ W(s) = W(t)
    BY <1>5, Same
  <1> DEFINE data == SubSeq(frame, 13, Len(frame) - 2)
             held == Held(Address(s), W(s))
  <1>7. held = Bytes(t)
    <2>1. \A j \in 1..W(t) : /\ Cell(Address(t), j) \in DOMAIN memory
                             /\ memory[Cell(Address(t), j)] = Bytes(t)[j]
      BY <1>3, <1>4 DEF IInv, Remembered
    <2>2. held = [j \in 1..W(t) |-> Bytes(t)[j]]
      BY <1>6, <2>1 DEF Held
    <2>3. Bytes(t) = [j \in 1..W(t) |-> Bytes(t)[j]]
      BY ReadBack
    <2> QED
      BY <2>2, <2>3
  <1>8. data = Bytes(t)
    <2>1. frame = Reply(Address(s) \o Bytes(t))
      BY <1>1, <1>7 DEF IInv, OnTheWire, GotSetting
    <2>2. Bytes(t) \in Seq(Byte)
      BY BytesSeq
    <2> QED
      BY <2>1, <2>2, ReplyFrames
  <1> HIDE DEF data, held
  <1>9. Raw(s, data) = t.raw
    <2>1. Raw(t, Bytes(t)) = t.raw
      BY ReadBack
    <2> QED
      BY <1>6, <1>8, <2>1 DEF Raw
  <1>10. value' = ReadLabel(Entry(s), Raw(s, data))
    <2>1. ParseDataReply(frame).data = data
      BY DEF ParseDataReply, ReplyData, data
    <2> QED
      BY <1>1, <2>1, Zenon DEF GotSetting, Entry, Raw, W
  <1>11. value'.raw = t.raw /\ value'.label = t.label
    <2>1. LabelForRaw(Entry(t).values, t.raw) = t.label
      BY Labelled
    <2> QED
      BY <1>6, <1>9, <1>10, <2>1 DEF ReadLabel
  <1>12. /\ phase = "answered" /\ phase' = "ready"
         /\ UNCHANGED <<device_id, model, frame, memory, job, decoded, written>>
    BY DEF GotSetting
  <1>13. TypeOK' /\ OnTheWire' /\ Asked' /\ Counted'
    BY <1>12 DEF IInv, TypeOK, OnTheWire, Asked, Counted
  <1>14. HasLast' /\ Remembered'
    BY <1>12, MemoryKept
  <1>15. LastWriteRead'
    <2>1. \A j \in DOMAIN written : SameSetting(written[j], s) => j <= k
      BY <1>3, SameIsEquivalence DEF IsLast
    <2> QED
      BY <1>1, <1>3, <1>4, <1>11, <1>12, <2>1 DEF LastWriteRead
  <1> QED
    BY <1>13, <1>14, <1>15 DEF IInv

\* A step of others changes nothing.
LEMMA StutterKeeps ==
    ASSUME IInv, UNCHANGED settingVars
    PROVE  IInv'
  <1>1. TypeOK' /\ OnTheWire' /\ Asked' /\ Counted'
    <2>1. Held(Address(job), W(job))' = Held(Address(job), W(job))
      BY DEF settingVars, Held
    <2> QED
      BY <2>1 DEF settingVars, IInv, TypeOK, OnTheWire, Asked, Counted
  <1>2. HasLast' /\ Remembered'
    BY MemoryKept DEF settingVars
  <1>3. LastWriteRead'
    BY DEF settingVars, IInv, LastWriteRead
  <1> QED
    BY <1>1, <1>2, <1>3 DEF IInv

\* The invariant holds of every conversation.
THEOREM Invariant == SettingSpec => []IInv
  <1>1. SettingInit => IInv
    BY Initially
  <1>2. IInv /\ [SettingNext]_settingVars => IInv'
    <2> SUFFICES ASSUME IInv, [SettingNext]_settingVars PROVE IInv'
      OBVIOUS
    <2>1. ASSUME NEW revs \in Revisions, Identify(revs) PROVE IInv'
      BY <2>1, IdentifyKeeps
    <2>2. ASSUME NEW s \in Settings, WriteSetting(s) PROVE IInv'
      BY <2>2, WriteKeeps
    <2>3. CASE UnitTakes
      BY <2>3, TakesKeeps
    <2>4. CASE UnitRefuses
      BY <2>4, RefusesKeeps
    <2>5. CASE ReceiveEcho
      BY <2>5, EchoKeeps
    <2>6. ASSUME NEW i \in DOMAIN written, AskSetting(written[i]) PROVE IInv'
      BY <2>6, AskKeeps
    <2>7. CASE UnitAnswers
      BY <2>7, AnswersKeeps
    <2>8. CASE GotSetting
      BY <2>8, GotKeeps
    <2>9. CASE UNCHANGED settingVars
      BY <2>9, StutterKeeps
    <2> QED
      BY <2>1, <2>2, <2>3, <2>4, <2>5, <2>6, <2>7, <2>8, <2>9 DEF SettingNext
  <1> QED
    BY <1>1, <1>2, PTL DEF SettingSpec

\* Every variable has its type: the frames are bytes, the unit's memory has
\* data bytes only, the device id is the unit's once it is negotiated.
THEOREM TypeCorrect == SettingSpec => []TypeOK
  <1>1. IInv => TypeOK
    BY DEF IInv
  <1> QED
    BY <1>1, Invariant, PTL

\* A read returns the value last written to the setting, whatever else was
\* written, for any tables in which settings of one section and option do not
\* overlap.
THEOREM LastWriteReadTheorem == SettingSpec => []LastWriteRead
  <1>1. IInv => LastWriteRead
    BY DEF IInv
  <1> QED
    BY <1>1, Invariant, PTL

\* The echo of a write decodes to the setting and the value written.
THEOREM EchoNamesWriteTheorem == SettingSpec => EchoNamesWrite
  <1>1. IInv /\ [SettingNext]_settingVars
          => [phase = "echo" /\ phase' # "echo" => NamesWrite(decoded', job)]_settingVars
    <2> SUFFICES ASSUME IInv, SettingNext, phase = "echo", phase' # "echo"
                 PROVE  NamesWrite(decoded', job)
      OBVIOUS
    <2>1. ReceiveEcho
      BY DEF SettingNext, Identify, WriteSetting, UnitTakes, UnitRefuses,
             ReceiveEcho, AskSetting, UnitAnswers, GotSetting
    <2>2. PICK s \in Settings : s = job
      BY DEF IInv, OnTheWire
    <2>3. frame = Reply(Address(s) \o Bytes(s))
      BY <2>2 DEF IInv, OnTheWire
    <2>4. /\ SubSeq(frame, 9, 12) = Address(s)
          /\ SubSeq(frame, 13, Len(frame) - 2) = Bytes(s)
      <3>1. Bytes(s) \in Seq(Byte)
        BY BytesSeq
      <3> QED
        BY <2>3, <3>1, ReplyFrames
    <2>5. decoded' = Decode(Address(s), Bytes(s))
      <3>1. /\ ParseDataReply(frame).offset = SubSeq(frame, 9, 12)
            /\ ParseDataReply(frame).data = SubSeq(frame, 13, Len(frame) - 2)
        BY DEF ParseDataReply, ReplyData
      <3>2. decoded' = Decode(ParseDataReply(frame).offset, ParseDataReply(frame).data)
        BY <2>1, Zenon DEF ReceiveEcho
      <3> QED
        BY <2>4, <3>1, <3>2, Zenon
    <2> QED
      BY <2>2, <2>5, DecodeNames
  <1> QED
    BY <1>1, Invariant, PTL DEF SettingSpec, EchoNamesWrite

\* A write the unit refuses is one whose bytes sum to a multiple of 128.
THEOREM RefusedAtZeroSumTheorem == SettingSpec => []RefusedAtZeroSum
  <1>1. IInv => RefusedAtZeroSum
    <2> SUFFICES ASSUME IInv, phase = "sent"
                 PROVE  Valid(frame) <=> ByteSum(Payload(frame)) % 128 # 0
      BY DEF RefusedAtZeroSum
    <2>1. PICK s \in Settings : s = job
      BY DEF IInv, OnTheWire
    <2>2. device_id = UnitId
      BY DEF IInv, TypeOK
    <2>3. frame = EncodeDt1(UnitId, Address(s) \o Bytes(s))
      BY <2>1, <2>2 DEF IInv, OnTheWire
    <2>4. Payload(frame) = Address(s) \o Bytes(s)
      <3>1. UnitId \in 0..127
        BY UnitIdAssumption
      <3> QED
        BY <2>3, <3>1, WriteFrames
    <2> QED
      BY <2>3, <2>4, WritesTaken
  <1> QED
    BY <1>1, Invariant, PTL

=============================================================================
