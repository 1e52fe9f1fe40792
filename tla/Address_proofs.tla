--------------------------- MODULE Address_proofs ---------------------------
(***************************************************************************)
(* Proofs about address literals and ranges: any width of a byte, any      *)
(* number of groups and any tables, literals of any length.                *)
(***************************************************************************)
EXTENDS Inspect_proofs

(***************************************************************************)
(* Addresses.  A recursive function over the positions of a list exists    *)
(* and keeps to its set.                                                   *)
(***************************************************************************)
Repeats(f, n, start, step) == f = [k \in 0..n |-> IF k = 0 THEN start ELSE step[k][f[k - 1]]]

LEMMA RepeatExists ==
  ASSUME NEW n \in Nat, NEW V, NEW start \in V, NEW step \in [1..n -> [V -> V]]
  PROVE  \E f \in [0..n -> V] : Repeats(f, n, start, step)
<1> DEFINE Upto(f, m) == f = [k \in 0..m |-> IF k = 0 THEN start ELSE step[k][f[k - 1]]]
           Good(m) == \E f \in [0..m -> V] : Upto(f, m)
           Wrong == {m \in 0..n : ~ Good(m)}
<1>1. SUFFICES ASSUME Wrong # {} PROVE FALSE
  <2> HIDE DEF Upto
  <2> QED
    BY DEF Repeats, Upto
<1>2. PICK m \in Wrong : \A k \in Wrong : k >= m
  <2>1. Wrong \in SUBSET Nat
    OBVIOUS
  <2> HIDE DEF Wrong
  <2> QED
    BY <1>1, <2>1, LeastNumber
<1>3. CASE m = 0
  <2>1. PICK f : f = [k \in 0..0 |-> start]
    OBVIOUS
  <2>2. f \in [0..0 -> V] /\ Upto(f, 0)
    BY <2>1
  <2> HIDE DEF Upto
  <2> QED
    BY <1>2, <1>3, <2>2
<1>4. CASE m # 0
  <2>1. m \in Nat /\ m - 1 \in 0..n /\ ~ (m - 1 >= m) /\ m \in 1..n
    BY <1>2, <1>4
  <2>2. Good(m - 1)
    BY <1>2, <2>1
  <2>3. PICK f \in [0..(m - 1) -> V] : Upto(f, m - 1)
    BY <2>2
  <2>4. PICK g : g = [k \in 0..m |-> IF k = 0 THEN start ELSE step[k][f[k - 1]]]
    OBVIOUS
  <2>5. \A k \in 0..m : k # 0 => k - 1 \in 0..(m - 1) /\ k \in 1..n
    BY <2>1
  <2>6. \A k \in 0..m : g[k] \in V
    <3> SUFFICES ASSUME NEW k \in 0..m PROVE g[k] \in V
      OBVIOUS
    <3>1. CASE k = 0
      BY <2>4, <3>1
    <3>2. CASE k # 0
      <4>1. f[k - 1] \in V /\ step[k] \in [V -> V]
        BY <2>3, <2>5, <3>2
      <4> QED
        BY <2>4, <3>2, <4>1
    <3> QED
      BY <3>1, <3>2
  <2>7. \A k \in 0..(m - 1) : f[k] = IF k = 0 THEN start ELSE step[k][f[k - 1]]
    BY <2>3
  <2>8. \A k \in 0..(m - 1) : g[k] = f[k]
    BY <2>1, <2>4, <2>7
  <2>9. g = [k \in 0..m |-> IF k = 0 THEN start ELSE step[k][g[k - 1]]]
    BY <2>4, <2>5, <2>8
  <2>10. g \in [0..m -> V]
    BY <2>4, <2>6
  <2>11. Good(m)
    BY <2>9, <2>10
  <2> HIDE DEF Good
  <2> QED
    BY <1>2, <2>11
<1> QED
  BY <1>3, <1>4

(* The numbers that the first digits of a list stand for. *)
ValuesBy(f, s, radix) ==
  f = [n \in 0..Len(s) |-> IF n = 0 THEN 0 ELSE f[n - 1] * radix + s[n]]

LEMMA ValuesExist ==
  ASSUME NEW s \in Seq(Nat), NEW radix \in Nat
  PROVE  \E f \in [0..Len(s) -> Nat] : ValuesBy(f, s, radix)
<1>1. PICK n \in Nat : n = Len(s) /\ \A k \in 1..n : s[k] \in Nat
  OBVIOUS
<1>2. PICK step : step = [k \in 1..n |-> [v \in Nat |-> v * radix + s[k]]]
  OBVIOUS
<1>3. ASSUME NEW v \in Nat, NEW d \in Nat PROVE v * radix + d \in Nat
  OBVIOUS
<1>4. \A k \in 1..n : [v \in Nat |-> v * radix + s[k]] \in [Nat -> Nat]
  BY <1>1, <1>3
<1>5. step \in [1..n -> [Nat -> Nat]]
  BY <1>2, <1>4
<1>6. PICK f \in [0..n -> Nat] : Repeats(f, n, 0, step)
  BY <1>5, RepeatExists
<1>7. \A k \in 0..n : k # 0 => k \in 1..n /\ k - 1 \in 0..n
  OBVIOUS
<1>8. \A k \in 0..n : k # 0 => step[k][f[k - 1]] = f[k - 1] * radix + s[k]
  BY <1>2, <1>6, <1>7
<1>9. f = [k \in 0..n |-> IF k = 0 THEN 0 ELSE step[k][f[k - 1]]]
  BY <1>6, Zenon DEF Repeats
<1>10. f = [k \in 0..n |-> IF k = 0 THEN 0 ELSE f[k - 1] * radix + s[k]]
  BY <1>8, <1>9
<1> QED
  BY <1>1, <1>6, <1>10 DEF ValuesBy

AgreeUpTo(f, g, n) == \A k \in 0..n : f[k] = g[k]

LEMMA ValuesAgree ==
  ASSUME NEW s \in Seq(Nat), NEW t \in Seq(Nat), NEW radix \in Nat, NEW f, NEW g,
         Len(s) <= Len(t), \A k \in 1..Len(s) : s[k] = t[k],
         ValuesBy(f, s, radix), ValuesBy(g, t, radix)
  PROVE  AgreeUpTo(f, g, Len(s))
<1>1. PICK n \in Nat, m \in Nat : n = Len(s) /\ m = Len(t) /\ n <= m
  OBVIOUS
<1>2. \A k \in 0..n : f[k] = IF k = 0 THEN 0 ELSE f[k - 1] * radix + s[k]
  BY <1>1, Zenon DEF ValuesBy
<1>3. \A k \in 0..m : g[k] = IF k = 0 THEN 0 ELSE g[k - 1] * radix + t[k]
  BY <1>1, Zenon DEF ValuesBy
<1> DEFINE Off == {k \in 0..n : f[k] # g[k]}
<1>4. SUFFICES ASSUME Off # {} PROVE FALSE
  BY <1>1 DEF AgreeUpTo
<1>5. PICK k \in Off : \A j \in Off : j >= k
  <2>1. Off \in SUBSET Nat
    OBVIOUS
  <2> HIDE DEF Off
  <2> QED
    BY <1>4, <2>1, LeastNumber
<1>6. k \in 0..n /\ k \in 0..m /\ f[k] # g[k]
  BY <1>1, <1>5
<1>7. k # 0
  BY <1>2, <1>3, <1>6
<1>8. k - 1 \in 0..n /\ ~ (k - 1 >= k) /\ k \in 1..n
  BY <1>6, <1>7
<1>9. f[k - 1] = g[k - 1]
  BY <1>5, <1>8
<1>10. s[k] = t[k]
  BY <1>1, <1>8
<1>11. f[k] = f[k - 1] * radix + s[k]
  BY <1>2, <1>6, <1>7
<1>12. g[k] = g[k - 1] * radix + t[k]
  BY <1>3, <1>6, <1>7
<1> QED
  BY <1>6, <1>9, <1>10, <1>11, <1>12

LEMMA DenotesIs ==
  ASSUME NEW s \in Seq(Nat), NEW radix \in Nat
  PROVE  \A f : ValuesBy(f, s, radix) =>
           f \in [0..Len(s) -> Nat] /\ Denotes(s, radix) = f[Len(s)]
<1>1. PICK f \in [0..Len(s) -> Nat] : ValuesBy(f, s, radix)
  BY ValuesExist
<1>2. PICK g : g = CHOOSE h : ValuesBy(h, s, radix)
  OBVIOUS
<1>3. ValuesBy(g, s, radix)
  BY <1>1, <1>2
<1>4. Denotes(s, radix) = g[Len(s)]
  BY <1>2, Zenon DEF Denotes, ValuesBy
<1>5. ASSUME NEW h, ValuesBy(h, s, radix)
      PROVE  h \in [0..Len(s) -> Nat] /\ Denotes(s, radix) = h[Len(s)]
  <2>0. AgreeUpTo(h, f, Len(s)) /\ AgreeUpTo(h, g, Len(s))
    BY <1>1, <1>3, <1>5, ValuesAgree
  <2>1. \A k \in 0..Len(s) : h[k] = f[k]
    BY <2>0 DEF AgreeUpTo
  <2>2. \A k \in 0..Len(s) : h[k] = g[k]
    BY <2>0 DEF AgreeUpTo
  <2>3. h = [k \in 0..Len(s) |-> IF k = 0 THEN 0 ELSE h[k - 1] * radix + s[k]]
    BY <1>5, Zenon DEF ValuesBy
  <2>4. DOMAIN h = 0..Len(s) /\ h = [k \in 0..Len(s) |-> h[k]]
    BY <2>3
  <2>5. Len(s) \in 0..Len(s)
    OBVIOUS
  <2>6. \A k \in 0..Len(s) : h[k] \in Nat
    BY <1>1, <2>1
  <2> QED
    BY <1>4, <2>2, <2>4, <2>5, <2>6
<1> QED
  BY <1>5

(* One more digit. *)
LEMMA DenotesLast ==
  ASSUME NEW s \in Seq(Nat), NEW radix \in Nat
  PROVE  /\ Denotes(s, radix) \in Nat
         /\ Len(s) = 0 => Denotes(s, radix) = 0
         /\ \A d \in Nat : Denotes(Append(s, d), radix) = Denotes(s, radix) * radix + d
<1>1. PICK f \in [0..Len(s) -> Nat] : ValuesBy(f, s, radix)
  BY ValuesExist
<1>2. Denotes(s, radix) = f[Len(s)]
  BY <1>1, DenotesIs
<1>3. \A k \in 0..Len(s) : f[k] = IF k = 0 THEN 0 ELSE f[k - 1] * radix + s[k]
  BY <1>1, Zenon DEF ValuesBy
<1>4. Denotes(s, radix) \in Nat /\ (Len(s) = 0 => Denotes(s, radix) = 0)
  BY <1>1, <1>2, <1>3
<1>5. ASSUME NEW d \in Nat
      PROVE  Denotes(Append(s, d), radix) = Denotes(s, radix) * radix + d
  <2>1. PICK n \in Nat : n = Len(s)
    OBVIOUS
  <2>2. PICK t \in Seq(Nat) : t = Append(s, d)
    OBVIOUS
  <2>3. Len(t) = n + 1 /\ t[n + 1] = d /\ \A k \in 1..n : s[k] = t[k]
    BY <2>1, <2>2
  <2>4. PICK g \in [0..Len(t) -> Nat] : ValuesBy(g, t, radix)
    BY ValuesExist
  <2>5. Denotes(t, radix) = g[n + 1]
    BY <2>3, <2>4, DenotesIs
  <2>6. \A k \in 0..Len(t) : g[k] = IF k = 0 THEN 0 ELSE g[k - 1] * radix + t[k]
    BY <2>4, Zenon DEF ValuesBy
  <2>7. g[n + 1] = g[n] * radix + d
    BY <2>3, <2>6
  <2>8. Len(s) <= Len(t) /\ \A k \in 1..Len(s) : s[k] = t[k]
    BY <2>1, <2>3
  <2>9. f[n] = g[n]
    <3>1. AgreeUpTo(f, g, Len(s))
      BY <1>1, <2>2, <2>4, <2>8, ValuesAgree
    <3> QED
      BY <2>1, <3>1 DEF AgreeUpTo
  <2> QED
    BY <1>2, <2>1, <2>2, <2>5, <2>7, <2>9
<1> QED
  BY <1>4, <1>5

(* Up to four digits, and up to four factors. *)
LEMMA DenotesFour ==
  ASSUME NEW s \in Seq(Nat), NEW radix \in Nat
  PROVE  /\ Len(s) = 0 => Denotes(s, radix) = 0
         /\ Len(s) = 1 => Denotes(s, radix) = s[1]
         /\ Len(s) = 2 => Denotes(s, radix) = s[1] * radix + s[2]
         /\ Len(s) = 3 => Denotes(s, radix) = (s[1] * radix + s[2]) * radix + s[3]
         /\ Len(s) = 4 =>
              Denotes(s, radix) = ((s[1] * radix + s[2]) * radix + s[3]) * radix + s[4]
<1>1. PICK f \in [0..Len(s) -> Nat] : ValuesBy(f, s, radix)
  BY ValuesExist
<1>2. Denotes(s, radix) = f[Len(s)]
  BY <1>1, DenotesIs
<1>3. \A k \in 0..Len(s) : f[k] = IF k = 0 THEN 0 ELSE f[k - 1] * radix + s[k]
  BY <1>1, Zenon DEF ValuesBy
<1>4. PICK n \in Nat : n = Len(s) /\ \A k \in 1..n : s[k] \in Nat
  OBVIOUS
<1>5. f[0] = 0 /\ (n >= 1 => f[1] = f[0] * radix + s[1])
  BY <1>3, <1>4
<1>6. n >= 1 => f[1] = s[1]
  <2> SUFFICES ASSUME n >= 1 PROVE f[1] = s[1]
    OBVIOUS
  <2>1. s[1] \in Nat
    BY <1>4
  <2> QED
    BY <1>5, <2>1
<1>7. n >= 2 => f[2] = f[1] * radix + s[2]
  BY <1>3, <1>4
<1>8. n >= 3 => f[3] = f[2] * radix + s[3]
  BY <1>3, <1>4
<1>9. n >= 4 => f[4] = f[3] * radix + s[4]
  BY <1>3, <1>4
<1>10. n >= 2 => f[2] = s[1] * radix + s[2]
  BY <1>6, <1>7
<1>11. n >= 3 => f[3] = (s[1] * radix + s[2]) * radix + s[3]
  BY <1>8, <1>10
<1>12. n >= 4 => f[4] = ((s[1] * radix + s[2]) * radix + s[3]) * radix + s[4]
  BY <1>9, <1>11
<1>13. Denotes(s, radix) = f[n]
  BY <1>2, <1>4
<1>14. /\ n = 0 => f[n] = 0
       /\ n = 1 => f[n] = s[1]
       /\ n = 2 => f[n] = s[1] * radix + s[2]
       /\ n = 3 => f[n] = (s[1] * radix + s[2]) * radix + s[3]
       /\ n = 4 => f[n] = ((s[1] * radix + s[2]) * radix + s[3]) * radix + s[4]
  BY <1>5, <1>6, <1>10, <1>11, <1>12
<1> QED
  BY <1>4, <1>13, <1>14, Zenon

Powers(f, b, n) == f = [k \in 0..n |-> IF k = 0 THEN 1 ELSE f[k - 1] * b]

LEMMA PowerIs ==
  ASSUME NEW b \in Nat
  PROVE  /\ Power(b, 0) = 1
         /\ \A n \in Nat : Power(b, n) \in Nat /\ Power(b, n + 1) = Power(b, n) * b
<1>1. ASSUME NEW n \in Nat
      PROVE  /\ \E f \in [0..n -> Nat] : Powers(f, b, n)
  <2>1. PICK step : step = [k \in 1..n |-> [v \in Nat |-> v * b]]
    OBVIOUS
  <2>2. step \in [1..n -> [Nat -> Nat]]
    BY <2>1
  <2>3. PICK f \in [0..n -> Nat] : Repeats(f, n, 1, step)
    BY <2>2, RepeatExists
  <2>4. \A k \in 0..n : k # 0 => k \in 1..n /\ k - 1 \in 0..n
    OBVIOUS
  <2>5. \A k \in 0..n : k # 0 => step[k][f[k - 1]] = f[k - 1] * b
    BY <2>1, <2>3, <2>4
  <2>6. f = [k \in 0..n |-> IF k = 0 THEN 1 ELSE step[k][f[k - 1]]]
    BY <2>3, Zenon DEF Repeats
  <2>7. f = [k \in 0..n |-> IF k = 0 THEN 1 ELSE f[k - 1] * b]
    BY <2>5, <2>6
  <2> QED
    BY <2>3, <2>7 DEF Powers
<1>2. ASSUME NEW n \in Nat, NEW m \in Nat, n <= m, NEW f, NEW g, Powers(f, b, n), Powers(g, b, m)
      PROVE  AgreeUpTo(f, g, n)
  <2>1. \A k \in 0..n : f[k] = IF k = 0 THEN 1 ELSE f[k - 1] * b
    BY <1>2, Zenon DEF Powers
  <2>2. \A k \in 0..m : g[k] = IF k = 0 THEN 1 ELSE g[k - 1] * b
    BY <1>2, Zenon DEF Powers
  <2> DEFINE Off == {k \in 0..n : f[k] # g[k]}
  <2>3. SUFFICES ASSUME Off # {} PROVE FALSE
    BY DEF AgreeUpTo
  <2>4. PICK k \in Off : \A j \in Off : j >= k
    <3>1. Off \in SUBSET Nat
      OBVIOUS
    <3> HIDE DEF Off
    <3> QED
      BY <2>3, <3>1, LeastNumber
  <2>5. k \in 0..n /\ k \in 0..m /\ f[k] # g[k]
    BY <1>2, <2>4
  <2>6. k # 0
    BY <2>1, <2>2, <2>5
  <2>7. k - 1 \in 0..n /\ ~ (k - 1 >= k)
    BY <2>5, <2>6
  <2>8. f[k - 1] = g[k - 1]
    BY <2>4, <2>7
  <2>9. f[k] = f[k - 1] * b /\ g[k] = g[k - 1] * b
    BY <2>1, <2>2, <2>5, <2>6
  <2> QED
    BY <2>5, <2>8, <2>9
<1>3. ASSUME NEW n \in Nat, NEW f, Powers(f, b, n)
      PROVE  Power(b, n) = f[n] /\ f[n] \in Nat
  <2>1. PICK g : g = CHOOSE h : Powers(h, b, n)
    OBVIOUS
  <2>2. Powers(g, b, n)
    BY <1>3, <2>1
  <2>3. Power(b, n) = g[n]
    BY <2>1, Zenon DEF Power, Powers
  <2>4. PICK h \in [0..n -> Nat] : Powers(h, b, n)
    BY <1>1
  <2>5. n \in 0..n /\ n <= n
    OBVIOUS
  <2>6. g[n] = h[n] /\ f[n] = h[n]
    <3>1. AgreeUpTo(g, h, n) /\ AgreeUpTo(f, h, n)
      BY <1>2, <1>3, <2>2, <2>4, <2>5
    <3> QED
      BY <2>5, <3>1 DEF AgreeUpTo
  <2> QED
    BY <2>3, <2>4, <2>5, <2>6
<1>4. Power(b, 0) = 1
  <2>1. PICK f \in [0..0 -> Nat] : Powers(f, b, 0)
    BY <1>1
  <2>2. f[0] = 1
    <3>1. \A k \in 0..0 : f[k] = IF k = 0 THEN 1 ELSE f[k - 1] * b
      BY <2>1, Zenon DEF Powers
    <3> QED
      BY <3>1
  <2> QED
    BY <1>3, <2>1, <2>2
<1>5. ASSUME NEW n \in Nat PROVE Power(b, n) \in Nat /\ Power(b, n + 1) = Power(b, n) * b
  <2>1. PICK f \in [0..n -> Nat] : Powers(f, b, n)
    BY <1>1
  <2>2. n + 1 \in Nat /\ n <= n + 1 /\ n \in 0..n
    OBVIOUS
  <2>3. PICK g \in [0..(n + 1) -> Nat] : Powers(g, b, n + 1)
    BY <1>1, <2>2
  <2>4. \A k \in 0..(n + 1) : g[k] = IF k = 0 THEN 1 ELSE g[k - 1] * b
    BY <2>3, Zenon DEF Powers
  <2>5. g[n + 1] = g[n] * b
    BY <2>4
  <2>6. f[n] = g[n]
    <3>1. PICK m \in Nat : m = n + 1 /\ n <= m
      BY <2>2
    <3>2. Powers(g, b, m)
      BY <2>3, <3>1
    <3>3. AgreeUpTo(f, g, n)
      BY <1>2, <2>1, <3>1, <3>2
    <3> QED
      BY <2>2, <3>3 DEF AgreeUpTo
  <2>7. Power(b, n) = f[n] /\ f[n] \in Nat
    BY <1>3, <2>1
  <2>8. Power(b, n + 1) = g[n + 1]
    BY <1>3, <2>2, <2>3
  <2> QED
    BY <2>5, <2>6, <2>7, <2>8
<1> QED
  BY <1>4, <1>5

LEMMA FourPowers ==
  ASSUME NEW b \in Nat
  PROVE  /\ Power(b, 0) = 1 /\ Power(b, 1) = b /\ Power(b, 2) = b * b
         /\ Power(b, 3) = (b * b) * b /\ Power(b, 4) = ((b * b) * b) * b
<1>1. Power(b, 0) = 1 /\ Power(b, 0 + 1) = Power(b, 0) * b /\ Power(b, 1 + 1) = Power(b, 1) * b
      /\ Power(b, 2 + 1) = Power(b, 2) * b /\ Power(b, 3 + 1) = Power(b, 3) * b
  BY PowerIs
<1>2. 0 + 1 = 1 /\ 1 + 1 = 2 /\ 2 + 1 = 3 /\ 3 + 1 = 4
  OBVIOUS
<1> QED
  BY <1>1, <1>2

(* Quotients and remainders. *)
LEMMA Divided ==
  ASSUME NEW x \in Nat, NEW b \in Nat \ {0}
  PROVE  \E q \in Nat, r \in 0..(b - 1) : q = x \div b /\ r = x % b /\ x = q * b + r
<1>1. PICK q \in Int, r \in Int : q = x \div b /\ r = x % b
  OBVIOUS
<1>2. x = b * q + r /\ r >= 0 /\ r < b
  BY <1>1
<1>3. q >= 0
  <2> SUFFICES ASSUME q < 0 PROVE FALSE
    OBVIOUS
  <2>1. PICK k \in Nat : q = - 1 - k
    <3>1. - 1 - q \in Nat /\ q = - 1 - (- 1 - q)
      OBVIOUS
    <3> QED
      BY <3>1
  <2>2. b * q = - b - b * k /\ b * k \in Nat
    BY <2>1
  <2> QED
    BY <1>2, <2>2
<1>4. q \in Nat /\ r \in 0..(b - 1)
  BY <1>2, <1>3
<1>5. x = q * b + r
  BY <1>2
<1> QED
  BY <1>1, <1>4, <1>5

LEMMA QuotientIs ==
  ASSUME NEW b \in Nat \ {0}, NEW q \in Nat, NEW r \in 0..(b - 1)
  PROVE  (q * b + r) \div b = q /\ (q * b + r) % b = r
<1>1. PICK x \in Nat : x = q * b + r
  OBVIOUS
<1>2. PICK p \in Nat, s \in 0..(b - 1) : p = x \div b /\ s = x % b /\ x = p * b + s
  BY Divided
<1>3. p = q
  <2>1. CASE p < q
    <3>1. p * b + b <= q * b
      <4>1. PICK k \in Nat : q = p + 1 + k
        <5>1. q - p - 1 \in Nat
          BY <2>1
        <5> QED
          BY <5>1
      <4>2. q * b = p * b + b + k * b /\ k * b \in Nat
        BY <4>1
      <4> QED
        BY <4>2
    <3> QED
      BY <1>1, <1>2, <3>1
  <2>2. CASE q < p
    <3>1. q * b + b <= p * b
      <4>1. PICK k \in Nat : p = q + 1 + k
        <5>1. p - q - 1 \in Nat
          BY <2>2
        <5> QED
          BY <5>1
      <4>2. p * b = q * b + b + k * b /\ k * b \in Nat
        BY <4>1
      <4> QED
        BY <4>2
    <3> QED
      BY <1>1, <1>2, <3>1
  <2> QED
    BY <2>1, <2>2
<1>4. s = r
  BY <1>1, <1>2, <1>3
<1> QED
  BY <1>1, <1>2, <1>3, <1>4

LEMMA DividedTwice ==
  ASSUME NEW x \in Nat, NEW a \in Nat \ {0}, NEW b \in Nat \ {0}
  PROVE  x \div (a * b) = (x \div a) \div b
<1>1. PICK q \in Nat, r \in 0..(a - 1) : q = x \div a /\ x = q * a + r
  BY Divided
<1>2. PICK p \in Nat, s \in 0..(b - 1) : p = q \div b /\ q = p * b + s
  BY Divided
<1>3. PICK c \in Nat \ {0} : c = a * b
  OBVIOUS
<1>4. x = p * c + (s * a + r)
  <2>1. q * a = (p * b) * a + s * a
    BY <1>2
  <2>2. (p * b) * a = p * c
    BY <1>3
  <2> QED
    BY <1>1, <2>1, <2>2
<1>5. s * a + r \in 0..(c - 1)
  <2>1. s * a + r \in Nat
    OBVIOUS
  <2>2. PICK k \in Nat : b = s + 1 + k
    <3>1. b - s - 1 \in Nat
      OBVIOUS
    <3> QED
      BY <3>1
  <2>3. c = s * a + a + k * a /\ k * a \in Nat
    BY <1>3, <2>2
  <2> QED
    BY <2>1, <2>3
<1>6. x \div c = p
  BY <1>4, <1>5, QuotientIs
<1> QED
  BY <1>1, <1>2, <1>3, <1>6

-----------------------------------------------------------------------------
(* Dotted text.  The four bytes of a number, and the number of four bytes. *)
LEMMA ByteIs == Byte \in Nat \ {0} /\ Byte \in 2..1000
BY LiteralAssumption

FourDigits(n, radix) == [i \in 1..4 |-> (n \div Power(radix, 4 - i)) % radix]

LEMMA DigitsBack ==
  ASSUME NEW radix \in Nat \ {0}, NEW v \in Seq(Nat), Len(v) = 4, \A k \in 1..4 : v[k] < radix
  PROVE  /\ FourDigits(Denotes(v, radix), radix) = v
         /\ Denotes(v, radix) < Power(radix, 4)
<1>1. PICK a \in 0..(radix - 1), b \in 0..(radix - 1), c \in 0..(radix - 1), d \in 0..(radix - 1) :
        a = v[1] /\ b = v[2] /\ c = v[3] /\ d = v[4]
  <2>1. \A k \in 1..4 : v[k] \in Nat /\ v[k] < radix
    <3>1. \A k \in 1..Len(v) : v[k] \in Nat
      BY ElementOfSeq
    <3> QED
      BY <3>1
  <2>2. \A k \in 1..4 : v[k] \in 0..(radix - 1)
    BY <2>1
  <2> QED
    BY <2>2
<1>2. PICK two \in Nat, three \in Nat, four \in Nat :
        two = a * radix + b /\ three = two * radix + c /\ four = three * radix + d
  <2>1. a \in Nat /\ b \in Nat /\ c \in Nat /\ d \in Nat
    BY <1>1
  <2>2. PICK two \in Nat : two = a * radix + b
    BY <2>1
  <2>3. PICK three \in Nat : three = two * radix + c
    BY <2>1
  <2>4. PICK four \in Nat : four = three * radix + d
    BY <2>1
  <2> QED
    BY <2>2, <2>3, <2>4
<1>3. Denotes(v, radix) = four
  <2>1. Denotes(v, radix) = ((a * radix + b) * radix + c) * radix + d
    BY <1>1, DenotesFour
  <2> QED
    BY <1>2, <2>1
<1>4. four \div radix = three /\ four % radix = d
  BY <1>1, <1>2, QuotientIs
<1>5. three \div radix = two /\ three % radix = c
  BY <1>1, <1>2, QuotientIs
<1>6. two \div radix = a /\ two % radix = b
  <2>1. a \in Nat
    BY <1>1
  <2> QED
    BY <1>1, <1>2, <2>1, QuotientIs
<1>7. a % radix = a
  <2>1. a = 0 * radix + a
    BY <1>1
  <2>2. (0 * radix + a) % radix = a
    BY <1>1, QuotientIs
  <2> QED
    BY <2>1, <2>2
<1>8. /\ Power(radix, 0) = 1 /\ Power(radix, 1) = radix /\ Power(radix, 2) = radix * radix
      /\ Power(radix, 3) = (radix * radix) * radix /\ Power(radix, 4) = ((radix * radix) * radix) * radix
  BY FourPowers
<1>9. PICK square \in Nat \ {0}, cube \in Nat \ {0} :
        square = radix * radix /\ cube = square * radix
  OBVIOUS
<1>10. four \div square = two
  <2>1. four \div (radix * radix) = (four \div radix) \div radix
    BY DividedTwice
  <2> QED
    BY <1>4, <1>5, <1>9, <2>1
<1>11. four \div cube = a
  <2>1. four \div (square * radix) = (four \div square) \div radix
    BY DividedTwice
  <2> QED
    BY <1>6, <1>9, <1>10, <2>1
<1>12. FourDigits(four, radix) = [i \in 1..4 |-> (four \div Power(radix, 4 - i)) % radix]
  BY DEF FourDigits
<1>13. PICK t : t = FourDigits(four, radix)
  OBVIOUS
<1>14. /\ t[4] = (four \div Power(radix, 0)) % radix /\ t[3] = (four \div Power(radix, 1)) % radix
       /\ t[2] = (four \div Power(radix, 2)) % radix /\ t[1] = (four \div Power(radix, 3)) % radix
  BY <1>12, <1>13
<1>15. four \div 1 = four
  OBVIOUS
<1>16. t[1] = a /\ t[2] = b /\ t[3] = c /\ t[4] = d
  BY <1>4, <1>5, <1>6, <1>7, <1>8, <1>9, <1>10, <1>11, <1>14, <1>15
<1>17. DOMAIN t = 1..4 /\ t = [i \in 1..4 |-> t[i]]
  BY <1>12, <1>13
<1>18. DOMAIN v = 1..4 /\ v = [i \in 1..4 |-> v[i]]
  OBVIOUS
<1>19. \A i \in 1..4 : t[i] = v[i]
  <2>1. \A i \in 1..4 : i = 1 \/ i = 2 \/ i = 3 \/ i = 4
    OBVIOUS
  <2> QED
    BY <1>1, <1>16, <2>1
<1>20. four < Power(radix, 4)
  <2>1. two < square
    <3>1. a * radix + radix <= square
      <4>1. PICK k \in Nat : radix = a + 1 + k
        <5>1. radix - a - 1 \in Nat
          OBVIOUS
        <5> QED
          BY <5>1
      <4>2. square = a * radix + radix + k * radix /\ k * radix \in Nat
        BY <1>9, <4>1
      <4> QED
        BY <4>2
    <3> QED
      BY <1>2, <3>1
  <2>2. three < cube
    <3>1. PICK k \in Nat : square = two + 1 + k
      <4>1. square - two - 1 \in Nat
        BY <2>1
      <4> QED
        BY <4>1
    <3>2. cube = two * radix + radix + k * radix /\ k * radix \in Nat
      BY <1>9, <3>1
    <3> QED
      BY <1>2, <3>2
  <2>3. four < cube * radix
    <3>1. PICK k \in Nat : cube = three + 1 + k
      <4>1. cube - three - 1 \in Nat
        BY <2>2
      <4> QED
        BY <4>1
    <3>2. cube * radix = three * radix + radix + k * radix /\ k * radix \in Nat
      BY <3>1
    <3> QED
      BY <1>2, <3>2
  <2> QED
    BY <1>8, <1>9, <2>3
<1> QED
  BY <1>3, <1>13, <1>17, <1>18, <1>19, <1>20

LEMMA DigitsOf ==
  ASSUME NEW radix \in Nat \ {0}, NEW n \in Nat, n < Power(radix, 4)
  PROVE  /\ FourDigits(n, radix) \in Seq(Nat) /\ Len(FourDigits(n, radix)) = 4
         /\ \A k \in 1..4 : FourDigits(n, radix)[k] < radix
         /\ Denotes(FourDigits(n, radix), radix) = n
<1>1. PICK three \in Nat, d \in 0..(radix - 1) : three = n \div radix /\ n = three * radix + d
  BY Divided
<1>2. PICK two \in Nat, c \in 0..(radix - 1) : two = three \div radix /\ three = two * radix + c
  BY Divided
<1>3. PICK a \in Nat, b \in 0..(radix - 1) : a = two \div radix /\ two = a * radix + b
  BY Divided
<1>4. a < radix
  <2> SUFFICES ASSUME radix <= a PROVE FALSE
    OBVIOUS
  <2>1. PICK cube \in Nat : cube = (radix * radix) * radix /\ Power(radix, 4) = radix * cube
    <3>1. Power(radix, 4) = ((radix * radix) * radix) * radix
      BY FourPowers
    <3>2. (radix * radix) * radix \in Nat
      OBVIOUS
    <3> QED
      BY <3>1, <3>2
  <2>2. PICK k \in Nat : a = radix + k
    <3>1. a - radix \in Nat
      OBVIOUS
    <3> QED
      BY <3>1
  <2>3. two * (radix * radix) = a * cube + b * (radix * radix) /\ b * (radix * radix) \in Nat
    BY <1>3, <2>1
  <2>4. n = two * (radix * radix) + c * radix + d /\ c * radix \in Nat
    <3>1. three * radix = (two * radix + c) * radix
      BY <1>2
    <3>2. (two * radix + c) * radix = two * (radix * radix) + c * radix
      OBVIOUS
    <3>3. c * radix \in Nat
      OBVIOUS
    <3> QED
      BY <1>1, <3>1, <3>2, <3>3
  <2>5. a * cube = radix * cube + k * cube /\ k * cube \in Nat
    BY <2>1, <2>2
  <2>6. radix * cube \in Nat /\ a * cube \in Nat /\ two * (radix * radix) \in Nat
    BY <2>1
  <2>7. n >= radix * cube
    BY <2>3, <2>4, <2>5, <2>6
  <2> QED
    BY <2>1, <2>6, <2>7
<1>5. PICK v : v = <<a, b, c, d>>
  OBVIOUS
<1>6. v \in Seq(Nat) /\ Len(v) = 4 /\ v[1] = a /\ v[2] = b /\ v[3] = c /\ v[4] = d
  BY <1>5
<1>7. \A k \in 1..4 : v[k] < radix
  <2>1. \A k \in 1..4 : k = 1 \/ k = 2 \/ k = 3 \/ k = 4
    OBVIOUS
  <2> QED
    BY <1>4, <1>6, <2>1
<1>8. Denotes(v, radix) = ((a * radix + b) * radix + c) * radix + d
  BY <1>6, DenotesFour
<1>9. Denotes(v, radix) = n
  BY <1>1, <1>2, <1>3, <1>8
<1>10. FourDigits(n, radix) = v
  BY <1>6, <1>7, <1>9, DigitsBack
<1> QED
  BY <1>6, <1>7, <1>9, <1>10
LEMMA BytesOf ==
  ASSUME NEW n \in Nat, n < Power(Byte, 4)
  PROVE  /\ toDotted(n) \in Seq(Nat) /\ Len(toDotted(n)) = 4
         /\ \A k \in 1..4 : toDotted(n)[k] < Byte
         /\ Denotes(toDotted(n), Byte) = n
<1>1. toDotted(n) = FourDigits(n, Byte)
  BY DEF toDotted, FourDigits
<1> QED
  BY <1>1, ByteIs, DigitsOf

LEMMA FourBytes ==
  ASSUME NEW v \in Seq(Nat), Len(v) = 4, \A k \in 1..4 : v[k] < Byte
  PROVE  /\ toDotted(Denotes(v, Byte)) = v
         /\ Denotes(v, Byte) < Power(Byte, 4)
<1>1. toDotted(Denotes(v, Byte)) = FourDigits(Denotes(v, Byte), Byte)
  BY DEF toDotted, FourDigits
<1> QED
  BY <1>1, ByteIs, DigitsBack

LEMMA DecimalIs ==
  ASSUME NEW b \in Nat, b < 1000
  PROVE  /\ Decimal(b) \in Ipv4Part /\ Decimal(b).hex = FALSE
         /\ parsePart(Decimal(b)) = [value |-> b, nonDecimal |-> FALSE]
<1>1. PICK d : d = Decimal(b).digits
  OBVIOUS
<1>2. d = IF b < 10 THEN <<b>> ELSE IF b < 100 THEN <<b \div 10, b % 10>>
          ELSE <<b \div 100, (b \div 10) % 10, b % 10>>
  BY <1>1 DEF Decimal
<1>3. d \in Seq(0..9) /\ d # <<>> /\ ~ (Len(d) > 1 /\ d[1] = 0) /\ Denotes(d, 10) = b
  <2>1. CASE b < 10
    <3>1. d = <<b>> /\ b \in 0..9
      BY <1>2, <2>1
    <3>2. d \in Seq(Nat) /\ d \in Seq(0..9) /\ Len(d) = 1 /\ d[1] = b
      BY <3>1
    <3> QED
      BY <3>2, DenotesFour
  <2>2. CASE b >= 10 /\ b < 100
    <3>1. d = <<b \div 10, b % 10>> /\ b \div 10 \in 1..9 /\ b % 10 \in 0..9
      BY <1>2, <2>2
    <3>2. d \in Seq(Nat) /\ d \in Seq(0..9) /\ Len(d) = 2 /\ d[1] = b \div 10 /\ d[2] = b % 10
      BY <3>1
    <3>3. Denotes(d, 10) = d[1] * 10 + d[2]
      BY <3>2, DenotesFour
    <3> QED
      BY <3>1, <3>2, <3>3
  <2>3. CASE b >= 100
    <3>1. /\ d = <<b \div 100, (b \div 10) % 10, b % 10>>
          /\ b \div 100 \in 1..9 /\ (b \div 10) % 10 \in 0..9 /\ b % 10 \in 0..9
      BY <1>2, <2>3
    <3>2. /\ d \in Seq(Nat) /\ d \in Seq(0..9) /\ Len(d) = 3
          /\ d[1] = b \div 100 /\ d[2] = (b \div 10) % 10 /\ d[3] = b % 10
      BY <3>1
    <3>3. Denotes(d, 10) = (d[1] * 10 + d[2]) * 10 + d[3]
      BY <3>2, DenotesFour
    <3> QED
      BY <3>1, <3>2, <3>3
  <2> QED
    BY <2>1, <2>2, <2>3
<1>4. Decimal(b) = [hex |-> FALSE, digits |-> d]
  BY <1>1 DEF Decimal
<1>5. Decimal(b) \in Ipv4Part /\ Decimal(b).hex = FALSE
  BY <1>3, <1>4 DEF Ipv4Part
<1> QED
  BY <1>1, <1>3, <1>5 DEF parsePart

LEMMA DecimalUnique ==
  ASSUME NEW d \in Seq(0..9), d # <<>>, ~ (Len(d) > 1 /\ d[1] = 0), Denotes(d, 10) < 1000
  PROVE  Decimal(Denotes(d, 10)).digits = d
<1>1. d \in Seq(Nat) /\ \A k \in 1..Len(d) : d[k] \in 0..9
  <2>1. \A k \in 1..Len(d) : d[k] \in 0..9
    BY ElementOfSeq
  <2>2. d \in Seq(Nat)
    OBVIOUS
  <2> QED
    BY <2>1, <2>2
<1>2. PICK f \in [0..Len(d) -> Nat] : ValuesBy(f, d, 10)
  BY <1>1, ValuesExist
<1>3. \A k \in 0..Len(d) : f[k] = IF k = 0 THEN 0 ELSE f[k - 1] * 10 + d[k]
  BY <1>2, Zenon DEF ValuesBy
<1>4. Denotes(d, 10) = f[Len(d)]
  BY <1>1, <1>2, DenotesIs
<1>5. PICK n \in Nat : n = Len(d) /\ n >= 1
  OBVIOUS
<1>6. n <= 3
  <2> SUFFICES ASSUME n >= 4 PROVE FALSE
    BY <1>5
  <2>1. d[1] \in 1..9
    BY <1>1, <1>5
  <2>2. \A k \in 1..n : f[k] = f[k - 1] * 10 + d[k] /\ d[k] \in Nat /\ f[k] \in Nat /\ f[k - 1] \in Nat
    <3> SUFFICES ASSUME NEW k \in 1..n
                 PROVE  f[k] = f[k - 1] * 10 + d[k] /\ d[k] \in Nat /\ f[k] \in Nat /\ f[k - 1] \in Nat
      OBVIOUS
    <3>1. k \in 0..Len(d) /\ k - 1 \in 0..Len(d) /\ k # 0 /\ k \in 1..Len(d)
      BY <1>5
    <3>2. f[k] \in Nat /\ f[k - 1] \in Nat
      BY <1>2, <3>1
    <3>3. d[k] \in Nat
      BY <1>1, <3>1
    <3>4. f[k] = IF k = 0 THEN 0 ELSE f[k - 1] * 10 + d[k]
      BY <1>3, <3>1, Zenon
    <3> QED
      BY <3>1, <3>2, <3>3, <3>4, Zenon
  <2>3. f[4] >= 1000
    <3>0. f[1] = f[0] * 10 + d[1] /\ f[2] = f[1] * 10 + d[2] /\ f[3] = f[2] * 10 + d[3]
          /\ f[4] = f[3] * 10 + d[4]
      <4>1. 1 - 1 = 0 /\ 2 - 1 = 1 /\ 3 - 1 = 2 /\ 4 - 1 = 3 /\ 1 \in 1..n /\ 2 \in 1..n
            /\ 3 \in 1..n /\ 4 \in 1..n
        OBVIOUS
      <4> QED
        BY <2>2, <4>1
    <3>1. f[0] = 0 /\ f[1] \in Nat /\ f[2] \in Nat /\ f[3] \in Nat /\ d[2] \in Nat
          /\ d[3] \in Nat /\ d[4] \in Nat
      <4>1. 0 \in 0..Len(d) /\ 1 \in 1..n /\ 2 \in 1..n /\ 3 \in 1..n /\ 4 \in 1..n
        OBVIOUS
      <4>2. f[0] = 0
        BY <1>3, <4>1
      <4> QED
        BY <2>2, <4>1, <4>2, Zenon
    <3>2. PICK a \in 1..9, b \in Nat, c \in Nat, e \in Nat :
            a = d[1] /\ b = d[2] /\ c = d[3] /\ e = d[4]
      BY <2>1, <3>1
    <3>3. (((0 * 10 + a) * 10 + b) * 10 + c) * 10 + e >= 1000
      OBVIOUS
    <3>4. f[4] = (((0 * 10 + a) * 10 + b) * 10 + c) * 10 + e
      BY <3>0, <3>1, <3>2, Zenon
    <3> QED
      BY <3>3, <3>4, Zenon
  <2> DEFINE Off == {k \in 4..n : f[k] < 1000}
  <2>4. n \in Off
    BY <1>4, <1>5
  <2>5. PICK k \in Off : \A j \in Off : j >= k
    <3>1. Off \in SUBSET Nat /\ Off # {}
      BY <2>4
    <3> HIDE DEF Off
    <3> QED
      BY <3>1, LeastNumber
  <2>6. k \in 4..n /\ f[k] < 1000
    BY <2>5
  <2>7. k # 4
    BY <2>3, <2>6
  <2>8. k - 1 \in 4..n /\ ~ (k - 1 >= k) /\ k \in 1..n
    BY <2>6, <2>7
  <2>9. ~ (f[k - 1] < 1000)
    BY <2>5, <2>8
  <2>10. f[k] = f[k - 1] * 10 + d[k] /\ d[k] \in Nat /\ f[k] \in Nat /\ f[k - 1] \in Nat
    BY <2>2, <2>8
  <2> QED
    BY <2>6, <2>9, <2>10
<1>0. \A t \in Seq(0..9) : Len(t) = n /\ (\A k \in 1..n : t[k] = d[k]) => d = t
  <2> SUFFICES ASSUME NEW t \in Seq(0..9), Len(t) = n, \A k \in 1..n : t[k] = d[k]
               PROVE  d = t
    OBVIOUS
  <2> QED
    BY <1>5
<1>7. CASE n = 1
  <2>1. PICK a \in 0..9 : a = d[1] /\ d = <<a>>
    <3>1. PICK a \in 0..9 : a = d[1]
      BY <1>1, <1>5, <1>7
    <3>2. <<a>> \in Seq(0..9) /\ Len(<<a>>) = 1 /\ <<a>>[1] = a
      OBVIOUS
    <3>3. \A k \in 1..n : <<a>>[k] = d[k]
      BY <1>7, <3>1
    <3> QED
      BY <1>0, <1>7, <3>1, <3>2, <3>3
  <2>2. Denotes(d, 10) = a
    BY <1>1, <1>5, <1>7, <2>1, DenotesFour
  <2> QED
    BY <2>1, <2>2 DEF Decimal
<1>8. CASE n = 2
  <2>1. PICK a \in 0..9, b \in 0..9 : a = d[1] /\ b = d[2] /\ d = <<a, b>> /\ a # 0
    <3>1. PICK a \in 0..9, b \in 0..9 : a = d[1] /\ b = d[2] /\ a # 0
      <4>1. d[1] \in 0..9 /\ d[2] \in 0..9 /\ d[1] # 0
        BY <1>1, <1>5, <1>8, SMTT(30)
      <4> QED
        BY <4>1, Zenon
    <3>2. <<a, b>> \in Seq(0..9) /\ Len(<<a, b>>) = 2
      OBVIOUS
    <3>3. \A k \in 1..n : <<a, b>>[k] = d[k]
      BY <1>8, <3>1
    <3> QED
      BY <1>0, <1>8, <3>1, <3>2, <3>3
  <2>2. Denotes(d, 10) = a * 10 + b
    BY <1>1, <1>5, <1>8, <2>1, DenotesFour
  <2>3. PICK v \in Nat : v = a * 10 + b
    OBVIOUS
  <2>4. ~ (v < 10) /\ v < 100 /\ v \div 10 = a /\ v % 10 = b
    <3>1. 10 \in Nat \ {0} /\ a \in Nat /\ b \in 0..(10 - 1)
      OBVIOUS
    <3>2. (a * 10 + b) \div 10 = a /\ (a * 10 + b) % 10 = b
      BY <3>1, QuotientIs
    <3>3. v \div 10 = a /\ v % 10 = b
      BY <2>3, <3>2, Zenon
    <3>4. a \in 1..9 /\ b \in 0..9
      BY <2>1
    <3>5. v >= 10 /\ v < 100
      BY <2>3, <3>4
    <3> QED
      BY <3>3, <3>5
  <2>5. Decimal(v).digits = <<v \div 10, v % 10>>
    BY <2>4 DEF Decimal
  <2>6. Decimal(v).digits = <<a, b>>
    BY <2>4, <2>5, Zenon
  <2> QED
    BY <2>1, <2>2, <2>3, <2>6, Zenon
<1>9. CASE n = 3
  <2>1. PICK a \in 0..9, b \in 0..9, c \in 0..9 :
          a = d[1] /\ b = d[2] /\ c = d[3] /\ d = <<a, b, c>> /\ a # 0
    <3>1. PICK a \in 0..9, b \in 0..9, c \in 0..9 : a = d[1] /\ b = d[2] /\ c = d[3] /\ a # 0
      <4>1. d[1] \in 0..9 /\ d[2] \in 0..9 /\ d[3] \in 0..9 /\ d[1] # 0
        BY <1>1, <1>5, <1>9, SMTT(30)
      <4> QED
        BY <4>1, Zenon
    <3>2. <<a, b, c>> \in Seq(0..9) /\ Len(<<a, b, c>>) = 3
      OBVIOUS
    <3>3. \A k \in 1..n : <<a, b, c>>[k] = d[k]
      BY <1>9, <3>1
    <3> QED
      BY <1>0, <1>9, <3>1, <3>2, <3>3
  <2>2. Denotes(d, 10) = (a * 10 + b) * 10 + c
    BY <1>1, <1>5, <1>9, <2>1, DenotesFour
  <2>3. PICK v \in Nat : v = (a * 10 + b) * 10 + c
    OBVIOUS
  <2>4. ~ (v < 100) /\ v \div 100 = a /\ v \div 10 = a * 10 + b /\ v % 10 = c
    <3>1. /\ 10 \in Nat \ {0} /\ a * 10 + b \in Nat /\ c \in 0..(10 - 1)
          /\ 100 \in Nat \ {0} /\ a \in Nat /\ b * 10 + c \in 0..(100 - 1)
      OBVIOUS
    <3>2. ((a * 10 + b) * 10 + c) \div 10 = a * 10 + b /\ ((a * 10 + b) * 10 + c) % 10 = c
      BY <3>1, QuotientIs
    <3>3. (a * 100 + (b * 10 + c)) \div 100 = a
      BY <3>1, QuotientIs
    <3>4. v = a * 100 + (b * 10 + c)
      BY <2>3
    <3>5. v \div 100 = a
      BY <3>3, <3>4, Zenon
    <3>6. v \div 10 = a * 10 + b /\ v % 10 = c
      BY <2>3, <3>2, Zenon
    <3>7. a \in 1..9 /\ b \in 0..9 /\ c \in 0..9
      BY <2>1
    <3>8. v >= 100
      BY <2>3, <3>7
    <3> QED
      BY <3>5, <3>6, <3>8
  <2>5. (v \div 10) % 10 = b
    <3>1. 10 \in Nat \ {0} /\ a \in Nat /\ b \in 0..(10 - 1)
      OBVIOUS
    <3>2. (a * 10 + b) % 10 = b
      BY <3>1, QuotientIs, SMTT(30)
    <3> QED
      BY <2>4, <3>2
  <2>6. Decimal(v).digits = <<v \div 100, (v \div 10) % 10, v % 10>>
    BY <2>4 DEF Decimal
  <2>7. Decimal(v).digits = <<a, b, c>>
    BY <2>4, <2>5, <2>6, Zenon
  <2> QED
    BY <2>1, <2>2, <2>3, <2>7, Zenon
<1> QED
  BY <1>5, <1>6, <1>7, <1>8, <1>9

LEMMA PartIs ==
  ASSUME NEW p \in Ipv4Part, parsePart(p) # Null
  PROVE  /\ parsePart(p).value \in Nat /\ parsePart(p).nonDecimal \in BOOLEAN
         /\ ~ parsePart(p).nonDecimal /\ parsePart(p).value < 1000 =>
              p = Decimal(parsePart(p).value)
<1>1. PICK d : d = p.digits
  OBVIOUS
<1>2. \/ p.hex = TRUE /\ d \in Seq(0..15) /\ p = [hex |-> TRUE, digits |-> d]
      \/ p.hex = FALSE /\ d \in Seq(0..9) /\ p = [hex |-> FALSE, digits |-> d]
  BY <1>1 DEF Ipv4Part
<1>3. d # <<>> /\ d \in Seq(Nat)
  <2>1. d # <<>>
    BY <1>1 DEF parsePart
  <2>2. d \in Seq(Nat)
    BY <1>2
  <2> QED
    BY <2>1, <2>2
<1>4. PICK o : o = (Len(d) > 1 /\ d[1] = 0 /\ \A n \in DOMAIN d : d[n] < 8)
  OBVIOUS
<1>5. PICK radix \in Nat : radix = IF p.hex THEN 16 ELSE IF o THEN 8 ELSE 10
  OBVIOUS
<1>6. parsePart(p) = [value |-> Denotes(d, radix), nonDecimal |-> p.hex \/ (Len(d) > 1 /\ d[1] = 0)]
  BY <1>1, <1>3, <1>4, <1>5, Zenon DEF parsePart
<1>7. Denotes(d, radix) \in Nat
  BY <1>3, DenotesLast
<1>8. ASSUME ~ parsePart(p).nonDecimal, parsePart(p).value < 1000
      PROVE  p = Decimal(parsePart(p).value)
  <2>0. ~ (p.hex \/ (Len(d) > 1 /\ d[1] = 0))
    <3>1. PICK v, b : v = Denotes(d, radix) /\ b = (p.hex \/ (Len(d) > 1 /\ d[1] = 0))
      OBVIOUS
    <3>2. parsePart(p) = [value |-> v, nonDecimal |-> b]
      BY <1>6, <3>1, Zenon
    <3>3. parsePart(p).nonDecimal = b
      BY <3>2
    <3> QED
      BY <1>8, <3>1, <3>3, Zenon
  <2>1. p.hex = FALSE /\ ~ (Len(d) > 1 /\ d[1] = 0)
    <3>1. p.hex = TRUE \/ p.hex = FALSE
      BY <1>2, Zenon
    <3> QED
      BY <2>0, <3>1, Zenon
  <2>2. radix = 10
    BY <1>4, <1>5, <2>1
  <2>3. parsePart(p).value = Denotes(d, 10)
    BY <1>6, <2>2
  <2>4. Decimal(Denotes(d, 10)).digits = d
    BY <1>2, <1>3, <1>8, <2>1, <2>3, DecimalUnique
  <2>5. Decimal(Denotes(d, 10)) = [hex |-> FALSE, digits |-> Decimal(Denotes(d, 10)).digits]
    BY DEF Decimal
  <2> QED
    BY <1>2, <2>1, <2>3, <2>4, <2>5
<1> QED
  BY <1>2, <1>6, <1>7, <1>8

LEMMA ListIs ==
  ASSUME NEW S, NEW n \in Nat, NEW f \in [1..n -> S]
  PROVE  f \in Seq(S) /\ Len(f) = n /\ DOMAIN f = 1..n
OBVIOUS

LEMMA OneBelow ==
  ASSUME NEW a \in Nat, NEW k \in 1..a
  PROVE  k - 1 \in Nat /\ k - 1 < a /\ k = (k - 1) + 1
OBVIOUS

LEMMA OneAbove ==
  ASSUME NEW a \in Nat, NEW k \in Nat, k < a
  PROVE  k + 1 \in 1..a
OBVIOUS

LEMMA Below ==
  ASSUME NEW a \in Nat, NEW b \in Nat, NEW q \in Nat, NEW r \in Nat, q < a, r < b
  PROVE  q * b + r < a * b
<1>1. PICK k \in Nat : a = q + 1 + k
  <2>1. a - q - 1 \in Nat /\ a = q + 1 + (a - q - 1)
    OBVIOUS
  <2> QED
    BY <2>1
<1>2. a * b = q * b + b + k * b /\ k * b \in Nat /\ q * b \in Nat
  BY <1>1
<1> QED
  BY <1>2

LEMMA LeadingBelow ==
  ASSUME NEW radix \in Nat \ {0}, NEW v \in Seq(Nat), Len(v) <= 3, \A k \in 1..Len(v) : v[k] < radix,
         NEW rest \in Nat, rest < Power(radix, 4 - Len(v))
  PROVE  Denotes(v, radix) * Power(radix, 4 - Len(v)) + rest < Power(radix, 4)
<1>1. PICK two \in Nat, three \in Nat, four \in Nat :
        two = radix * radix /\ three = two * radix /\ four = three * radix
  OBVIOUS
<1>2. /\ Power(radix, 1) = radix /\ Power(radix, 2) = two /\ Power(radix, 3) = three
      /\ Power(radix, 4) = four
  BY <1>1, FourPowers
<1>3. \A k \in 1..Len(v) : v[k] \in Nat
  BY ElementOfSeq
<1>4. CASE Len(v) = 0
  <2>0. 4 - Len(v) = 4
    BY <1>4
  <2>1. Denotes(v, radix) = 0 /\ 4 - Len(v) = 4
    BY <1>4, <2>0, DenotesFour, Zenon
  <2>2. 0 * Power(radix, 4) + rest = rest
    BY <1>2
  <2> QED
    BY <2>1, <2>2
<1>5. CASE Len(v) = 1
  <2>1. PICK a \in Nat : a = v[1] /\ a < radix
    BY <1>3, <1>5
  <2>2. Denotes(v, radix) = a /\ 4 - Len(v) = 3 /\ rest < three
    BY <1>2, <1>5, <2>1, DenotesFour
  <2>3. a * three + rest < radix * three
    BY <2>1, <2>2, Below
  <2>4. radix * three = four
    BY <1>1
  <2> QED
    BY <1>2, <2>2, <2>3, <2>4, Zenon
<1>6. CASE Len(v) = 2
  <2>1. PICK a \in Nat, b \in Nat : a = v[1] /\ a < radix /\ b = v[2] /\ b < radix
    BY <1>3, <1>6
  <2>2. Denotes(v, radix) = a * radix + b /\ 4 - Len(v) = 2 /\ rest < two
    BY <1>2, <1>6, <2>1, DenotesFour
  <2>3. a * radix + b \in Nat /\ a * radix + b < two
    <3>1. a * radix + b < radix * radix
      BY <2>1, Below
    <3>2. a * radix + b \in Nat
      OBVIOUS
    <3> QED
      BY <1>1, <3>1, <3>2, Zenon
  <2>4. (a * radix + b) * two + rest < two * two
    BY <2>2, <2>3, Below
  <2>5. two * two = four
    BY <1>1
  <2> QED
    BY <1>2, <2>2, <2>4, <2>5, Zenon
<1>7. CASE Len(v) = 3
  <2>1. PICK a \in Nat, b \in Nat, c \in Nat :
          a = v[1] /\ a < radix /\ b = v[2] /\ b < radix /\ c = v[3] /\ c < radix
    BY <1>3, <1>7
  <2>2. Denotes(v, radix) = (a * radix + b) * radix + c /\ 4 - Len(v) = 1 /\ rest < radix
    BY <1>2, <1>7, <2>1, DenotesFour
  <2>3. a * radix + b \in Nat /\ a * radix + b < two
    <3>1. a * radix + b < radix * radix
      BY <2>1, Below
    <3>2. a * radix + b \in Nat
      OBVIOUS
    <3> QED
      BY <1>1, <3>1, <3>2, Zenon
  <2>4. PICK x \in Nat : x = a * radix + b /\ x < two
    BY <2>3
  <2>5. x * radix + c < two * radix /\ x * radix + c \in Nat
    <3>1. x * radix + c < two * radix
      BY <2>1, <2>4, Below
    <3>2. x * radix + c \in Nat
      OBVIOUS
    <3> QED
      BY <3>1, <3>2, Zenon
  <2>6. PICK y \in Nat : y = x * radix + c /\ y < three
    BY <1>1, <2>5
  <2>7. y * radix + rest < three * radix
    BY <2>2, <2>6, Below
  <2> QED
    BY <1>1, <1>2, <2>2, <2>4, <2>6, <2>7, Zenon
<1>8. Len(v) = 0 \/ Len(v) = 1 \/ Len(v) = 2 \/ Len(v) = 3
  <2>1. PICK l \in Nat : l = Len(v) /\ l <= 3
    OBVIOUS
  <2>2. \A x \in Nat : x <= 3 => x = 0 \/ x = 1 \/ x = 2 \/ x = 3
    OBVIOUS
  <2> QED
    BY <2>1, <2>2, Zenon
<1> QED
  BY <1>4, <1>5, <1>6, <1>7, <1>8, Zenon

(* The analysis in terms of its parts. *)
PartValue(parts, n) == parsePart(parts[n]).value
Leading(parts) == [n \in 1..(Len(parts) - 1) |-> PartValue(parts, n)]
Refuses(parts) ==
  \/ Len(parts) \notin 1..4
  \/ \E n \in DOMAIN parts : parsePart(parts[n]) = Null
  \/ PartValue(parts, Len(parts)) >= Power(Byte, 5 - Len(parts))
  \/ \E n \in 1..(Len(parts) - 1) : PartValue(parts, n) > Byte - 1
Unusual(parts) == Len(parts) # 4 \/ \E n \in DOMAIN parts : parsePart(parts[n]).nonDecimal

LEMMA Ipv4By ==
  ASSUME NEW parts \in Seq(Ipv4Part)
  PROVE  analyzeParts(parts) =
           IF Refuses(parts) THEN Null
           ELSE [canonical |-> toDotted(Worth(parts)), obfuscated |-> Unusual(parts)]
<1>1. PICK len \in Nat : len = Len(parts) /\ DOMAIN parts = 1..len
  OBVIOUS
<1>2. PICK parsed : parsed = [n \in DOMAIN parts |-> parsePart(parts[n])]
  OBVIOUS
<1>3. /\ \A n \in 1..len : parsed[n] = parsePart(parts[n])
      /\ DOMAIN parsed = 1..len
  BY <1>1, <1>2
<1>4. CASE len \notin 1..4
  <2>1. analyzeParts(parts) = Null
    BY <1>1, <1>4, Zenon DEF analyzeParts
  <2> QED
    BY <1>1, <1>4, <2>1, Zenon DEF Refuses
<1>5. CASE len \in 1..4
  <2>1. len \in 1..len /\ (\A n \in 1..(len - 1) : n \in 1..len) /\ 4 - (len - 1) = 5 - len
    BY <1>5
  <2>2. parsed[len].value = PartValue(parts, len)
        /\ \A n \in 1..(len - 1) : parsed[n].value = PartValue(parts, n)
    BY <1>3, <2>1 DEF PartValue
  <2>3. [n \in 1..(len - 1) |-> parsed[n].value] = Leading(parts)
    BY <1>1, <2>2 DEF Leading
  <2>4. /\ analyzeParts(parts) =
             IF \/ len \notin 1..4
                \/ \E n \in DOMAIN parsed : parsed[n] = Null
                \/ parsed[len].value >= Power(Byte, 5 - len)
                \/ \E n \in 1..(len - 1) : parsed[n].value > Byte - 1
             THEN Null
             ELSE [canonical |-> toDotted(Denotes(Leading(parts), Byte) * Power(Byte, 5 - len)
                                           + parsed[len].value),
                   obfuscated |-> len # 4 \/ \E n \in DOMAIN parsed : parsed[n].nonDecimal]
    BY <1>1, <1>2, <2>1, <2>3, Zenon DEF analyzeParts, lastTooLarge
  <2>5. Worth(parts) = Denotes(Leading(parts), Byte) * Power(Byte, 5 - len) + PartValue(parts, len)
    BY <1>1, Zenon DEF Worth, Leading, PartValue
  <2>6. (\E n \in DOMAIN parsed : parsed[n] = Null) <=> \E n \in DOMAIN parts : parsePart(parts[n]) = Null
    BY <1>1, <1>3, Zenon
  <2>7. (\E n \in DOMAIN parsed : parsed[n].nonDecimal)
          = (\E n \in DOMAIN parts : parsePart(parts[n]).nonDecimal)
    <3>1. \A n \in DOMAIN parts : parsed[n].nonDecimal = parsePart(parts[n]).nonDecimal
      BY <1>1, <1>3, Zenon
    <3> QED
      BY <1>1, <1>3, <3>1, Zenon
  <2>8. (\E n \in 1..(len - 1) : parsed[n].value > Byte - 1)
          <=> \E n \in 1..(len - 1) : PartValue(parts, n) > Byte - 1
    BY <2>2, Zenon
  <2>9. (len # 4 \/ \E n \in DOMAIN parsed : parsed[n].nonDecimal) = Unusual(parts)
    BY <1>1, <2>7, Zenon DEF Unusual
  <2>10. Refuses(parts) <=>
           \/ len \notin 1..4
           \/ \E n \in DOMAIN parsed : parsed[n] = Null
           \/ parsed[len].value >= Power(Byte, 5 - len)
           \/ \E n \in 1..(len - 1) : parsed[n].value > Byte - 1
    BY <1>1, <2>2, <2>6, <2>8, Zenon DEF Refuses
  <2> QED
    BY <2>2, <2>4, <2>5, <2>9, <2>10, Zenon
<1> QED
  BY <1>4, <1>5, Zenon

(* A dotted literal that is read is the address its parts stand for. *)
LEMMA Ipv4Answers ==
  ASSUME NEW parts \in Seq(Ipv4Part), analyzeParts(parts) # Null
  PROVE  /\ Worth(parts) \in Nat /\ Worth(parts) < Power(Byte, 4)
         /\ analyzeParts(parts) = [canonical |-> toDotted(Worth(parts)), obfuscated |-> Unusual(parts)]
         /\ ~ Unusual(parts) => parts = Dotted(toDotted(Worth(parts)))
<1>1. /\ ~ Refuses(parts)
      /\ analyzeParts(parts) = [canonical |-> toDotted(Worth(parts)), obfuscated |-> Unusual(parts)]
  BY Ipv4By, Zenon
<1>2. PICK len \in 1..4 : len = Len(parts) /\ DOMAIN parts = 1..len
  BY <1>1 DEF Refuses
<1>3. \A n \in 1..len : parts[n] \in Ipv4Part /\ parsePart(parts[n]) # Null /\ PartValue(parts, n) \in Nat
  <2>1. \A n \in 1..len : parts[n] \in Ipv4Part
    BY <1>2, ElementOfSeq
  <2>2. \A n \in 1..len : parsePart(parts[n]) # Null
    BY <1>1, <1>2, Zenon DEF Refuses
  <2>3. ASSUME NEW n \in 1..len PROVE PartValue(parts, n) \in Nat
    BY <2>1, <2>2, PartIs, Zenon DEF PartValue
  <2> QED
    BY <2>1, <2>2, <2>3
<1>4. PICK last \in Nat : last = PartValue(parts, len)
  BY <1>3
<1>5. last < Power(Byte, 5 - len)
  <2>1. ~ (PartValue(parts, len) >= Power(Byte, 5 - len))
    BY <1>1, <1>2, Zenon DEF Refuses
  <2>2. 5 - len \in Nat
    OBVIOUS
  <2>3. Power(Byte, 5 - len) \in Nat
    BY <2>2, ByteIs, PowerIs
  <2> QED
    BY <1>4, <2>1, <2>3
<1>6. PICK v \in Seq(Nat) : v = Leading(parts) /\ Len(v) = len - 1 /\ \A n \in 1..(len - 1) : v[n] = PartValue(parts, n)
  <2>1. Leading(parts) = [n \in 1..(len - 1) |-> PartValue(parts, n)]
    BY <1>2 DEF Leading
  <2>2. \A n \in 1..(len - 1) : PartValue(parts, n) \in Nat
    BY <1>3
  <2>3. PICK m \in Nat : m = len - 1
    OBVIOUS
  <2>4. Leading(parts) \in [1..m -> Nat]
    BY <2>1, <2>2, <2>3
  <2>5. Leading(parts) \in Seq(Nat)
    BY <2>4
  <2>6. Len(Leading(parts)) = m
    BY <2>4, <2>5
  <2> QED
    BY <2>1, <2>3, <2>5, <2>6
<1>7. \A n \in 1..Len(v) : v[n] < Byte
  <2>1. \A n \in 1..(len - 1) : ~ (PartValue(parts, n) > Byte - 1)
    BY <1>1, <1>2, Zenon DEF Refuses
  <2>2. ASSUME NEW n \in 1..(len - 1) PROVE v[n] < Byte
    <3>1. PICK x \in Nat : x = PartValue(parts, n)
      BY <1>3
    <3>2. PICK b \in Nat : b = Byte
      BY ByteIs
    <3>3. ~ (x > b - 1)
      BY <2>1, <3>1, <3>2
    <3> QED
      BY <1>6, <3>1, <3>2, <3>3
  <2> QED
    BY <1>6, <2>2
<1>8. Worth(parts) = Denotes(v, Byte) * Power(Byte, 4 - Len(v)) + last
  <2>1. Worth(parts) = Denotes(Leading(parts), Byte) * Power(Byte, 5 - len) + PartValue(parts, len)
    BY <1>2, Zenon DEF Worth, Leading, PartValue
  <2>2. 4 - Len(v) = 5 - len
    BY <1>6
  <2> QED
    BY <1>4, <1>6, <2>1, <2>2, Zenon
<1>9. Worth(parts) \in Nat /\ Worth(parts) < Power(Byte, 4)
  <2>1. Len(v) <= 3 /\ 4 - Len(v) = 5 - len /\ 4 - Len(v) \in Nat
    BY <1>6
  <2>2. Power(Byte, 4 - Len(v)) \in Nat /\ Denotes(v, Byte) \in Nat
    BY <2>1, ByteIs, PowerIs, DenotesLast
  <2>3. Denotes(v, Byte) * Power(Byte, 4 - Len(v)) + last < Power(Byte, 4)
    <3>1. last < Power(Byte, 4 - Len(v))
      BY <1>5, <2>1, Zenon
    <3> QED
      BY <1>7, <2>1, <3>1, ByteIs, LeadingBelow
  <2>4. PICK q \in Nat, b \in Nat : q = Denotes(v, Byte) /\ b = Power(Byte, 4 - Len(v))
    BY <2>2
  <2>5. Worth(parts) = q * b + last /\ q * b + last < Power(Byte, 4)
    BY <1>8, <2>3, <2>4, Zenon
  <2>6. q * b + last \in Nat
    OBVIOUS
  <2> QED
    BY <2>5, <2>6, Zenon
<1>10. ASSUME ~ Unusual(parts) PROVE parts = Dotted(toDotted(Worth(parts)))
  <2>1. len = 4 /\ \A n \in 1..4 : ~ parsePart(parts[n]).nonDecimal
    BY <1>2, <1>10, Zenon DEF Unusual
  <2>2. PICK w \in Seq(Nat) : w = Append(v, last) /\ Len(w) = Len(v) + 1 /\ w[Len(v) + 1] = last
                             /\ \A n \in 1..Len(v) : w[n] = v[n]
    <3>1. Append(v, last) \in Seq(Nat)
      OBVIOUS
    <3>2. Len(Append(v, last)) = Len(v) + 1 /\ Append(v, last)[Len(v) + 1] = last
          /\ \A n \in 1..Len(v) : Append(v, last)[n] = v[n]
      OBVIOUS
    <3> QED
      BY <3>1, <3>2, Zenon
  <2>3. Len(w) = 4 /\ \A n \in 1..4 : w[n] = PartValue(parts, n) /\ w[n] < Byte
    <3>1. Len(w) = 4 /\ w[4] = last /\ \A n \in 1..3 : w[n] = v[n]
      <4>1. Len(v) = 3
        BY <1>6, <2>1
      <4> QED
        BY <2>2, <4>1
    <3>2. last < Byte
      <4>1. 5 - len = 1
        BY <2>1
      <4>2. Power(Byte, 1) = Byte
        BY ByteIs, FourPowers
      <4> QED
        BY <1>5, <4>1, <4>2
    <3>3. \A n \in 1..3 : w[n] = PartValue(parts, n) /\ w[n] < Byte
      BY <1>6, <1>7, <2>1, <3>1
    <3>4. \A n \in 1..4 : n \in 1..3 \/ n = 4
      OBVIOUS
    <3> QED
      BY <1>4, <2>1, <3>1, <3>2, <3>3, <3>4
  <2>4. Worth(parts) = Denotes(w, Byte)
    <3>1. Denotes(w, Byte) = Denotes(v, Byte) * Byte + last
      BY <2>2, ByteIs, DenotesLast
    <3>2. 4 - Len(v) = 1
      BY <1>6, <2>1
    <3>3. Power(Byte, 1) = Byte
      BY ByteIs, FourPowers
    <3> QED
      BY <1>8, <3>1, <3>2, <3>3, Zenon
  <2>5. toDotted(Worth(parts)) = w
    BY <2>3, <2>4, FourBytes
  <2>6. DOMAIN w = 1..4 /\ DOMAIN parts = 1..4
    BY <1>2, <2>1, <2>3
  <2>7. Dotted(w) = [n \in 1..4 |-> Decimal(w[n])]
    BY <2>6, Zenon DEF Dotted
  <2>8. ASSUME NEW n \in 1..4 PROVE parts[n] = Decimal(w[n])
    <3>1. parts[n] \in Ipv4Part /\ parsePart(parts[n]) # Null
      BY <1>3, <2>1
    <3>2. parsePart(parts[n]).value = w[n] /\ ~ parsePart(parts[n]).nonDecimal
      BY <2>1, <2>3 DEF PartValue
    <3>3. w[n] < 1000
      <4>1. PICK b \in Nat, x \in Nat : b = Byte /\ b <= 1000 /\ x = w[n]
        <5>1. w[n] \in Nat
          BY <1>3, <2>1, <2>3
        <5>2. Byte \in Nat /\ Byte <= 1000
          BY ByteIs
        <5> QED
          BY <5>1, <5>2, Zenon
      <4>2. x < b
        BY <2>3, <4>1
      <4> QED
        BY <4>1, <4>2
    <3> QED
      BY <3>1, <3>2, <3>3, PartIs, Zenon
  <2> QED
    BY <2>5, <2>6, <2>7, <2>8
<1> QED
  BY <1>1, <1>9, <1>10, Zenon

LEMMA Ipv4ReadsBack ==
  ASSUME NEW c \in Seq(Nat), Len(c) = 4, \A k \in 1..4 : c[k] < Byte
  PROVE  analyzeIpv4(Dotted(c)) = [canonical |-> c, obfuscated |-> FALSE]
<1>1. \A k \in 1..4 : c[k] \in Nat /\ c[k] < 1000
  <2>1. \A k \in 1..4 : c[k] \in Nat
    <3>1. \A k \in 1..Len(c) : c[k] \in Nat
      BY ElementOfSeq
    <3> QED
      BY <3>1
  <2>2. ASSUME NEW k \in 1..4 PROVE c[k] < 1000
    <3>1. PICK b \in Nat, x \in Nat : b = Byte /\ b <= 1000 /\ x = c[k]
      BY <2>1, ByteIs
    <3> QED
      BY <3>1
  <2> QED
    BY <2>1, <2>2
<1>2. PICK parts : parts = Dotted(c)
  OBVIOUS
<1>3. DOMAIN c = 1..4
  OBVIOUS
<1>4. parts = [n \in 1..4 |-> Decimal(c[n])]
  BY <1>2, <1>3, Zenon DEF Dotted
<1>5. \A n \in 1..4 : parts[n] \in Ipv4Part /\ parsePart(parts[n]) = [value |-> c[n], nonDecimal |-> FALSE]
  <2>1. ASSUME NEW n \in 1..4
        PROVE  parts[n] \in Ipv4Part /\ parsePart(parts[n]) = [value |-> c[n], nonDecimal |-> FALSE]
    <3>1. c[n] \in Nat /\ c[n] < 1000
      BY <1>1, Zenon
    <3>2. parts[n] = Decimal(c[n])
      BY <1>4, Zenon
    <3> QED
      BY <3>1, <3>2, DecimalIs, Zenon
  <2> QED
    BY <2>1, Zenon
<1>6. parts \in Seq(Ipv4Part) /\ Len(parts) = 4 /\ DOMAIN parts = 1..4
  <2>1. parts \in [1..4 -> Ipv4Part]
    BY <1>4, <1>5
  <2>2. 4 \in Nat
    OBVIOUS
  <2> QED
    BY <2>1, <2>2, ListIs, Zenon
<1>7. \A n \in 1..4 : PartValue(parts, n) = c[n]
  BY <1>5 DEF PartValue
<1>8. PICK v \in Seq(Nat), d \in Nat : v = <<c[1], c[2], c[3]>> /\ d = c[4]
  <2>1. c[1] \in Nat /\ c[2] \in Nat /\ c[3] \in Nat /\ c[4] \in Nat
    BY <1>1
  <2>2. <<c[1], c[2], c[3]>> \in Seq(Nat)
    BY <2>1
  <2> QED
    BY <2>1, <2>2
<1>9. v = Leading(parts)
  <2>1. Leading(parts) = [n \in 1..3 |-> PartValue(parts, n)]
    <3>1. 4 - 1 = 3
      OBVIOUS
    <3> QED
      BY <1>6, <3>1, Zenon DEF Leading
  <2>2. v = [n \in 1..3 |-> v[n]] /\ v[1] = c[1] /\ v[2] = c[2] /\ v[3] = c[3]
    BY <1>8
  <2>3. \A n \in 1..3 : v[n] = PartValue(parts, n)
    BY <1>7, <2>2
  <2> QED
    BY <2>1, <2>2, <2>3
<1>10. Worth(parts) = Denotes(c, Byte)
  <2>1. Worth(parts) = Denotes(Leading(parts), Byte) * Power(Byte, 5 - 4) + PartValue(parts, 4)
    BY <1>6, Zenon DEF Worth, Leading, PartValue
  <2>2. Append(v, d) = c
    <3>1. Append(v, d) \in Seq(Nat) /\ Len(Append(v, d)) = 4
      BY <1>8
    <3>2. \A n \in 1..4 : Append(v, d)[n] = c[n]
      BY <1>8
    <3> QED
      BY <3>1, <3>2
  <2>3. Denotes(Append(v, d), Byte) = Denotes(v, Byte) * Byte + d
    BY ByteIs, DenotesLast
  <2>4. Power(Byte, 5 - 4) = Byte /\ PartValue(parts, 4) = d
    <3>1. 5 - 4 = 1
      OBVIOUS
    <3>2. PartValue(parts, 4) = d
      BY <1>7, <1>8
    <3> QED
      BY <3>1, <3>2, ByteIs, FourPowers
  <2> QED
    BY <1>9, <2>1, <2>2, <2>3, <2>4, Zenon
<1>11. ~ Refuses(parts)
  <2>1. Len(parts) \in 1..4
    BY <1>6
  <2>2. \A n \in DOMAIN parts : parsePart(parts[n]) # Null
    <3>1. ASSUME NEW n \in DOMAIN parts PROVE parsePart(parts[n]) # Null
      <4>1. [value |-> c[n], nonDecimal |-> FALSE] \in [value : Nat, nonDecimal : BOOLEAN]
        BY <1>1, <1>6
      <4>2. parsePart(parts[n]) = [value |-> c[n], nonDecimal |-> FALSE]
        BY <1>5, <1>6, Zenon
      <4>3. Null \notin [value : Nat, nonDecimal : BOOLEAN]
        BY LiteralAssumption, Zenon
      <4> QED
        BY <4>1, <4>2, <4>3, Zenon
    <3> QED
      BY <3>1
  <2>3. ~ (PartValue(parts, Len(parts)) >= Power(Byte, 5 - Len(parts)))
    <3>1. 5 - 4 = 1
      OBVIOUS
    <3>2. Power(Byte, 5 - Len(parts)) = Byte
      BY <1>6, <3>1, ByteIs, FourPowers
    <3>3. PartValue(parts, Len(parts)) \in Nat /\ PartValue(parts, Len(parts)) < Byte
      BY <1>1, <1>6, <1>7
    <3> QED
      BY <3>2, <3>3, ByteIs
  <2>4. \A n \in 1..(Len(parts) - 1) : ~ (PartValue(parts, n) > Byte - 1)
    <3>1. ASSUME NEW n \in 1..(Len(parts) - 1) PROVE ~ (PartValue(parts, n) > Byte - 1)
      <4>1. n \in 1..4
        BY <1>6
      <4>2. PartValue(parts, n) \in Nat /\ PartValue(parts, n) < Byte
        BY <1>1, <1>7, <4>1
      <4> QED
        BY <4>2, ByteIs
    <3> QED
      BY <3>1
  <2> QED
    BY <2>1, <2>2, <2>3, <2>4, Zenon DEF Refuses
<1>12. ~ Unusual(parts)
  <2>1. \A n \in 1..4 : parsePart(parts[n]).nonDecimal = FALSE
    BY <1>5
  <2> QED
    BY <1>6, <2>1, Zenon DEF Unusual
<1>13. analyzeParts(parts) = [canonical |-> toDotted(Denotes(c, Byte)), obfuscated |-> Unusual(parts)]
  BY <1>6, <1>10, <1>11, Ipv4By, Zenon
<1>14. Unusual(parts) = FALSE
  <2>1. Unusual(parts) \in BOOLEAN
    BY Zenon DEF Unusual
  <2> QED
    BY <1>12, <2>1, Zenon
<1>15. stripTrailingRootDot(parts) = parts
  <2>1. NoText.digits = <<>>
    BY DEF NoText
  <2>2. parsePart(NoText) = Null
    BY <2>1, Zenon DEF parsePart
  <2>3. parsePart(parts[4]) # Null
    BY <1>6, <1>11, Zenon DEF Refuses
  <2>4. Last(parts) = parts[4]
    BY <1>6, Zenon DEF Last
  <2>5. Last(parts) # NoText
    BY <2>2, <2>3, <2>4, Zenon
  <2> QED
    BY <2>5, Zenon DEF stripTrailingRootDot
<1> QED
  BY <1>2, <1>13, <1>14, <1>15, FourBytes, Zenon DEF analyzeIpv4

LEMMA RootDotStripped ==
  ASSUME NEW text \in Seq(Ipv4Part)
  PROVE  /\ stripTrailingRootDot(text) \in Seq(Ipv4Part)
         /\ analyzeIpv4(text) = analyzeParts(stripTrailingRootDot(text))
<1>1. Len(text) > 1 => Front(text) \in Seq(Ipv4Part)
  <2>1. \A s \in Seq(Ipv4Part) : Len(s) > 1 => SubSeq(s, 1, Len(s) - 1) \in Seq(Ipv4Part)
    OBVIOUS
  <2> QED
    BY <2>1 DEF Front
<1> QED
  BY <1>1, Zenon DEF stripTrailingRootDot, analyzeIpv4

-----------------------------------------------------------------------------
(* Lists joined one after the other. *)
Joins(g, n, ss) == g = [k \in 0..n |-> IF k = 0 THEN << >> ELSE g[k - 1] \o ss[k]]

LEMMA FlattenBy ==
  ASSUME NEW S, NEW n \in Nat, NEW ss \in [1..n -> Seq(S)]
  PROVE  \E g \in [0..n -> Seq(S)] : Joins(g, n, ss) /\ FlattenSeq(ss) = g[n]
<1>0. Len(ss) = n /\ \A k \in 1..n : ss[k] \in Seq(S)
  OBVIOUS
<1>1. PICK step : step = [k \in 1..n |-> [v \in Seq(S) |-> v \o ss[k]]]
  OBVIOUS
<1>2. step \in [1..n -> [Seq(S) -> Seq(S)]]
  <2>1. ASSUME NEW k \in 1..n, NEW v \in Seq(S) PROVE v \o ss[k] \in Seq(S)
    BY <1>0
  <2> QED
    BY <1>1, <2>1
<1>3. PICK g \in [0..n -> Seq(S)] : Repeats(g, n, << >>, step)
  <2>1. << >> \in Seq(S)
    OBVIOUS
  <2> QED
    BY <1>2, <2>1, RepeatExists
<1>4. \A k \in 0..n : k # 0 => k \in 1..n /\ k - 1 \in 0..n
  OBVIOUS
<1>5. \A k \in 0..n : k # 0 => step[k][g[k - 1]] = g[k - 1] \o ss[k]
  BY <1>1, <1>3, <1>4
<1>6. g = [k \in 0..n |-> IF k = 0 THEN << >> ELSE step[k][g[k - 1]]]
  BY <1>3, Zenon DEF Repeats
<1>7. Joins(g, n, ss)
  BY <1>5, <1>6 DEF Joins
<1>8. \A k \in 0..n : g[k] = IF k = 0 THEN << >> ELSE g[k - 1] \o ss[k]
  BY <1>7, Zenon DEF Joins
<1>9. FlattenSeq(ss) = g[n]
  <2>1. CASE n = 0
    <3>1. FlattenSeq(ss) = ss /\ ss = << >>
      BY <1>0, <2>1 DEF FlattenSeq
    <3>2. g[0] = << >>
      BY <1>8, <2>1
    <3> QED
      BY <2>1, <3>1, <3>2
  <2>2. CASE n # 0
    <3> DEFINE Flat(f) == f = [i \in 1..n |-> IF i = 1 THEN ss[i] ELSE f[i - 1] \o ss[i]]
    <3>1. PICK h : h = [i \in 1..n |-> g[i]]
      OBVIOUS
    <3>2. g[1] = ss[1]
      <4>1. 1 \in 0..n /\ 1 - 1 = 0 /\ 0 \in 0..n /\ 1 \in 1..n /\ 1 # 0
        BY <2>2
      <4>2. g[1] = << >> \o ss[1]
        <5>1. g[1] = g[1 - 1] \o ss[1] /\ g[0] = << >>
          BY <1>8, <4>1, Zenon
        <5> QED
          BY <4>1, <5>1, Zenon
      <4> QED
        BY <1>0, <4>1, <4>2
    <3>3. \A i \in 1..n : h[i] = IF i = 1 THEN ss[i] ELSE h[i - 1] \o ss[i]
      <4> SUFFICES ASSUME NEW i \in 1..n PROVE h[i] = IF i = 1 THEN ss[i] ELSE h[i - 1] \o ss[i]
        OBVIOUS
      <4>1. i \in 0..n /\ i # 0 /\ (i # 1 => i - 1 \in 1..n)
        OBVIOUS
      <4> QED
        BY <1>8, <3>1, <3>2, <4>1
    <3>4. Flat(h)
      BY <3>1, <3>3
    <3>5. PICK f : f = CHOOSE other : Flat(other)
      OBVIOUS
    <3>6. Flat(f)
      BY <3>4, <3>5
    <3>7. FlattenSeq(ss) = f[n]
      <4>1. Len(ss) # 0
        BY <1>0, <2>2
      <4> QED
        BY <1>0, <3>5, <4>1, Zenon DEF FlattenSeq
    <3>8. \A i \in 1..n : f[i] = IF i = 1 THEN ss[i] ELSE f[i - 1] \o ss[i]
      BY <3>6, Zenon
    <3>9. f[n] = h[n]
      <4> DEFINE Off == {i \in 1..n : f[i] # h[i]}
      <4>1. SUFFICES ASSUME Off # {} PROVE FALSE
        BY <2>2
      <4>2. PICK i \in Off : \A j \in Off : j >= i
        <5>1. Off \in SUBSET Nat
          OBVIOUS
        <5> HIDE DEF Off
        <5> QED
          BY <4>1, <5>1, LeastNumber
      <4>3. i \in 1..n /\ f[i] # h[i]
        BY <4>2
      <4>4. i # 1
        BY <3>3, <3>8, <4>3
      <4>5. i - 1 \in 1..n /\ ~ (i - 1 >= i)
        BY <4>3, <4>4
      <4>6. f[i - 1] = h[i - 1]
        BY <4>2, <4>5
      <4> QED
        BY <3>3, <3>8, <4>3, <4>4, <4>6
    <3> QED
      BY <2>2, <3>1, <3>7, <3>9
  <2> QED
    BY <2>1, <2>2
<1> QED
  BY <1>7, <1>9

LEMMA FlattenLast ==
  ASSUME NEW S, NEW n \in Nat, NEW rr \in [1..n -> Seq(S)], NEW ss \in [1..(n + 1) -> Seq(S)],
         \A k \in 1..n : rr[k] = ss[k]
  PROVE  FlattenSeq(ss) = FlattenSeq(rr) \o ss[n + 1]
<1>1. PICK m \in Nat : m = n + 1
  OBVIOUS
<1>2. PICK g \in [0..n -> Seq(S)] : Joins(g, n, rr) /\ FlattenSeq(rr) = g[n]
  BY FlattenBy
<1>3. PICK h \in [0..m -> Seq(S)] : Joins(h, m, ss) /\ FlattenSeq(ss) = h[m]
  BY <1>1, FlattenBy
<1>4. \A k \in 0..n : g[k] = IF k = 0 THEN << >> ELSE g[k - 1] \o rr[k]
  BY <1>2, Zenon DEF Joins
<1>5. \A k \in 0..m : h[k] = IF k = 0 THEN << >> ELSE h[k - 1] \o ss[k]
  BY <1>3, Zenon DEF Joins
<1>6. g[n] = h[n]
  <2> DEFINE Off == {i \in 0..n : g[i] # h[i]}
  <2>0. n \in 0..n
    OBVIOUS
  <2>1. SUFFICES ASSUME Off # {} PROVE FALSE
    BY <2>0
  <2>2. PICK i \in Off : \A j \in Off : j >= i
    <3>1. Off \in SUBSET Nat
      OBVIOUS
    <3> HIDE DEF Off
    <3> QED
      BY <2>1, <3>1, LeastNumber
  <2>3. i \in 0..n /\ i \in 0..m /\ g[i] # h[i]
    BY <1>1, <2>2
  <2>4. i # 0
    BY <1>4, <1>5, <2>3
  <2>5. i - 1 \in 0..n /\ ~ (i - 1 >= i) /\ i \in 1..n
    BY <2>3, <2>4
  <2>6. g[i - 1] = h[i - 1]
    BY <2>2, <2>5
  <2> QED
    BY <1>4, <1>5, <2>3, <2>4, <2>5, <2>6
<1>7. h[m] = h[n] \o ss[m]
  <2>1. m \in 0..m /\ m # 0 /\ m - 1 = n
    BY <1>1
  <2> QED
    BY <1>5, <2>1
<1> QED
  BY <1>1, <1>2, <1>3, <1>6, <1>7

(* Lists of one width: an element is where the width puts it. *)
Evenly(S, n, b, ss, all) ==
  /\ all \in Seq(S) /\ Len(all) = n * b
  /\ \A k \in 1..n, j \in 1..b : all[(k - 1) * b + j] = ss[k][j]

LEMMA FlattenEven ==
  ASSUME NEW S, NEW n \in Nat, NEW b \in Nat, NEW ss \in [1..n -> Seq(S)], \A k \in 1..n : Len(ss[k]) = b
  PROVE  Evenly(S, n, b, ss, FlattenSeq(ss))
<1>1. PICK g \in [0..n -> Seq(S)] : Joins(g, n, ss) /\ FlattenSeq(ss) = g[n]
  BY FlattenBy
<1>2. \A i \in 0..n : g[i] = IF i = 0 THEN << >> ELSE g[i - 1] \o ss[i]
  BY <1>1, Zenon DEF Joins
<1> DEFINE Good(i) == Len(g[i]) = i * b /\ \A k \in 1..i, j \in 1..b : g[i][(k - 1) * b + j] = ss[k][j]
           Wrong == {i \in 0..n : ~ Good(i)}
<1>3. Good(n)
  <2>0. n \in 0..n
    OBVIOUS
  <2>1. SUFFICES ASSUME Wrong # {} PROVE FALSE
    <3> HIDE DEF Good
    <3> QED
      BY <2>0
  <2>2. PICK i \in Wrong : \A j \in Wrong : j >= i
    <3>1. Wrong \in SUBSET Nat
      OBVIOUS
    <3> HIDE DEF Wrong
    <3> QED
      BY <2>1, <3>1, LeastNumber
  <2>3. i \in 0..n /\ ~ Good(i)
    BY <2>2
  <2>4. i # 0
    <3>1. 0 \in 0..n
      OBVIOUS
    <3>2. g[0] = << >>
      BY <1>2, <3>1
    <3>3. Good(0)
      BY <3>2
    <3> HIDE DEF Good
    <3> QED
      BY <2>3, <3>3
  <2>5. PICK p \in 0..n : p = i - 1 /\ i = p + 1 /\ ~ (p >= i) /\ i \in 1..n
    <3>1. i - 1 \in 0..n /\ i = (i - 1) + 1 /\ ~ (i - 1 >= i) /\ i \in 1..n
      BY <2>3, <2>4
    <3> QED
      BY <3>1
  <2>6. Good(p)
    <3> HIDE DEF Good
    <3> QED
      BY <2>2, <2>5
  <2>7. PICK x \in Seq(S), y \in Seq(S) : x = g[p] /\ y = ss[i] /\ Len(y) = b /\ g[i] = x \o y
    <3>1. g[p] \in Seq(S) /\ ss[i] \in Seq(S) /\ Len(ss[i]) = b
      BY <1>1, <2>5
    <3>2. g[i] = g[p] \o ss[i]
      BY <1>2, <2>3, <2>4, <2>5
    <3> QED
      BY <3>1, <3>2
  <2>8. PICK w \in Nat : w = p * b /\ Len(x) = w /\ i * b = w + b
    <3>1. p * b \in Nat /\ (p + 1) * b = p * b + b
      BY SMTT(30)
    <3>2. Len(x) = p * b
      BY <2>6, <2>7
    <3>3. i * b = p * b + b
      BY <2>5, <3>1, Zenon
    <3> QED
      BY <3>1, <3>2, <3>3, Zenon
  <2>9. Len(x \o y) = w + b /\ (\A m \in 1..w : (x \o y)[m] = x[m]) /\ \A j \in 1..b : (x \o y)[w + j] = y[j]
    <3>1. Len(x \o y) = w + b
      BY <2>7, <2>8
    <3>2. \A m \in 1..(w + b) : (x \o y)[m] = IF m <= w THEN x[m] ELSE y[m - w]
      <4>1. \A m \in 1..(Len(x) + Len(y)) : (x \o y)[m] = IF m <= Len(x) THEN x[m] ELSE y[m - Len(x)]
        BY ConcatProperties
      <4> QED
        BY <2>7, <2>8, <4>1, Zenon
    <3>3. ASSUME NEW m \in 1..w PROVE (x \o y)[m] = x[m]
      <4>1. m \in 1..(w + b) /\ m <= w
        OBVIOUS
      <4> QED
        BY <3>2, <4>1, Zenon
    <3>4. ASSUME NEW j \in 1..b PROVE (x \o y)[w + j] = y[j]
      <4>1. w + j \in 1..(w + b) /\ ~ (w + j <= w) /\ (w + j) - w = j
        OBVIOUS
      <4> QED
        BY <3>2, <4>1
    <3> QED
      BY <3>1, <3>3, <3>4
  <2>10. Len(g[i]) = i * b
    BY <2>7, <2>8, <2>9
  <2>11. ASSUME NEW k \in 1..i, NEW j \in 1..b PROVE g[i][(k - 1) * b + j] = ss[k][j]
    <3>1. CASE k = i
      <4>1. (k - 1) * b + j = w + j
        BY <2>5, <2>8, <3>1, Zenon
      <4>2. (x \o y)[w + j] = y[j]
        BY <2>9, Zenon
      <4>3. g[i][w + j] = ss[i][j]
        BY <2>7, <4>2, Zenon
      <4> QED
        BY <3>1, <4>1, <4>3, Zenon
    <3>2. CASE k # i
      <4>1. k \in 1..p
        BY <2>5, <3>2
      <4>2. x[(k - 1) * b + j] = ss[k][j]
        BY <2>6, <2>7, <4>1
      <4>3. (k - 1) * b + j \in 1..w
        <5>0. p \in Nat /\ b \in Nat
          OBVIOUS
        <5>1. PICK q \in Nat : q = k - 1 /\ q < p
          BY <4>1, <5>0, OneBelow, Zenon
        <5>2. PICK r \in Nat : j = r + 1 /\ r < b
          BY <5>0, OneBelow, Zenon
        <5>3. p \in Nat
          OBVIOUS
        <5>4. q * b + r < p * b
          BY <5>1, <5>2, <5>3, Below
        <5>5. q * b \in Nat /\ q * b + j = (q * b + r) + 1
          BY <5>2
        <5> QED
          <6>1. PICK u \in Nat : u = q * b
            BY <5>5
          <6>2. (k - 1) * b + j = (u + r) + 1 /\ u + r < w
            BY <2>8, <5>1, <5>4, <5>5, <6>1, Zenon
          <6>3. (u + r) + 1 \in 1..w
            <7>1. w \in Nat /\ u + r < w /\ u + r \in Nat
              BY <2>8, <6>2
            <7> QED
              BY <7>1, OneAbove, Zenon
          <6> QED
            BY <6>2, <6>3, Zenon
      <4> QED
        BY <2>7, <2>9, <4>2, <4>3
    <3> QED
      BY <3>1, <3>2
  <2>12. Good(i)
    BY <2>10, <2>11
  <2> HIDE DEF Good
  <2> QED
    BY <2>3, <2>12
<1>4. g[n] \in Seq(S)
  BY <1>1
<1> QED
  BY <1>1, <1>3, <1>4 DEF Evenly

-----------------------------------------------------------------------------
(* The longest run of zero groups, after the first k groups. *)
Runs == [start : Nat, len : Nat, bestStart : Nat, bestLen : Nat]
Nought(groups, s, e) == \A n \in s..e : groups[n] = 0

Current(groups, k, run) ==
  /\ run.start = 0 => run.len = 0
  /\ run.start # 0 => /\ run.start \in 1..k /\ run.len = k - run.start + 1
                      /\ Nought(groups, run.start, k)
  /\ \A s \in 1..k : Nought(groups, s, k) => run.start # 0 /\ s >= run.start

Best(groups, k, start, len) ==
  /\ len # 0 => start \in 1..k /\ start + len - 1 <= k /\ Nought(groups, start, start + len - 1)
  /\ \A s \in 1..k : \A e \in s..k :
       Nought(groups, s, e) => e - s + 1 <= len /\ (e - s + 1 = len => s >= start)

LEMMA RunExtends ==
  ASSUME NEW groups, NEW p \in Nat, NEW k \in Nat, k = p + 1, NEW run \in Runs,
         Current(groups, p, run), Best(groups, p, run.bestStart, run.bestLen), groups[k] = 0
  PROVE  /\ Extend(run, k) \in Runs /\ Current(groups, k, Extend(run, k))
         /\ Best(groups, k, Extend(run, k).bestStart, Extend(run, k).bestLen)
<1>1. PICK start \in Nat, len \in Nat :
        start = (IF run.start = 0 THEN k ELSE run.start) /\ len = run.len + 1
  <2>1. run.start \in Nat /\ run.len \in Nat
    BY DEF Runs
  <2> QED
    BY <2>1
<1>2. PICK bs \in Nat, bl \in Nat : bs = run.bestStart /\ bl = run.bestLen
  BY DEF Runs
<1>3. /\ start \in 1..k /\ len = k - start + 1 /\ Nought(groups, start, k)
      /\ \A s \in 1..k : Nought(groups, s, k) => s >= start
  <2>1. ASSUME NEW s \in 1..k, Nought(groups, s, k), s # k
        PROVE  run.start # 0 /\ s >= run.start
    <3>1. s \in 1..p
      BY <2>1
    <3>2. Nought(groups, s, p)
      <4>1. \A n \in s..p : n \in s..k
        OBVIOUS
      <4> QED
        BY <2>1, <4>1 DEF Nought
    <3> QED
      BY <3>1, <3>2 DEF Current
  <2>2. CASE run.start = 0
    <3>1. start = k /\ len = 1 /\ k \in 1..k
      BY <1>1, <2>2 DEF Current
    <3>2. Nought(groups, k, k)
      BY DEF Nought
    <3> QED
      BY <2>1, <2>2, <3>1, <3>2
  <2>3. CASE run.start # 0
    <3>1. start = run.start /\ start \in 1..p /\ run.len = p - start + 1 /\ Nought(groups, start, p)
      BY <1>1, <2>3 DEF Current
    <3>2. start \in 1..k /\ len = k - start + 1
      BY <1>1, <3>1
    <3>3. Nought(groups, start, k)
      <4>1. \A n \in start..k : n \in start..p \/ n = k
        BY <3>1
      <4> QED
        BY <3>1, <4>1 DEF Nought
    <3>4. ASSUME NEW s \in 1..k, Nought(groups, s, k) PROVE s >= start
      <4>1. CASE s = k
        BY <3>2, <4>1
      <4>2. CASE s # k
        BY <2>1, <3>1, <3>4, <4>2
      <4> QED
        BY <4>1, <4>2
    <3> QED
      BY <3>2, <3>3, <3>4
  <2> QED
    BY <2>2, <2>3
<1>4. PICK new : new = Extend(run, k)
  OBVIOUS
<1>5. /\ new.start = start /\ new.len = len
      /\ new.bestStart = (IF len > bl THEN start ELSE bs)
      /\ new.bestLen = (IF len > bl THEN len ELSE bl)
      /\ new = [start |-> start, len |-> len, bestStart |-> new.bestStart, bestLen |-> new.bestLen]
  BY <1>1, <1>2, <1>4 DEF Extend, Longer
<1>6. new \in Runs
  BY <1>5 DEF Runs
<1>7. Current(groups, k, new)
  BY <1>3, <1>5 DEF Current
<1>8. \A s \in 1..k : \A e \in s..k : e # k /\ Nought(groups, s, e) =>
        e - s + 1 <= bl /\ (e - s + 1 = bl => s >= bs)
  <2> SUFFICES ASSUME NEW s \in 1..k, NEW e \in s..k, e # k, Nought(groups, s, e)
               PROVE  e - s + 1 <= bl /\ (e - s + 1 = bl => s >= bs)
    OBVIOUS
  <2>1. s \in 1..p /\ e \in s..p
    OBVIOUS
  <2> QED
    BY <1>2, <2>1 DEF Best
<1>9. \A s \in 1..k : Nought(groups, s, k) => k - s + 1 <= len /\ (k - s + 1 = len => s = start)
  <2> SUFFICES ASSUME NEW s \in 1..k, Nought(groups, s, k)
               PROVE  k - s + 1 <= len /\ (k - s + 1 = len => s = start)
    OBVIOUS
  <2>1. s >= start
    BY <1>3
  <2> QED
    BY <1>3, <2>1
<1>10. bl # 0 => bs \in 1..p /\ bs + bl - 1 <= p /\ Nought(groups, bs, bs + bl - 1)
  BY <1>2 DEF Best
<1>11. Best(groups, k, new.bestStart, new.bestLen)
  <2>1. CASE len > bl
    <3>1. new.bestStart = start /\ new.bestLen = len
      BY <1>5, <2>1
    <3>2. start \in 1..k /\ start + len - 1 = k /\ Nought(groups, start, start + len - 1)
      <4>1. start + len - 1 = k
        BY <1>3
      <4> QED
        BY <1>3, <4>1
    <3>3. ASSUME NEW s \in 1..k, NEW e \in s..k, Nought(groups, s, e)
          PROVE  e - s + 1 <= len /\ (e - s + 1 = len => s >= start)
      <4>1. CASE e = k
        BY <1>9, <3>3, <4>1
      <4>2. CASE e # k
        <5>1. e - s + 1 <= bl
          BY <1>8, <3>3, <4>2
        <5> QED
          BY <2>1, <5>1
      <4> QED
        BY <4>1, <4>2
    <3>4. start + len - 1 <= k
      BY <3>2
    <3> QED
      BY <3>1, <3>2, <3>3, <3>4 DEF Best
  <2>2. CASE ~ (len > bl)
    <3>1. new.bestStart = bs /\ new.bestLen = bl
      BY <1>5, <2>2
    <3>2. bl # 0 => bs \in 1..k /\ bs + bl - 1 <= k /\ Nought(groups, bs, bs + bl - 1)
      BY <1>10
    <3>3. ASSUME NEW s \in 1..k, NEW e \in s..k, Nought(groups, s, e)
          PROVE  e - s + 1 <= bl /\ (e - s + 1 = bl => s >= bs)
      <4>1. CASE e = k
        <5>1. k - s + 1 <= len /\ (k - s + 1 = len => s = start)
          BY <1>9, <3>3, <4>1
        <5>2. e - s + 1 <= bl
          BY <2>2, <4>1, <5>1
        <5>3. ASSUME e - s + 1 = bl PROVE s >= bs
          <6>1. len = bl /\ s = start /\ bl # 0
            BY <2>2, <4>1, <5>1, <5>3
          <6>2. bs + bl - 1 <= p
            BY <1>10, <6>1
          <6> QED
            BY <1>3, <6>1, <6>2
        <5> QED
          BY <5>2, <5>3
      <4>2. CASE e # k
        BY <1>8, <3>3, <4>2
      <4> QED
        BY <4>1, <4>2
    <3> QED
      BY <3>1, <3>2, <3>3 DEF Best
  <2> QED
    BY <2>1, <2>2
<1> QED
  BY <1>4, <1>6, <1>7, <1>11

LEMMA RunReset ==
  ASSUME NEW run \in Runs
  PROVE  [run EXCEPT !.start = 0, !.len = 0]
           = [start |-> 0, len |-> 0, bestStart |-> run.bestStart, bestLen |-> run.bestLen]
<1>1. PICK a, b, c, d : run = [start |-> a, len |-> b, bestStart |-> c, bestLen |-> d]
  BY DEF Runs
<1>2. [[start |-> a, len |-> b, bestStart |-> c, bestLen |-> d] EXCEPT !.start = 0]
        = [start |-> 0, len |-> b, bestStart |-> c, bestLen |-> d]
  OBVIOUS
<1>3. [[start |-> 0, len |-> b, bestStart |-> c, bestLen |-> d] EXCEPT !.len = 0]
        = [start |-> 0, len |-> 0, bestStart |-> c, bestLen |-> d]
  OBVIOUS
<1>4. [run EXCEPT !.start = 0, !.len = 0] = [start |-> 0, len |-> 0, bestStart |-> c, bestLen |-> d]
  BY <1>1, <1>2, <1>3
<1>5. run.bestStart = c /\ run.bestLen = d
  BY <1>1
<1> QED
  BY <1>4, <1>5

LEMMA RunRestarts ==
  ASSUME NEW groups, NEW p \in Nat, NEW k \in Nat, k = p + 1, NEW run \in Runs,
         Current(groups, p, run), Best(groups, p, run.bestStart, run.bestLen), groups[k] # 0,
         NEW new, new = [run EXCEPT !.start = 0, !.len = 0]
  PROVE  new \in Runs /\ Current(groups, k, new) /\ Best(groups, k, new.bestStart, new.bestLen)
<1>1. PICK bs \in Nat, bl \in Nat : bs = run.bestStart /\ bl = run.bestLen
  BY DEF Runs
<1>2. PICK r : r = [start |-> 0, len |-> 0, bestStart |-> bs, bestLen |-> bl]
  OBVIOUS
<1>3. r.start = 0 /\ r.len = 0 /\ r.bestStart = bs /\ r.bestLen = bl /\ r \in Runs
  <2>1. r \in Runs
    BY <1>2 DEF Runs
  <2> QED
    BY <1>2, <2>1
<1>0. new = r
  BY <1>1, <1>2, RunReset, Zenon
<1>4. \A s \in 1..k : ~ Nought(groups, s, k)
  <2> SUFFICES ASSUME NEW s \in 1..k, Nought(groups, s, k) PROVE FALSE
    OBVIOUS
  <2>1. k \in s..k
    OBVIOUS
  <2> QED
    BY <2>1 DEF Nought
<1>5. bl # 0 => bs \in 1..k /\ bs + bl - 1 <= k /\ Nought(groups, bs, bs + bl - 1)
  <2>1. bl # 0 => bs \in 1..p /\ bs + bl - 1 <= p /\ Nought(groups, bs, bs + bl - 1)
    BY <1>1 DEF Best
  <2> QED
    BY <2>1
<1>6. ASSUME NEW s \in 1..k, NEW e \in s..k, Nought(groups, s, e)
      PROVE  e - s + 1 <= bl /\ (e - s + 1 = bl => s >= bs)
  <2>1. e # k
    BY <1>4, <1>6
  <2>2. s \in 1..p /\ e \in s..p
    BY <2>1
  <2> QED
    BY <1>1, <1>6, <2>2 DEF Best
<1>7. Current(groups, k, r) /\ Best(groups, k, r.bestStart, r.bestLen)
  BY <1>3, <1>4, <1>5, <1>6 DEF Current, Best
<1> QED
  BY <1>0, <1>3, <1>7, Zenon

LEMMA LongestRunIs ==
  ASSUME NEW groups \in Seq(Nat)
  PROVE  /\ longestRun(groups) \in Runs
         /\ Best(groups, Len(groups), longestRun(groups).bestStart, longestRun(groups).bestLen)
<1>1. PICK n \in Nat : n = Len(groups)
  OBVIOUS
<1> DEFINE Next2(r, k) == IF groups[k] = 0 THEN Extend(r, k) ELSE [r EXCEPT !.start = 0, !.len = 0]
           Loop(f) == f = [k \in 0..n |-> IF k = 0 THEN NoZeros
                                          ELSE IF groups[k] = 0 THEN Extend(f[k - 1], k)
                                          ELSE [f[k - 1] EXCEPT !.start = 0, !.len = 0]]
<1>2. PICK step : step = [k \in 1..n |-> [r \in Runs |-> Next2(r, k)]]
  OBVIOUS
<1>3. ASSUME NEW k \in 1..n, NEW r \in Runs PROVE Next2(r, k) \in Runs
  <2>1. r.start \in Nat /\ r.len \in Nat /\ r.bestStart \in Nat /\ r.bestLen \in Nat /\ k \in Nat
    BY DEF Runs
  <2>2. Extend(r, k) \in Runs
    BY <2>1 DEF Runs, Extend
  <2>3. [r EXCEPT !.start = 0, !.len = 0] \in Runs
    BY <2>1 DEF Runs
  <2> QED
    BY <2>2, <2>3
<1>4. step \in [1..n -> [Runs -> Runs]]
  <2> HIDE DEF Next2
  <2> QED
    BY <1>2, <1>3
<1>5. NoZeros \in Runs
  BY DEF NoZeros, Runs
<1>6. PICK g \in [0..n -> Runs] : Repeats(g, n, NoZeros, step)
  BY <1>4, <1>5, RepeatExists
<1>7. Loop(g)
  <2>1. \A k \in 0..n : k # 0 => k \in 1..n /\ k - 1 \in 0..n
    OBVIOUS
  <2>2. \A k \in 0..n : k # 0 => step[k][g[k - 1]] = Next2(g[k - 1], k)
    <3> HIDE DEF Next2
    <3> QED
      BY <1>2, <1>6, <2>1
  <2>3. g = [k \in 0..n |-> IF k = 0 THEN NoZeros ELSE step[k][g[k - 1]]]
    BY <1>6, Zenon DEF Repeats
  <2>4. g = [k \in 0..n |-> IF k = 0 THEN NoZeros ELSE Next2(g[k - 1], k)]
    <3> HIDE DEF Next2
    <3> QED
      BY <2>2, <2>3
  <2> QED
    BY <2>4, Zenon
<1>8. PICK f : f = CHOOSE h : Loop(h)
  OBVIOUS
<1>9. Loop(f)
  <2> HIDE DEF Loop
  <2> QED
    BY <1>7, <1>8
<1>10. longestRun(groups) = f[n]
  BY <1>1, <1>8, Zenon DEF longestRun
<1>11. \A k \in 0..n : f[k] = IF k = 0 THEN NoZeros
                             ELSE IF groups[k] = 0 THEN Extend(f[k - 1], k)
                             ELSE [f[k - 1] EXCEPT !.start = 0, !.len = 0]
  BY <1>9, Zenon
<1> DEFINE Good(k) == f[k] \in Runs /\ Current(groups, k, f[k]) /\ Best(groups, k, f[k].bestStart, f[k].bestLen)
           Wrong == {k \in 0..n : ~ Good(k)}
<1>12. Good(n)
  <2>0. n \in 0..n
    OBVIOUS
  <2>1. SUFFICES ASSUME Wrong # {} PROVE FALSE
    <3> HIDE DEF Good
    <3> QED
      BY <2>0
  <2>2. PICK k \in Wrong : \A j \in Wrong : j >= k
    <3>1. Wrong \in SUBSET Nat
      OBVIOUS
    <3> HIDE DEF Wrong
    <3> QED
      BY <2>1, <3>1, LeastNumber
  <2>3. k \in 0..n /\ ~ Good(k)
    BY <2>2
  <2>4. k # 0
    <3>1. 0 \in 0..n
      OBVIOUS
    <3>2. f[0] = NoZeros
      BY <1>11, <3>1
    <3>3. f[0].start = 0 /\ f[0].len = 0 /\ f[0].bestLen = 0 /\ 1..0 = {}
      BY <3>2 DEF NoZeros
    <3>4. Good(0)
      BY <1>5, <3>2, <3>3 DEF Current, Best
    <3> HIDE DEF Good
    <3> QED
      BY <2>3, <3>4
  <2>5. PICK p \in 0..n : p = k - 1 /\ k = p + 1 /\ ~ (p >= k)
    <3>1. k - 1 \in 0..n /\ k = (k - 1) + 1 /\ ~ (k - 1 >= k)
      BY <2>3, <2>4
    <3> QED
      BY <3>1
  <2>6. Good(p)
    <3> HIDE DEF Good
    <3> QED
      BY <2>2, <2>5
  <2>7. k \in Nat /\ p \in Nat
    BY <2>3
  <2>8. CASE groups[k] = 0
    <3>1. f[k] = Extend(f[p], k)
      BY <1>11, <2>3, <2>4, <2>5, <2>8
    <3> QED
      BY <2>3, <2>5, <2>6, <2>7, <2>8, <3>1, RunExtends
  <2>9. CASE groups[k] # 0
    <3>1. f[k] = [f[p] EXCEPT !.start = 0, !.len = 0]
      BY <1>11, <2>3, <2>4, <2>5, <2>9
    <3> QED
      BY <2>3, <2>5, <2>6, <2>7, <2>9, <3>1, RunRestarts
  <2> QED
    BY <2>8, <2>9
<1> QED
  BY <1>1, <1>10, <1>12

-----------------------------------------------------------------------------
(* IPv6 text.  A group, and what a list of pieces reads as. *)
Group == 0..(Hextet - 1)
PieceGroups(piece) ==
  IF piece.kind = "hex" THEN <<piece.value>> ELSE <<piece.value \div Hextet, piece.value % Hextet>>

LEMMA HextetIs ==
  /\ Hextet \in Nat \ {0} /\ Groups \in Nat /\ Groups >= 2
  /\ Group \subseteq Nat /\ Power(Byte, 4) = Hextet * Hextet
  /\ \A S : Null \notin Seq(Group) /\ Null # << >>
<1>1. PICK b \in Nat \ {0} : b = Byte
  BY ByteIs
<1>2. b * b \in Nat \ {0} /\ ((b * b) * b) * b = (b * b) * (b * b)
  OBVIOUS
<1>3. Hextet \in Nat \ {0}
  BY <1>1, <1>2 DEF Hextet
<1>4. Power(Byte, 4) = Hextet * Hextet
  <2>1. Power(b, 4) = ((b * b) * b) * b
    BY FourPowers
  <2> QED
    BY <1>1, <1>2, <2>1 DEF Hextet
<1>5. Group \subseteq Nat
  BY <1>3 DEF Group
<1>6. Null \notin Seq(Nat)
  BY LiteralAssumption
<1>7. Null \notin Seq(Group)
  <2>1. ASSUME NEW s \in Seq(Group) PROVE s \in Seq(Nat)
    <3>1. PICK n \in Nat : n = Len(s) /\ s \in [1..n -> Group]
      OBVIOUS
    <3>2. s \in [1..n -> Nat]
      BY <1>5, <3>1
    <3> QED
      BY <3>2, ListIs
  <2> QED
    BY <1>6, <2>1
<1>8. Null # << >>
  <2>1. << >> \in Seq(Nat)
    OBVIOUS
  <2> QED
    BY <1>6, <2>1
<1>9. Groups \in Nat /\ Groups >= 2
  BY LiteralAssumption
<1> QED
  BY <1>3, <1>4, <1>5, <1>7, <1>8, <1>9

LEMMA GroupsAreNumbers ==
  ASSUME NEW s \in Seq(Group)
  PROVE  s \in Seq(Nat)
<1>1. PICK n \in Nat : n = Len(s) /\ s \in [1..n -> Group]
  OBVIOUS
<1>2. s \in [1..n -> Nat]
  BY <1>1, HextetIs
<1> QED
  BY <1>2, ListIs

LEMMA QuadGroups ==
  ASSUME NEW low \in Nat, low < Power(Byte, 4)
  PROVE  low \div Hextet \in Group /\ low % Hextet \in Group
<1>1. PICK h \in Nat \ {0} : h = Hextet /\ low < h * h
  BY HextetIs
<1>2. PICK q \in Nat, r \in 0..(h - 1) : q = low \div h /\ r = low % h /\ low = q * h + r
  BY Divided
<1>3. q < h
  <2> SUFFICES ASSUME q >= h PROVE FALSE
    OBVIOUS
  <2>1. PICK k \in Nat : q = h + k
    <3>1. q - h \in Nat /\ q = h + (q - h)
      OBVIOUS
    <3> QED
      BY <3>1
  <2>2. q * h = h * h + k * h /\ k * h \in Nat /\ h * h \in Nat
    BY <2>1
  <2> QED
    BY <1>1, <1>2, <2>2
<1> QED
  BY <1>1, <1>2, <1>3 DEF Group

(* The pieces that were read are groups. *)
LEMMA PiecesRead ==
  ASSUME NEW pieces \in Seq(Ipv6Piece), parseHextets(pieces) # Null
  PROVE  /\ parseHextets(pieces) \in Seq(Group)
         /\ parseHextets(pieces) = FlattenSeq([n \in DOMAIN pieces |-> PieceGroups(pieces[n])])
<1>1. PICK k \in Nat : k = Len(pieces) /\ DOMAIN pieces = 1..k
  OBVIOUS
<1>2. ASSUME NEW n \in 1..k
      PROVE  /\ pieces[n].kind \in {"hex", "quad"} /\ pieces[n].value \in Nat
             /\ pieces[n].kind = "quad" => pieces[n].value < Power(Byte, 4)
             /\ pieces[n].kind = "hex" => ~ (pieces[n].value >= Hextet)
  <2>1. pieces[n] \in Ipv6Piece
    BY <1>1, ElementOfSeq
  <2> QED
    BY <1>1, <2>1 DEF Ipv6Piece, parseHextets, parseStrictDottedQuad
<1>3. PICK ss : ss = [n \in DOMAIN pieces |-> PieceGroups(pieces[n])]
  OBVIOUS
<1>4. parseHextets(pieces) = FlattenSeq(ss)
  BY <1>3, Zenon DEF parseHextets, PieceGroups
<1>5. ASSUME NEW n \in 1..k PROVE PieceGroups(pieces[n]) \in Seq(Group)
  <2>1. PICK v \in Nat : v = pieces[n].value
    BY <1>2
  <2>2. CASE pieces[n].kind = "hex"
    <3>1. v \in Group
      BY <1>2, <2>1, <2>2, HextetIs DEF Group
    <3>2. PieceGroups(pieces[n]) = <<v>>
      BY <2>1, <2>2 DEF PieceGroups
    <3> QED
      BY <3>1, <3>2
  <2>3. CASE pieces[n].kind # "hex"
    <3>1. v < Power(Byte, 4)
      BY <1>2, <2>1, <2>3
    <3>2. v \div Hextet \in Group /\ v % Hextet \in Group
      BY <3>1, QuadGroups
    <3>3. PieceGroups(pieces[n]) = <<v \div Hextet, v % Hextet>>
      BY <2>1, <2>3 DEF PieceGroups
    <3> QED
      BY <3>2, <3>3
  <2> QED
    BY <2>2, <2>3
<1>6. ss \in [1..k -> Seq(Group)]
  BY <1>1, <1>3, <1>5
<1> QED
  BY <1>3, <1>4, <1>6, FlattenIs

Hexes(v) == [n \in 1..Len(v) |-> Hex(v[n])]

(* A dotted tail, and the groups it stands for. *)
TailOf(tail, low) ==
  \/ tail = << >> /\ low = << >>
  \/ \E n \in Nat : /\ n < Power(Byte, 4) /\ tail = <<Quad(n)>>
                    /\ low = <<n \div Hextet, n % Hextet>>

LEMMA TailIs ==
  ASSUME NEW tail, NEW low, TailOf(tail, low)
  PROVE  tail \in Seq(Ipv6Piece) /\ low \in Seq(Group)
<1>1. CASE tail = << >> /\ low = << >>
  BY <1>1
<1>2. CASE \E n \in Nat : /\ n < Power(Byte, 4) /\ tail = <<Quad(n)>>
                          /\ low = <<n \div Hextet, n % Hextet>>
  <2>1. PICK n \in Nat : /\ n < Power(Byte, 4) /\ tail = <<Quad(n)>>
                         /\ low = <<n \div Hextet, n % Hextet>>
    BY <1>2
  <2>2. n \div Hextet \in Group /\ n % Hextet \in Group
    BY <2>1, QuadGroups
  <2>3. Quad(n) \in Ipv6Piece
    BY DEF Quad, Ipv6Piece
  <2> QED
    BY <2>1, <2>2, <2>3
<1> QED
  BY <1>1, <1>2 DEF TailOf

LEMMA HexesRead ==
  ASSUME NEW v \in Seq(Group), NEW tail, NEW low, TailOf(tail, low)
  PROVE  /\ Hexes(v) \in Seq(Ipv6Piece) /\ Len(Hexes(v)) = Len(v)
         /\ parseHextets(Hexes(v) \o tail) = v \o low
<1>1. PICK k \in Nat : k = Len(v) /\ DOMAIN v = 1..k
  OBVIOUS
<1>2. \A n \in 1..k : v[n] \in Group /\ v[n] \in Nat /\ ~ (v[n] >= Hextet)
  <2>1. \A n \in 1..k : v[n] \in Group
    BY <1>1, ElementOfSeq
  <2> QED
    BY <2>1, HextetIs DEF Group
<1>3. \A n \in 1..k : Hexes(v)[n] = Hex(v[n]) /\ Hex(v[n]) \in Ipv6Piece
  BY <1>1, <1>2 DEF Hexes, Hex, Ipv6Piece
<1>4. Hexes(v) \in [1..k -> Ipv6Piece]
  BY <1>1, <1>3 DEF Hexes
<1>5. Hexes(v) \in Seq(Ipv6Piece) /\ Len(Hexes(v)) = k /\ DOMAIN Hexes(v) = 1..k
  BY <1>4, ListIs
<1>6. PICK rr : rr = [n \in 1..k |-> <<v[n]>>]
  OBVIOUS
<1>7. rr \in [1..k -> Seq(Group)] /\ \A n \in 1..k : Len(rr[n]) = 1 /\ rr[n][1] = v[n]
  <2>1. \A n \in 1..k : <<v[n]>> \in Seq(Group) /\ Len(<<v[n]>>) = 1 /\ <<v[n]>>[1] = v[n]
    BY <1>2
  <2> QED
    BY <1>6, <2>1
<1>8. FlattenSeq(rr) = v
  <2>1. /\ FlattenSeq(rr) \in Seq(Group) /\ Len(FlattenSeq(rr)) = k * 1
        /\ \A n \in 1..k, j \in 1..1 : FlattenSeq(rr)[(n - 1) * 1 + j] = rr[n][j]
    <3>1. PICK b \in Nat : b = 1
      OBVIOUS
    <3>2. \A n \in 1..k : Len(rr[n]) = b
      BY <1>7, <3>1
    <3>3. Evenly(Group, k, b, rr, FlattenSeq(rr))
      BY <1>7, <3>2, FlattenEven
    <3> QED
      BY <3>1, <3>3 DEF Evenly
  <2>2. \A n \in 1..k : FlattenSeq(rr)[n] = v[n]
    <3> SUFFICES ASSUME NEW n \in 1..k PROVE FlattenSeq(rr)[n] = v[n]
      OBVIOUS
    <3>1. 1 \in 1..1 /\ (n - 1) * 1 + 1 = n
      OBVIOUS
    <3>2. FlattenSeq(rr)[(n - 1) * 1 + 1] = rr[n][1]
      BY <2>1, <3>1
    <3> QED
      BY <1>7, <3>1, <3>2
  <2>3. Len(FlattenSeq(rr)) = Len(v)
    BY <1>1, <2>1
  <2> QED
    BY <1>1, <2>1, <2>2, <2>3, SeqEqual
<1>9. CASE tail = << >> /\ low = << >>
  <2>1. Hexes(v) \o tail = Hexes(v) /\ v \o low = v
    BY <1>5, <1>9
  <2>2. \A n \in 1..k : Hexes(v)[n].kind = "hex" /\ Hexes(v)[n].value = v[n]
    <3>1. \A x : Hex(x).kind = "hex" /\ Hex(x).value = x
      BY DEF Hex
    <3> QED
      BY <1>3, <3>1, Zenon
  <2>3. parseHextets(Hexes(v)) = FlattenSeq([n \in DOMAIN Hexes(v) |->
          IF Hexes(v)[n].kind = "hex" THEN <<Hexes(v)[n].value>>
          ELSE <<Hexes(v)[n].value \div Hextet, Hexes(v)[n].value % Hextet>>])
    <3>1. ~ \E n \in DOMAIN Hexes(v) :
             \/ Hexes(v)[n].kind = "quad" /\ (n # Len(Hexes(v)) \/ ~parseStrictDottedQuad(Hexes(v)[n]))
             \/ Hexes(v)[n].kind = "hex" /\ Hexes(v)[n].value >= Hextet
      BY <1>2, <1>5, <2>2
    <3> QED
      BY <3>1, Zenon DEF parseHextets
  <2>4. [n \in DOMAIN Hexes(v) |->
          IF Hexes(v)[n].kind = "hex" THEN <<Hexes(v)[n].value>>
          ELSE <<Hexes(v)[n].value \div Hextet, Hexes(v)[n].value % Hextet>>] = rr
    BY <1>5, <1>6, <2>2
  <2>5. parseHextets(Hexes(v)) = v
    BY <1>8, <2>3, <2>4
  <2> QED
    BY <1>1, <1>5, <2>1, <2>5
<1>10. ASSUME NEW q \in Nat, q < Power(Byte, 4), tail = <<Quad(q)>>, low = <<q \div Hextet, q % Hextet>>
       PROVE  parseHextets(Hexes(v) \o tail) = v \o low
  <2>1. Quad(q) \in Ipv6Piece /\ low \in Seq(Group) /\ Quad(q).kind = "quad" /\ Quad(q).value = q
        /\ Quad(q).zeros = FALSE
    <3>1. Quad(q) \in Ipv6Piece /\ Quad(q).kind = "quad" /\ Quad(q).value = q /\ Quad(q).zeros = FALSE
      BY DEF Quad, Ipv6Piece
    <3> QED
      BY <3>1, TailIs
  <2>2. PICK m \in Nat : m = k + 1
    OBVIOUS
  <2>3. PICK p \in Seq(Ipv6Piece) : p = Hexes(v) \o tail /\ Len(p) = m /\ DOMAIN p = 1..m
                                    /\ p[m] = Quad(q) /\ \A n \in 1..k : p[n] = Hex(v[n])
    <3>1. tail \in Seq(Ipv6Piece) /\ Len(tail) = 1 /\ tail[1] = Quad(q)
      BY <1>10, <2>1
    <3>2. PICK p \in Seq(Ipv6Piece) : p = Hexes(v) \o tail
      BY <1>5, <3>1, ConcatProperties
    <3>3. Len(p) = Len(Hexes(v)) + Len(tail)
      BY <1>5, <3>1, <3>2, ConcatProperties
    <3>4. Len(p) = m /\ DOMAIN p = 1..m
      BY <1>5, <2>2, <3>1, <3>3
    <3>5. \A n \in 1..(Len(Hexes(v)) + Len(tail)) :
            p[n] = IF n <= Len(Hexes(v)) THEN Hexes(v)[n] ELSE tail[n - Len(Hexes(v))]
      BY <1>5, <3>1, <3>2, ConcatProperties
    <3>6. \A n \in 1..m : p[n] = IF n <= k THEN Hexes(v)[n] ELSE tail[n - k]
      BY <1>5, <2>2, <3>1, <3>5
    <3>7. m \in 1..m /\ ~ (m <= k) /\ m - k = 1 /\ \A n \in 1..k : n \in 1..m /\ n <= k
      BY <2>2
    <3>8. p[m] = Quad(q)
      BY <3>1, <3>6, <3>7
    <3>9. \A n \in 1..k : p[n] = Hex(v[n])
      BY <1>3, <3>6, <3>7
    <3> QED
      BY <3>2, <3>4, <3>8, <3>9
  <2>4. \A n \in 1..k : p[n].kind = "hex" /\ p[n].value = v[n]
    <3>1. \A x : Hex(x).kind = "hex" /\ Hex(x).value = x
      BY DEF Hex
    <3> QED
      BY <2>3, <3>1, Zenon
  <2>5. p[m].kind = "quad" /\ p[m].value = q /\ p[m].zeros = FALSE
    BY <2>1, <2>3
  <2>6. \A n \in 1..m : n = m \/ n \in 1..k
    BY <2>2
  <2>7. ~ \E n \in DOMAIN p :
             \/ p[n].kind = "quad" /\ (n # Len(p) \/ ~parseStrictDottedQuad(p[n]))
             \/ p[n].kind = "hex" /\ p[n].value >= Hextet
    <3>1. parseStrictDottedQuad(p[m])
      BY <1>10, <2>5 DEF parseStrictDottedQuad
    <3> QED
      BY <1>2, <2>3, <2>4, <2>5, <2>6, <3>1
  <2>8. PICK ss : ss = [n \in DOMAIN p |-> PieceGroups(p[n])]
    OBVIOUS
  <2>9. parseHextets(p) = FlattenSeq(ss)
    BY <2>7, <2>8, Zenon DEF parseHextets, PieceGroups
  <2>10. ss[m] = low /\ \A n \in 1..k : ss[n] = rr[n]
    <3>1. ss[m] = low
      <4>1. m \in 1..m
        BY <2>2
      <4>2. ss[m] = PieceGroups(p[m])
        BY <2>3, <2>8, <4>1
      <4>3. PieceGroups(p[m]) = <<q \div Hextet, q % Hextet>>
        BY <2>5, Zenon DEF PieceGroups
      <4> QED
        BY <1>10, <4>2, <4>3
    <3>2. ASSUME NEW n \in 1..k PROVE ss[n] = rr[n]
      <4>1. ss[n] = PieceGroups(p[n])
        BY <2>2, <2>3, <2>8
      <4>2. PieceGroups(p[n]) = <<v[n]>>
        BY <2>4, Zenon DEF PieceGroups
      <4> QED
        BY <1>6, <4>1, <4>2
    <3> QED
      BY <3>1, <3>2
  <2>11. ss \in [1..(k + 1) -> Seq(Group)]
    <3>1. \A n \in 1..m : ss[n] \in Seq(Group)
      BY <1>7, <2>1, <2>6, <2>10
    <3> QED
      BY <2>2, <2>3, <2>8, <3>1
  <2>12. FlattenSeq(ss) = FlattenSeq(rr) \o ss[k + 1]
    BY <1>7, <2>10, <2>11, FlattenLast
  <2> QED
    BY <1>8, <2>2, <2>3, <2>9, <2>10, <2>12
<1> QED
  BY <1>1, <1>5, <1>9, <1>10 DEF TailOf

LEMMA HexesPart ==
  ASSUME NEW v \in Seq(Group), NEW i \in Nat \ {0}, NEW j \in Nat, j <= Len(v)
  PROVE  /\ SubSeq(v, i, j) \in Seq(Group)
         /\ Len(SubSeq(v, i, j)) = (IF i <= j THEN j - i + 1 ELSE 0)
         /\ \A n \in 1..(j - i + 1) : SubSeq(v, i, j)[n] = v[i + n - 1]
         /\ SubSeq(Hexes(v), i, j) = Hexes(SubSeq(v, i, j))
<1>1. PICK k \in Nat : k = Len(v) /\ j <= k /\ \A n \in 1..k : v[n] \in Group
  BY ElementOfSeq
<1>2. /\ Hexes(v) \in Seq(Ipv6Piece) /\ Len(Hexes(v)) = k
      /\ \A n \in 1..k : Hexes(v)[n] = Hex(v[n]) /\ Hexes(v)[n] \in Ipv6Piece
  <2>1. TailOf(<< >>, << >>)
    BY DEF TailOf
  <2>2. Hexes(v) \in Seq(Ipv6Piece) /\ Len(Hexes(v)) = k
    BY <1>1, <2>1, HexesRead
  <2>3. \A n \in 1..k : Hexes(v)[n] = Hex(v[n])
    BY <1>1 DEF Hexes
  <2>4. \A n \in 1..Len(Hexes(v)) : Hexes(v)[n] \in Ipv6Piece
    BY <2>2, ElementOfSeq
  <2> QED
    BY <2>2, <2>3, <2>4
<1>3. \A n \in i..j : n \in 1..k
  BY <1>1
<1>4. i \in Int /\ j \in Int
  OBVIOUS
<1>5. PICK w : w = SubSeq(v, i, j)
  OBVIOUS
<1>6. /\ w \in Seq(Group) /\ Len(w) = (IF i <= j THEN j - i + 1 ELSE 0)
      /\ \A n \in 1..(j - i + 1) : w[n] = v[i + n - 1]
  <2>1. \A n \in i..j : v[n] \in Group
    BY <1>1, <1>3
  <2> QED
    BY <1>4, <1>5, <2>1, SubSeqProperties
<1>7. PICK h : h = SubSeq(Hexes(v), i, j)
  OBVIOUS
<1>8. /\ h \in Seq(Ipv6Piece) /\ Len(h) = (IF i <= j THEN j - i + 1 ELSE 0)
      /\ \A n \in 1..(j - i + 1) : h[n] = Hexes(v)[i + n - 1]
  <2>1. \A n \in i..j : Hexes(v)[n] \in Ipv6Piece
    BY <1>2, <1>3
  <2> QED
    BY <1>4, <1>7, <2>1, SubSeqProperties
<1>9. Hexes(w) \in Seq(Ipv6Piece) /\ Len(Hexes(w)) = Len(w) /\ \A n \in 1..Len(w) : Hexes(w)[n] = Hex(w[n])
  <2>1. TailOf(<< >>, << >>)
    BY DEF TailOf
  <2>2. Hexes(w) \in Seq(Ipv6Piece) /\ Len(Hexes(w)) = Len(w)
    BY <1>6, <2>1, HexesRead
  <2> QED
    BY <2>2 DEF Hexes
<1>10. \A n \in 1..Len(h) : h[n] = Hexes(w)[n]
  <2> SUFFICES ASSUME NEW n \in 1..Len(h) PROVE h[n] = Hexes(w)[n]
    OBVIOUS
  <2>1. n \in 1..(j - i + 1) /\ n \in 1..Len(w) /\ i + n - 1 \in i..j
    BY <1>6, <1>8
  <2>2. h[n] = Hex(v[i + n - 1])
    BY <1>2, <1>3, <1>8, <2>1
  <2> QED
    BY <1>6, <1>9, <2>1, <2>2
<1>11. h = Hexes(w)
  BY <1>6, <1>8, <1>9, <1>10, SeqEqual
<1> QED
  BY <1>5, <1>6, <1>7, <1>11

ZeroGroups(m) == [n \in 1..m |-> 0]

LEMMA ZeroGroupsIs ==
  ASSUME NEW m \in Nat
  PROVE  ZeroGroups(m) \in Seq(Group) /\ Len(ZeroGroups(m)) = m /\ \A n \in 1..m : ZeroGroups(m)[n] = 0
<1>1. 0 \in Group
  BY HextetIs DEF Group
<1>2. ZeroGroups(m) \in [1..m -> Group]
  BY <1>1 DEF ZeroGroups
<1> QED
  BY <1>2, ListIs DEF ZeroGroups

(* A text leaves out the longest run of zeros, or nothing. *)
Kept(v, tail, text) ==
  /\ longestRun(v).bestLen < 2
  /\ text = [left |-> Hexes(v) \o tail, double |-> FALSE, right |-> << >>]

LeavesOut(v, tail, text, a, m, c) ==
  /\ m >= 2 /\ m = longestRun(v).bestLen /\ Len(a) + 1 = longestRun(v).bestStart
  /\ v = (a \o ZeroGroups(m)) \o c /\ Len(v) = Len(a) + m + Len(c)
  /\ text = [left |-> Hexes(a), double |-> TRUE, right |-> Hexes(c) \o tail]

LEMMA ElidedIs ==
  ASSUME NEW v \in Seq(Group), NEW tail
  PROVE  \/ Kept(v, tail, Elided(v, tail))
         \/ \E a \in Seq(Group), c \in Seq(Group), m \in Nat :
              LeavesOut(v, tail, Elided(v, tail), a, m, c)
<1>1. PICK k \in Nat : k = Len(v) /\ DOMAIN v = 1..k /\ \A n \in 1..k : v[n] \in Group
  BY ElementOfSeq
<1>2. v \in Seq(Nat)
  BY GroupsAreNumbers
<1>3. [n \in DOMAIN v |-> Hex(v[n])] = Hexes(v) /\ Len(Hexes(v)) = k
  <2>1. [n \in DOMAIN v |-> Hex(v[n])] = Hexes(v)
    BY <1>1 DEF Hexes
  <2>2. TailOf(<< >>, << >>)
    BY DEF TailOf
  <2> QED
    BY <1>1, <2>1, <2>2, HexesRead
<1>4. PICK run : run = longestRun(v)
  OBVIOUS
<1>5. run \in Runs /\ Best(v, k, run.bestStart, run.bestLen)
  BY <1>1, <1>2, <1>4, LongestRunIs
<1>6. Elided(v, tail) =
        IF run.bestLen < 2 THEN [left |-> Hexes(v) \o tail, double |-> FALSE, right |-> << >>]
        ELSE [left |-> SubSeq(Hexes(v), 1, run.bestStart - 1), double |-> TRUE,
              right |-> SubSeq(Hexes(v), run.bestStart + run.bestLen, k) \o tail]
  BY <1>3, <1>4, Zenon DEF Elided
<1>7. CASE run.bestLen < 2
  BY <1>4, <1>6, <1>7 DEF Kept
<1>8. CASE ~ (run.bestLen < 2)
  <2>1. PICK s \in 1..k, m \in Nat : /\ s = run.bestStart /\ m = run.bestLen /\ m >= 2 /\ s + m - 1 <= k
                                     /\ Nought(v, s, s + m - 1)
    <3>1. run.bestStart \in Nat /\ run.bestLen \in Nat
      BY <1>5 DEF Runs
    <3>2. run.bestLen # 0 /\ run.bestLen >= 2
      BY <1>8, <3>1
    <3> QED
      BY <1>5, <3>1, <3>2 DEF Best
  <2>2. PICK a : a = SubSeq(v, 1, s - 1)
    OBVIOUS
  <2>3. PICK c : c = SubSeq(v, s + m, k)
    OBVIOUS
  <2>4. a \in Seq(Group) /\ Len(a) = s - 1 /\ (\A n \in 1..(s - 1) : a[n] = v[n])
        /\ SubSeq(Hexes(v), 1, s - 1) = Hexes(a)
    <3>1. PICK j \in Nat : j = s - 1 /\ j <= k
      BY <2>1
    <3>2. /\ SubSeq(v, 1, j) \in Seq(Group)
          /\ Len(SubSeq(v, 1, j)) = (IF 1 <= j THEN j - 1 + 1 ELSE 0)
          /\ \A n \in 1..(j - 1 + 1) : SubSeq(v, 1, j)[n] = v[1 + n - 1]
          /\ SubSeq(Hexes(v), 1, j) = Hexes(SubSeq(v, 1, j))
      <4>1. 1 \in Nat \ {0}
        OBVIOUS
      <4> QED
        BY <1>1, <3>1, <4>1, HexesPart
    <3>3. j - 1 + 1 = j /\ (IF 1 <= j THEN j - 1 + 1 ELSE 0) = j /\ \A n \in 1..j : 1 + n - 1 = n
      OBVIOUS
    <3> QED
      BY <2>2, <3>1, <3>2, <3>3
  <2>5. c \in Seq(Group) /\ Len(c) = k - s - m + 1 /\ (\A n \in 1..(k - s - m + 1) : c[n] = v[s + m + n - 1])
        /\ SubSeq(Hexes(v), s + m, k) = Hexes(c)
    <3>1. PICK i \in Nat \ {0} : i = s + m /\ i <= k + 1
      BY <2>1
    <3>2. /\ SubSeq(v, i, k) \in Seq(Group)
          /\ Len(SubSeq(v, i, k)) = (IF i <= k THEN k - i + 1 ELSE 0)
          /\ \A n \in 1..(k - i + 1) : SubSeq(v, i, k)[n] = v[i + n - 1]
          /\ SubSeq(Hexes(v), i, k) = Hexes(SubSeq(v, i, k))
      <4>1. k <= Len(v)
        BY <1>1
      <4> QED
        BY <4>1, HexesPart
    <3>3. (IF i <= k THEN k - i + 1 ELSE 0) = k - i + 1 /\ k - i + 1 = k - s - m + 1
      BY <3>1
    <3> QED
      BY <2>3, <3>1, <3>2, <3>3
  <2>6. PICK x \in Seq(Group) : x = a \o ZeroGroups(m) /\ Len(x) = s - 1 + m
                                /\ \A n \in 1..(s - 1 + m) : x[n] = v[n]
    <3>1. PICK z \in Seq(Group) : z = ZeroGroups(m) /\ Len(z) = m /\ \A n \in 1..m : z[n] = 0
      BY ZeroGroupsIs
    <3>2. a \o z \in Seq(Group) /\ Len(a \o z) = Len(a) + Len(z)
          /\ \A n \in 1..(Len(a) + Len(z)) : (a \o z)[n] = IF n <= Len(a) THEN a[n] ELSE z[n - Len(a)]
      BY <2>4, ConcatProperties
    <3>3. Len(a) + Len(z) = s - 1 + m
      BY <2>4, <3>1
    <3>4. ASSUME NEW n \in 1..(s - 1 + m) PROVE (a \o z)[n] = v[n]
      <4>1. (a \o z)[n] = IF n <= s - 1 THEN a[n] ELSE z[n - (s - 1)]
        BY <2>4, <3>2, <3>3, <3>4
      <4>2. CASE n <= s - 1
        <5>1. n \in 1..(s - 1)
          BY <4>2
        <5> QED
          BY <2>4, <4>1, <4>2, <5>1
      <4>3. CASE ~ (n <= s - 1)
        <5>1. n - (s - 1) \in 1..m /\ n \in s..(s + m - 1)
          BY <4>3
        <5>2. v[n] = 0
          BY <2>1, <5>1 DEF Nought
        <5> QED
          BY <3>1, <4>1, <4>3, <5>1, <5>2
      <4> QED
        BY <4>2, <4>3
    <3> QED
      BY <3>1, <3>2, <3>3, <3>4
  <2>7. v = x \o c /\ k = (s - 1) + m + Len(c)
    <3>1. PICK q \in Nat : q = s - 1 + m /\ Len(x) = q /\ Len(c) = k - q /\ q <= k
                           /\ (\A n \in 1..q : x[n] = v[n]) /\ (\A n \in 1..(k - q) : c[n] = v[q + n])
      <4>1. s - 1 + m \in Nat /\ s - 1 + m <= k /\ k - s - m + 1 = k - (s - 1 + m)
        <5>1. \A i, j, l \in Int : l - i - j + 1 = l - (i - 1 + j)
          OBVIOUS
        <5>2. s \in Int /\ m \in Int /\ k \in Int
          OBVIOUS
        <5>3. s - 1 + m \in Nat /\ s - 1 + m <= k
          <6>1. \A i, j, l \in Int : i + j - 1 <= l /\ i >= 1 /\ j >= 2 => i - 1 + j \in Nat /\ i - 1 + j <= l
            OBVIOUS
          <6>2. s + m - 1 <= k /\ s >= 1 /\ m >= 2
            BY <2>1
          <6> QED
            BY <5>2, <6>1, <6>2, Zenon
        <5> QED
          BY <5>1, <5>2, <5>3, Zenon
      <4>2. \A n \in 1..(k - s - m + 1) : s + m + n - 1 = (s - 1 + m) + n
        OBVIOUS
      <4> QED
        BY <2>5, <2>6, <4>1, <4>2
    <3>2. x \o c \in Seq(Group) /\ Len(x \o c) = Len(x) + Len(c)
          /\ \A n \in 1..(Len(x) + Len(c)) : (x \o c)[n] = IF n <= Len(x) THEN x[n] ELSE c[n - Len(x)]
      BY <2>5, ConcatProperties
    <3>3. Len(x) + Len(c) = k
      BY <3>1
    <3>4. ASSUME NEW n \in 1..k PROVE (x \o c)[n] = v[n]
      <4>1. (x \o c)[n] = IF n <= q THEN x[n] ELSE c[n - q]
        BY <3>1, <3>2, <3>3, <3>4
      <4>2. CASE n <= q
        <5>1. n \in 1..q
          BY <4>2
        <5> QED
          BY <3>1, <4>1, <4>2, <5>1
      <4>3. CASE ~ (n <= q)
        <5>1. n - q \in 1..(k - q) /\ q + (n - q) = n
          BY <4>3
        <5> QED
          BY <3>1, <4>1, <4>3, <5>1
      <4> QED
        BY <4>2, <4>3
    <3>5. v = x \o c
      <4>1. Len(v) = Len(x \o c) /\ \A n \in 1..Len(v) : v[n] = (x \o c)[n]
        BY <1>1, <3>2, <3>3, <3>4
      <4> QED
        BY <3>2, <4>1, SeqEqual
    <3> QED
      BY <3>1, <3>5
  <2>8. Elided(v, tail) = [left |-> Hexes(a), double |-> TRUE, right |-> Hexes(c) \o tail]
    BY <1>6, <1>8, <2>1, <2>4, <2>5
  <2>9. Len(a) + 1 = longestRun(v).bestStart /\ m = longestRun(v).bestLen /\ k = Len(a) + m + Len(c)
    <3>1. Len(a) + 1 = s
      BY <2>4
    <3>2. k = Len(a) + m + Len(c)
      BY <2>4, <2>7
    <3> QED
      BY <1>4, <2>1, <3>1, <3>2, Zenon
  <2>10. LeavesOut(v, tail, Elided(v, tail), a, m, c)
    BY <1>1, <2>1, <2>6, <2>7, <2>8, <2>9 DEF LeavesOut
  <2> QED
    BY <2>4, <2>5, <2>10
<1> QED
  BY <1>7, <1>8

(* The text of a list of groups reads as those groups. *)
Typed6(text) == text \in Ipv6Text

LEMMA NothingReads == parseHextets(<< >>) = << >>
<1>1. << >> \in Seq(Group) /\ TailOf(<< >>, << >>) /\ << >> \o << >> = << >>
  BY DEF TailOf
<1>2. Hexes(<< >>) = << >>
  BY DEF Hexes
<1>3. parseHextets(Hexes(<< >>) \o << >>) = << >> \o << >>
  BY <1>1, HexesRead
<1> QED
  BY <1>1, <1>2, <1>3

LEMMA GroupsRead ==
  ASSUME NEW text, Typed6(text), groupsOf(text) # Null
  PROVE  groupsOf(text) \in Seq(Group) /\ Len(groupsOf(text)) = Groups
<1>1. text.left \in Seq(Ipv6Piece) /\ text.right \in Seq(Ipv6Piece) /\ text.double \in BOOLEAN
  BY DEF Typed6, Ipv6Text
<1>2. PICK left, right : left = parseHextets(text.left) /\ right = parseHextets(text.right)
  OBVIOUS
<1>3. left # Null /\ right # Null
  BY <1>2 DEF groupsOf
<1>4. left \in Seq(Group) /\ right \in Seq(Group)
  BY <1>1, <1>2, <1>3, PiecesRead
<1>5. PICK missing \in Int : missing = Groups - (Len(left) + Len(right))
  <2>1. Len(left) \in Nat /\ Len(right) \in Nat
    BY <1>4
  <2>2. PICK x \in Nat, y \in Nat, z \in Nat : x = Len(left) /\ y = Len(right) /\ z = Groups
    BY <2>1, HextetIs
  <2>3. z - (x + y) \in Int
    OBVIOUS
  <2> QED
    BY <2>2, <2>3, Zenon
<1>6. CASE text.double
  <2>1. ~ (missing < 1) /\ groupsOf(text) = left \o [n \in 1..missing |-> 0] \o right
    BY <1>2, <1>3, <1>5, <1>6 DEF groupsOf
  <2>2. PICK z \in Seq(Group) : z = [n \in 1..missing |-> 0] /\ Len(z) = missing
    <3>1. missing \in Nat
      BY <1>5, <2>1
    <3>2. ZeroGroups(missing) \in Seq(Group) /\ Len(ZeroGroups(missing)) = missing
      BY <3>1, ZeroGroupsIs
    <3> QED
      BY <3>2 DEF ZeroGroups
  <2>3. PICK x \in Seq(Group) : x = left \o z /\ Len(x) = Len(left) + missing
    <3>1. left \o z \in Seq(Group) /\ Len(left \o z) = Len(left) + Len(z)
      BY <1>4, ConcatProperties
    <3> QED
      BY <2>2, <3>1
  <2>4. x \o right \in Seq(Group) /\ Len(x \o right) = Len(left) + missing + Len(right)
    BY <1>4, <2>3, ConcatProperties
  <2>5. Len(left) + missing + Len(right) = Groups
    <3>1. Len(left) \in Nat /\ Len(right) \in Nat
      BY <1>4
    <3> QED
      BY <1>5, <3>1, HextetIs
  <2> QED
    BY <2>1, <2>2, <2>3, <2>4, <2>5
<1>7. CASE ~ text.double
  <2>1. groupsOf(text) = left /\ Len(left) = Groups
    BY <1>2, <1>3, <1>7 DEF groupsOf
  <2> QED
    BY <1>4, <2>1
<1> QED
  BY <1>6, <1>7

LEMMA ElidedReads ==
  ASSUME NEW v \in Seq(Group), NEW tail, NEW low, TailOf(tail, low), Len(v) + Len(low) = Groups
  PROVE  /\ Typed6(Elided(v, tail)) /\ groupsOf(Elided(v, tail)) = v \o low
         /\ tail # << >> => Last(Elided(v, tail).left \o Elided(v, tail).right).kind = "quad"
<1>1. PICK text : text = Elided(v, tail)
  OBVIOUS
<1>2. tail \in Seq(Ipv6Piece) /\ low \in Seq(Group)
  BY TailIs
<1>3. TailOf(<< >>, << >>)
  BY DEF TailOf
<1>4. ASSUME NEW s \in Seq(Ipv6Piece), tail # << >> PROVE Last(s \o tail).kind = "quad"
  <2>1. PICK n \in Nat : tail = <<Quad(n)>>
    BY <1>4 DEF TailOf
  <2>2. Len(tail) = 1 /\ tail[1] = Quad(n)
    BY <2>1
  <2>3. Len(s \o tail) = Len(s) + 1
        /\ \A i \in 1..(Len(s) + 1) : (s \o tail)[i] = IF i <= Len(s) THEN s[i] ELSE tail[i - Len(s)]
    <3>1. Len(s \o tail) = Len(s) + Len(tail)
          /\ \A i \in 1..(Len(s) + Len(tail)) :
               (s \o tail)[i] = IF i <= Len(s) THEN s[i] ELSE tail[i - Len(s)]
      BY <1>2, ConcatProperties
    <3> QED
      BY <2>2, <3>1
  <2>4. Len(s) + 1 \in 1..(Len(s) + 1) /\ ~ (Len(s) + 1 <= Len(s)) /\ (Len(s) + 1) - Len(s) = 1
    <3>1. PICK m \in Nat : m = Len(s)
      OBVIOUS
    <3> QED
      BY <3>1
  <2>5. (s \o tail)[Len(s) + 1] = Quad(n)
    BY <2>2, <2>3, <2>4
  <2> QED
    BY <2>3, <2>5 DEF Last, Quad
<1>5. CASE Kept(v, tail, text)
  <2>1. Hexes(v) \in Seq(Ipv6Piece) /\ parseHextets(Hexes(v) \o tail) = v \o low
    BY HexesRead
  <2>2. PICK h \in Seq(Ipv6Piece) : h = Hexes(v) \o tail
    BY <1>2, <2>1, ConcatProperties
  <2>3. text = [left |-> h, double |-> FALSE, right |-> << >>]
    BY <1>5, <2>2 DEF Kept
  <2>4. text \in Ipv6Text /\ text.left = h /\ text.double = FALSE /\ text.right = << >>
    <3>1. << >> \in Seq(Ipv6Piece) /\ FALSE \in BOOLEAN
      OBVIOUS
    <3> QED
      <4>1. PICK x \in Seq(Ipv6Piece), d \in BOOLEAN : x = << >> /\ d = FALSE
        BY <3>1
      <4>2. text = [left |-> h, double |-> d, right |-> x]
        BY <2>3, <4>1, Zenon
      <4>3. text \in Ipv6Text
        BY <4>2 DEF Ipv6Text
      <4>4. text.left = h /\ text.double = d /\ text.right = x
        BY <4>2
      <4> QED
        BY <4>1, <4>3, <4>4, Zenon
  <2>5. parseHextets(text.left) = v \o low /\ parseHextets(text.right) = << >>
    BY <2>1, <2>2, <2>4, NothingReads
  <2>6. v \o low \in Seq(Group) /\ Len(v \o low) = Groups
    BY <1>2, ConcatProperties
  <2>7. groupsOf(text) = v \o low
    <3>1. v \o low # Null /\ << >> # Null
      BY <2>6, HextetIs
    <3> QED
      BY <2>4, <2>5, <2>6, <3>1 DEF groupsOf
  <2>8. tail # << >> => Last(text.left \o text.right).kind = "quad"
    <3>1. h \o << >> = h
      OBVIOUS
    <3> QED
      BY <1>4, <2>1, <2>2, <2>4, <3>1
  <2> QED
    BY <1>1, <2>4, <2>7, <2>8 DEF Typed6
<1>6. ASSUME NEW a \in Seq(Group), NEW c \in Seq(Group), NEW m \in Nat, LeavesOut(v, tail, text, a, m, c)
      PROVE  /\ Typed6(text) /\ groupsOf(text) = v \o low
             /\ tail # << >> => Last(text.left \o text.right).kind = "quad"
  <2>1. /\ Hexes(c) \in Seq(Ipv6Piece) /\ parseHextets(Hexes(c) \o tail) = c \o low
        /\ Hexes(a) \in Seq(Ipv6Piece) /\ Len(Hexes(a)) = Len(a)
        /\ parseHextets(Hexes(a) \o << >>) = a \o << >>
    BY <1>3, HexesRead
  <2>2. Hexes(a) \o << >> = Hexes(a) /\ a \o << >> = a
    BY <2>1
  <2>3. PICK h \in Seq(Ipv6Piece) : h = Hexes(c) \o tail
    BY <1>2, <2>1, ConcatProperties
  <2>4. text = [left |-> Hexes(a), double |-> TRUE, right |-> h]
    BY <1>6, <2>3 DEF LeavesOut
  <2>5. text \in Ipv6Text /\ text.left = Hexes(a) /\ text.double = TRUE /\ text.right = h
    <3>1. TRUE \in BOOLEAN
      OBVIOUS
    <3> QED
      <4>1. PICK x \in Seq(Ipv6Piece), d \in BOOLEAN : x = Hexes(a) /\ d = TRUE
        BY <2>1, <3>1
      <4>2. text = [left |-> x, double |-> d, right |-> h]
        BY <2>4, <4>1, Zenon
      <4>3. text \in Ipv6Text
        BY <4>2 DEF Ipv6Text
      <4>4. text.left = x /\ text.double = d /\ text.right = h
        BY <4>2
      <4> QED
        BY <4>1, <4>3, <4>4, Zenon
  <2>6. parseHextets(text.left) = a /\ parseHextets(text.right) = c \o low
    BY <2>1, <2>2, <2>3, <2>5
  <2>7. c \o low \in Seq(Group) /\ Len(c \o low) = Len(c) + Len(low)
    BY <1>2, ConcatProperties
  <2>8. Groups - (Len(a) + Len(c \o low)) = m /\ m >= 2
    <3>1. Len(v) = Len(a) + m + Len(c) /\ m >= 2
      BY <1>6 DEF LeavesOut
    <3>2. Len(a) \in Nat /\ Len(c) \in Nat /\ Len(low) \in Nat
      BY <1>2
    <3> QED
      BY <2>7, <3>1, <3>2, HextetIs
  <2>9. \A n \in DOMAIN text.left : text.left[n].kind # "quad"
    <3>1. \A x : Hex(x).kind = "hex"
      BY DEF Hex
    <3> QED
      BY <2>5, <3>1 DEF Hexes
  <2>10. groupsOf(text) = a \o ZeroGroups(m) \o (c \o low)
    <3>1. a # Null /\ c \o low # Null
      BY <2>7, HextetIs
    <3>2. ~ (m < 1)
      BY <2>8
    <3>3. ZeroGroups(m) = [n \in 1..m |-> 0]
      BY DEF ZeroGroups
    <3>4. PICK left, right : left = parseHextets(text.left) /\ right = parseHextets(text.right)
      OBVIOUS
    <3>5. /\ ~ (left = Null \/ right = Null \/ (text.double /\ \E n \in DOMAIN text.left : text.left[n].kind = "quad"))
          /\ Groups - (Len(left) + Len(right)) = m
      BY <2>6, <2>8, <2>9, <3>1, <3>4
    <3>6. groupsOf(text) = left \o [n \in 1..m |-> 0] \o right
      BY <2>5, <3>2, <3>4, <3>5, Zenon DEF groupsOf
    <3> QED
      BY <2>6, <3>3, <3>4, <3>6
  <2>11. a \o ZeroGroups(m) \o (c \o low) = v \o low
    <3>1. v = (a \o ZeroGroups(m)) \o c
      BY <1>6 DEF LeavesOut
    <3>2. ZeroGroups(m) \in Seq(Group)
      BY ZeroGroupsIs
    <3>3. a \o ZeroGroups(m) \in Seq(Group)
      BY <3>2, ConcatProperties
    <3>4. ((a \o ZeroGroups(m)) \o c) \o low = (a \o ZeroGroups(m)) \o (c \o low)
      <4>1. PICK x \in Seq(Group), y \in Seq(Group) : x = a \o ZeroGroups(m) /\ y = low
        BY <1>2, <3>3
      <4>2. (x \o c) \o y = x \o (c \o y)
        BY ConcatAssociative, SMTT(30)
      <4> QED
        BY <4>1, <4>2, Zenon
    <3> QED
      BY <3>1, <3>4
  <2>12. tail # << >> => Last(text.left \o text.right).kind = "quad"
    <3>1. Hexes(a) \o Hexes(c) \in Seq(Ipv6Piece)
      BY <2>1, ConcatProperties
    <3>2. Hexes(a) \o (Hexes(c) \o tail) = (Hexes(a) \o Hexes(c)) \o tail
      <4>1. PICK x \in Seq(Ipv6Piece), y \in Seq(Ipv6Piece), z \in Seq(Ipv6Piece) :
              x = Hexes(a) /\ y = Hexes(c) /\ z = tail
        BY <1>2, <2>1
      <4>2. (x \o y) \o z = x \o (y \o z)
        BY ConcatAssociative, SMTT(30)
      <4> QED
        BY <4>1, <4>2, Zenon
    <3> QED
      BY <1>4, <2>3, <2>5, <3>1, <3>2
  <2> QED
    BY <2>5, <2>10, <2>11, <2>12 DEF Typed6
<1> QED
  BY <1>1, <1>5, <1>6, ElidedIs

LEMMA LeftOutIsRfc5952 ==
  ASSUME NEW v \in Seq(Group), Len(v) = Groups
  PROVE  Rfc5952(v, canonicalizeIpv6(v))
<1>1. PICK text : text = canonicalizeIpv6(v) /\ text = Elided(v, << >>)
  BY DEF canonicalizeIpv6
<1>2. PICK k \in Nat : k = Groups /\ k = Len(v)
  BY HextetIs
<1>3. PICK run \in Runs : run = longestRun(v) /\ Best(v, k, run.bestStart, run.bestLen)
  BY <1>2, GroupsAreNumbers, LongestRunIs
<1>4. PICK bs \in Nat, bl \in Nat : bs = run.bestStart /\ bl = run.bestLen
  BY DEF Runs
<1>5. Best(v, k, bs, bl)
  BY <1>3, <1>4
<1>6. CASE Kept(v, << >>, text)
  <2>1. bl < 2 /\ text.double = FALSE
    BY <1>3, <1>4, <1>6 DEF Kept
  <2>2. ASSUME NEW s \in 1..k, Zeros(v, s, 2) PROVE FALSE
    <3>1. s + 2 - 1 <= k /\ \A n \in s..(s + 2 - 1) : v[n] = 0
      BY <1>2, <2>2 DEF Zeros
    <3>2. PICK e \in s..k : e = s + 2 - 1 /\ e = s + 1
      BY <3>1
    <3>3. Nought(v, s, e)
      BY <3>1, <3>2 DEF Nought
    <3>4. e - s + 1 <= bl
      BY <1>5, <3>3 DEF Best
    <3> QED
      BY <2>1, <3>2, <3>4
  <2> QED
    BY <1>1, <1>2, <2>1, <2>2 DEF Rfc5952
<1>7. ASSUME NEW a \in Seq(Group), NEW c \in Seq(Group), NEW m \in Nat, LeavesOut(v, << >>, text, a, m, c)
      PROVE  Rfc5952(v, text)
  <2>1. m >= 2 /\ m = bl /\ Len(a) + 1 = bs /\ k = Len(a) + m + Len(c)
        /\ text = [left |-> Hexes(a), double |-> TRUE, right |-> Hexes(c) \o << >>]
    BY <1>2, <1>3, <1>4, <1>7 DEF LeavesOut
  <2>2. TailOf(<< >>, << >>)
    BY DEF TailOf
  <2>3. Len(Hexes(a)) = Len(a) /\ Len(Hexes(c)) = Len(c) /\ Hexes(c) \in Seq(Ipv6Piece)
    BY <2>2, HexesRead
  <2>4. text.left = Hexes(a) /\ text.double = TRUE /\ text.right = Hexes(c)
    <3>1. Hexes(c) \o << >> = Hexes(c)
      BY <2>3, ConcatEmptySeq
    <3> QED
      BY <2>1, <3>1
  <2>5. Groups - Len(text.left) - Len(text.right) = m /\ Len(text.left) + 1 = bs
    <3>1. PICK x \in Nat, y \in Nat : x = Len(a) /\ y = Len(c)
      OBVIOUS
    <3>2. k = x + m + y /\ x + 1 = bs
      BY <2>1, <3>1, Zenon
    <3>3. k - x - y = m
      BY <3>2
    <3>4. Groups - Len(text.left) - Len(text.right) = k - x - y
      BY <1>2, <2>3, <2>4, <3>1, Zenon
    <3>5. Len(text.left) + 1 = bs
      BY <2>3, <2>4, <3>1, <3>2, Zenon
    <3> QED
      BY <3>3, <3>4, <3>5
  <2>6. Zeros(v, bs, m)
    <3>1. bs \in 1..k /\ bs + m - 1 <= k /\ Nought(v, bs, bs + m - 1)
      BY <1>5, <2>1 DEF Best
    <3> QED
      BY <1>2, <3>1 DEF Zeros, Nought
  <2>7. ASSUME NEW s \in 1..k, NEW l \in m..k, Zeros(v, s, l) PROVE l = m /\ s >= bs
    <3>1. s + l - 1 <= k /\ \A n \in s..(s + l - 1) : v[n] = 0
      BY <1>2, <2>7 DEF Zeros
    <3>2. PICK e \in s..k : e = s + l - 1 /\ e - s + 1 = l
      <4>1. l >= 2
        BY <2>1
      <4>2. s + l - 1 \in s..k /\ (s + l - 1) - s + 1 = l
        BY <3>1, <4>1
      <4> QED
        BY <4>2
    <3>3. Nought(v, s, e)
      BY <3>1, <3>2 DEF Nought
    <3>4. e - s + 1 <= bl /\ (e - s + 1 = bl => s >= bs)
      BY <1>5, <3>3 DEF Best
    <3> QED
      BY <2>1, <3>2, <3>4
  <2> QED
    BY <1>2, <2>1, <2>4, <2>5, <2>6, <2>7, Zenon DEF Rfc5952
<1> QED
  BY <1>1, <1>6, <1>7, ElidedIs

(* The last two groups hold an IPv4 address. *)
LEMMA LowGroups ==
  ASSUME NEW v \in Seq(Group), Len(v) = Groups
  PROVE  /\ low32(v) \in Nat /\ low32(v) < Power(Byte, 4)
         /\ SubSeq(v, 1, Groups - 2) \in Seq(Group) /\ Len(SubSeq(v, 1, Groups - 2)) = Groups - 2
         /\ SubSeq(v, 1, Groups - 2) \o <<low32(v) \div Hextet, low32(v) % Hextet>> = v
<1>1. PICK g \in Nat, h \in Nat \ {0} : g = Groups /\ g >= 2 /\ h = Hextet /\ Power(Byte, 4) = h * h
  BY HextetIs
<1>2. \A n \in 1..g : v[n] \in 0..(h - 1)
  BY <1>1, ElementOfSeq DEF Group
<1>3. PICK p \in Nat, x \in 0..(h - 1), y \in 0..(h - 1) : p = g - 2 /\ x = v[g - 1] /\ y = v[g]
  <2>1. g - 2 \in Nat /\ g - 1 \in 1..g /\ g \in 1..g
    BY <1>1
  <2> QED
    BY <1>2, <2>1
<1>4. PICK low \in Nat : low = low32(v) /\ low = x * h + y
  <2>1. low32(v) = x * h + y
    BY <1>1, <1>3 DEF low32
  <2>2. x * h + y \in Nat
    OBVIOUS
  <2> QED
    BY <2>1, <2>2
<1>5. low < h * h
  <2>1. x \in Nat /\ y \in Nat /\ x < h /\ y < h
    OBVIOUS
  <2>2. x * h + y < h * h
    BY <2>1, Below
  <2> QED
    BY <1>4, <2>2
<1>6. low \div h = x /\ low % h = y
  <2>1. x \in Nat
    OBVIOUS
  <2>2. (x * h + y) \div h = x /\ (x * h + y) % h = y
    BY <2>1, QuotientIs
  <2> QED
    BY <1>4, <2>2
<1>7. PICK s \in Seq(Group) : s = SubSeq(v, 1, g - 2) /\ Len(s) = p /\ \A n \in 1..p : s[n] = v[n]
  <2>1. 1 \in Nat \ {0} /\ p <= Len(v)
    BY <1>1, <1>3
  <2>2. /\ SubSeq(v, 1, p) \in Seq(Group)
        /\ Len(SubSeq(v, 1, p)) = (IF 1 <= p THEN p - 1 + 1 ELSE 0)
        /\ \A n \in 1..(p - 1 + 1) : SubSeq(v, 1, p)[n] = v[1 + n - 1]
    BY <2>1, HexesPart
  <2>3. p - 1 + 1 = p /\ (IF 1 <= p THEN p - 1 + 1 ELSE 0) = p /\ \A n \in 1..p : 1 + n - 1 = n
    OBVIOUS
  <2>4. PICK s : s = SubSeq(v, 1, p)
    OBVIOUS
  <2>5. s \in Seq(Group) /\ Len(s) = p /\ \A n \in 1..p : s[n] = v[n]
    BY <2>2, <2>3, <2>4
  <2>6. s = SubSeq(v, 1, g - 2)
    BY <1>3, <2>4, Zenon
  <2> QED
    BY <2>5, <2>6, Zenon
<1>8. PICK t \in Seq(Group) : t = <<x, y>> /\ Len(t) = 2 /\ t[1] = x /\ t[2] = y
  <2>1. x \in Group /\ y \in Group
    BY <1>1 DEF Group
  <2>2. <<x, y>> \in Seq(Group)
    BY <2>1
  <2>3. Len(<<x, y>>) = 2 /\ <<x, y>>[1] = x /\ <<x, y>>[2] = y
    OBVIOUS
  <2> QED
    BY <2>2, <2>3, Zenon
<1>9. s \o t = v
  <2>1. s \o t \in Seq(Group) /\ Len(s \o t) = Len(s) + Len(t)
        /\ \A n \in 1..(Len(s) + Len(t)) : (s \o t)[n] = IF n <= Len(s) THEN s[n] ELSE t[n - Len(s)]
    BY ConcatProperties
  <2>2. Len(s) + Len(t) = g
    BY <1>3, <1>7, <1>8
  <2>3. ASSUME NEW n \in 1..g PROVE (s \o t)[n] = v[n]
    <3>1. (s \o t)[n] = IF n <= p THEN s[n] ELSE t[n - p]
      BY <1>7, <2>1, <2>2, <2>3
    <3>2. CASE n <= p
      <4>1. n \in 1..p
        BY <3>2
      <4> QED
        BY <1>7, <3>1, <3>2, <4>1
    <3>3. CASE ~ (n <= p)
      <4>1. (n = g - 1 /\ n - p = 1) \/ (n = g /\ n - p = 2)
        BY <1>3, <3>3
      <4> QED
        BY <1>3, <1>8, <3>1, <3>3, <4>1
    <3> QED
      BY <3>2, <3>3
  <2> QED
    BY <1>1, <2>1, <2>2, <2>3, SeqEqual
<1> QED
  BY <1>1, <1>3, <1>4, <1>5, <1>6, <1>7, <1>8, <1>9

LEMMA CanonicalReads ==
  ASSUME NEW v \in Seq(Group), Len(v) = Groups
  PROVE  /\ Typed6(canonicalizeIpv6(v)) /\ groupsOf(canonicalizeIpv6(v)) = v
         /\ Typed6(mixedCanonicalIpv6(v, low32(v))) /\ groupsOf(mixedCanonicalIpv6(v, low32(v))) = v
         /\ LET mixed == mixedCanonicalIpv6(v, low32(v))
            IN  Last(mixed.left \o mixed.right).kind = "quad"
<1>1. Typed6(canonicalizeIpv6(v)) /\ groupsOf(canonicalizeIpv6(v)) = v
  <2>1. TailOf(<< >>, << >>) /\ v \o << >> = v /\ Len(v) + Len(<< >>) = Groups
    <3>1. TailOf(<< >>, << >>)
      BY DEF TailOf
    <3>2. v \o << >> = v
      BY ConcatEmptySeq
    <3>3. Len(<< >>) = 0
      OBVIOUS
    <3> QED
      BY <3>1, <3>2, <3>3, HextetIs
  <2>2. Typed6(Elided(v, << >>)) /\ groupsOf(Elided(v, << >>)) = v \o << >>
    BY <2>1, ElidedReads
  <2> QED
    BY <2>1, <2>2 DEF canonicalizeIpv6
<1>2. PICK low \in Nat : low = low32(v) /\ low < Power(Byte, 4)
  BY LowGroups
<1>3. PICK s \in Seq(Group), t \in {<<low \div Hextet, low % Hextet>>} :
        s = SubSeq(v, 1, Groups - 2) /\ Len(s) = Groups - 2
        /\ t = <<low \div Hextet, low % Hextet>> /\ s \o t = v
  BY <1>2, LowGroups
<1>4. PICK tail : tail = <<Quad(low)>>
  OBVIOUS
<1>5. TailOf(tail, t) /\ tail # << >> /\ Len(t) = 2
  BY <1>2, <1>3, <1>4 DEF TailOf
<1>6. Len(s) + Len(t) = Groups
  BY <1>3, <1>5, HextetIs
<1>7. Typed6(Elided(s, tail)) /\ groupsOf(Elided(s, tail)) = s \o t
      /\ Last(Elided(s, tail).left \o Elided(s, tail).right).kind = "quad"
  BY <1>5, <1>6, ElidedReads
<1>8. mixedCanonicalIpv6(v, low32(v)) = Elided(s, tail)
  BY <1>2, <1>3, <1>4 DEF mixedCanonicalIpv6
<1> QED
  BY <1>1, <1>3, <1>7, <1>8

LEMMA Ipv6Answers ==
  ASSUME NEW text, Typed6(text), analyzeIpv6(text) # Null
  PROVE  LET groups == groupsOf(text)
             a == analyzeIpv6(text)
         IN  /\ groups # Null
             /\ a.canonical = canonicalizeIpv6(groups) /\ a.embedded = unwrapLow32Ipv4(groups)
             /\ groupsOf(a.canonical) = groups
             /\ Rfc5952(groups, a.canonical)
             /\ ~analyzeIpv6(a.canonical).obfuscated
             /\ a.embedded # -1 =>
                  LET mixed == mixedCanonicalIpv6(groups, a.embedded)
                  IN  groupsOf(mixed) = groups /\ ~analyzeIpv6(mixed).obfuscated
             /\ ~a.obfuscated =>
                  \/ text = a.canonical
                  \/ a.embedded # -1 /\ Last(text.left \o text.right).kind = "quad"
<1>1. PICK v : v = groupsOf(text)
  OBVIOUS
<1>2. v # Null
  BY <1>1 DEF analyzeIpv6
<1>3. v \in Seq(Group) /\ Len(v) = Groups
  BY <1>1, <1>2, GroupsRead
<1>4. PICK a : a = analyzeIpv6(text)
  OBVIOUS
<1>5. PICK canonical, embedded : canonical = canonicalizeIpv6(v) /\ embedded = unwrapLow32Ipv4(v)
  OBVIOUS
<1>6. ASSUME NEW t, groupsOf(t) = v
      PROVE  analyzeIpv6(t) = [canonical |-> canonical, embedded |-> embedded,
                               obfuscated |-> /\ t # canonical
                                              /\ \/ embedded = -1
                                                 \/ t # mixedCanonicalIpv6(v, embedded)]
  BY <1>2, <1>5, <1>6, Zenon DEF analyzeIpv6
<1>7. ASSUME NEW t, groupsOf(t) = v
      PROVE  /\ analyzeIpv6(t).canonical = canonical /\ analyzeIpv6(t).embedded = embedded
             /\ analyzeIpv6(t).obfuscated <=> /\ t # canonical
                                              /\ \/ embedded = -1
                                                 \/ t # mixedCanonicalIpv6(v, embedded)
  <2>1. PICK o \in BOOLEAN : o = (/\ t # canonical
                                  /\ \/ embedded = -1
                                     \/ t # mixedCanonicalIpv6(v, embedded))
    OBVIOUS
  <2>2. analyzeIpv6(t) = [canonical |-> canonical, embedded |-> embedded, obfuscated |-> o]
    BY <1>6, <1>7, <2>1, Zenon
  <2>3. analyzeIpv6(t).canonical = canonical /\ analyzeIpv6(t).embedded = embedded
        /\ analyzeIpv6(t).obfuscated = o
    BY <2>2
  <2> QED
    BY <2>1, <2>3, Zenon
<1>8. groupsOf(canonical) = v /\ Rfc5952(v, canonical)
  BY <1>3, <1>5, CanonicalReads, LeftOutIsRfc5952
<1>9. a.canonical = canonical /\ a.embedded = embedded
  BY <1>1, <1>4, <1>7
<1>10. ~ analyzeIpv6(canonical).obfuscated
  BY <1>7, <1>8
<1>11. ASSUME embedded # -1
       PROVE  /\ embedded = low32(v) /\ groupsOf(mixedCanonicalIpv6(v, embedded)) = v
              /\ ~ analyzeIpv6(mixedCanonicalIpv6(v, embedded)).obfuscated
  <2>1. embedded = low32(v)
    BY <1>5, <1>11 DEF unwrapLow32Ipv4
  <2>2. groupsOf(mixedCanonicalIpv6(v, embedded)) = v
    BY <1>3, <2>1, CanonicalReads
  <2> QED
    BY <1>7, <1>11, <2>1, <2>2
<1>12. ASSUME ~ a.obfuscated
       PROVE  \/ text = canonical
              \/ embedded # -1 /\ Last(text.left \o text.right).kind = "quad"
  <2>1. text = canonical \/ (embedded # -1 /\ text = mixedCanonicalIpv6(v, embedded))
    BY <1>1, <1>4, <1>7, <1>12
  <2>2. ASSUME embedded # -1, text = mixedCanonicalIpv6(v, embedded)
        PROVE  Last(text.left \o text.right).kind = "quad"
    BY <1>3, <1>11, <2>2, CanonicalReads
  <2> QED
    BY <2>1, <2>2
<1> QED
  BY <1>1, <1>2, <1>4, <1>5, <1>8, <1>9, <1>10, <1>11, <1>12, Zenon

-----------------------------------------------------------------------------
(* Ranges.  The rows in the order they are looked at. *)
LEMMA ByPrefixIs ==
  ASSUME NEW rows, NEW n \in Nat, DOMAIN rows = 1..n, \A k \in 1..n : rows[k].prefix \in Nat
  PROVE  \E p \in [1..n -> 1..n] :
           /\ \A k \in 1..n : \E m \in 1..n : p[m] = k
           /\ ByPrefix(rows) = [m \in 1..n |-> rows[p[m]]]
           /\ \A k, m \in 1..n : k < m => rows[p[k]].prefix >= rows[p[m]].prefix
<1>1. PICK s : s = [k \in 1..n |-> [weight |-> rows[k].prefix, code |-> k]]
  OBVIOUS
<1>2. \A k \in 1..n : s[k].weight = rows[k].prefix /\ s[k].code = k
  BY <1>1
<1>3. DOMAIN s = 1..n /\ \A k \in 1..n : s[k].weight \in Int /\ s[k].code \in Int
  <2>1. \A k \in 1..n : s[k].weight \in Int /\ s[k].code \in Int
    BY <1>2
  <2> QED
    BY <1>1, <2>1
<1>4. PICK p \in [1..n -> 1..n] :
        /\ \A k \in 1..n : \E m \in 1..n : p[m] = k
        /\ sorted(s) = [m \in 1..n |-> s[p[m]]]
        /\ \A k, m \in 1..n : k < m => s[p[k]].weight >= s[p[m]].weight
  BY <1>3, SortedIs
<1>5. \A m \in 1..n : p[m] \in 1..n
  OBVIOUS
<1>6. \A j, k \in 1..n : Before(rows, j, k) <=> Precedes(s, j, k)
  <2> SUFFICES ASSUME NEW j \in 1..n, NEW k \in 1..n
               PROVE  Before(rows, j, k) <=> Precedes(s, j, k)
    OBVIOUS
  <2>1. PICK a \in Nat, b \in Nat : a = rows[j].prefix /\ b = rows[k].prefix
    OBVIOUS
  <2>2. s[j].weight = a /\ s[k].weight = b /\ s[j].code = j /\ s[k].code = k
    BY <1>2, <2>1
  <2>3. compareReasons(s[j], s[k]) <=> (a > b \/ (a = b /\ j < k))
    BY <2>2 DEF compareReasons
  <2>4. compareReasons(s[k], s[j]) <=> (b > a \/ (b = a /\ k < j))
    BY <2>2 DEF compareReasons
  <2>5. Precedes(s, j, k) <=> (a > b \/ (a = b /\ j < k))
    <3>1. Precedes(s, j, k) <=> \/ (a > b \/ (a = b /\ j < k))
                                \/ ~ (b > a \/ (b = a /\ k < j)) /\ j < k
      BY <2>3, <2>4, Zenon DEF Precedes
    <3> QED
      BY <3>1, SMTT(30)
  <2>6. Before(rows, j, k) <=> (a > b \/ (a = b /\ j < k))
    BY <2>1 DEF Before
  <2> QED
    BY <2>5, <2>6, Zenon
<1>7. \A k \in 1..n : {j \in DOMAIN rows : Before(rows, j, k)} = {j \in DOMAIN s : Precedes(s, j, k)}
  BY <1>3, <1>6
<1>8. \A k \in 1..n : Cardinality({j \in DOMAIN s : Precedes(s, j, k)}) \in Nat
  <2> SUFFICES ASSUME NEW k \in 1..n PROVE Cardinality({j \in DOMAIN s : Precedes(s, j, k)}) \in Nat
    OBVIOUS
  <2>1. IsFiniteSet(1..n)
    <3>1. 1 \in Int /\ n \in Int
      OBVIOUS
    <3> QED
      BY <3>1, FS_Interval
  <2>2. PICK T : T = {j \in DOMAIN s : Precedes(s, j, k)}
    OBVIOUS
  <2>3. T \in SUBSET (1..n)
    BY <1>3, <2>2
  <2>4. IsFiniteSet(T)
    BY <2>1, <2>3, FS_Subset
  <2> QED
    BY <2>2, <2>4, FS_CardinalityType
<1>9. ASSUME NEW m \in 1..n PROVE ByPrefix(rows)[m] = rows[p[m]]
  <2> DEFINE Counted(k) == Cardinality({j \in DOMAIN rows : Before(rows, j, k)}) = m - 1
             Placed(k) == Place(s, k) = m
  <2>1. \A k \in 1..n : Counted(k) <=> Placed(k)
    <3> SUFFICES ASSUME NEW k \in 1..n PROVE Counted(k) <=> Placed(k)
      OBVIOUS
    <3>1. PICK c \in Nat : c = Cardinality({j \in DOMAIN s : Precedes(s, j, k)})
      BY <1>8
    <3>2. Placed(k) <=> 1 + c = m
      BY <3>1, Zenon DEF Place
    <3>3. Counted(k) <=> c = m - 1
      BY <1>7, <3>1, Zenon
    <3>4. 1 + c = m <=> c = m - 1
      OBVIOUS
    <3> QED
      BY <3>2, <3>3, <3>4, Zenon
  <2>2. PICK x, y : x = (CHOOSE k \in 1..n : Counted(k)) /\ y = (CHOOSE k \in 1..n : Placed(k))
    OBVIOUS
  <2>3. ByPrefix(rows)[m] = rows[x]
    BY <2>2 DEF ByPrefix
  <2>4. sorted(s)[m] = s[y]
    BY <1>3, <2>2 DEF sorted
  <2>5. x = y
    <3> HIDE DEF Counted, Placed
    <3> QED
      BY <2>1, <2>2
  <2>6. y \in 1..n
    <3>1. \E k \in 1..n : Place(s, k) = m
      BY <1>3, PlacesAreTaken
    <3> QED
      BY <2>2, <3>1
  <2>7. s[y] = s[p[m]]
    BY <1>4, <2>4
  <2>8. y = p[m]
    <3>1. s[y].code = y /\ s[p[m]].code = p[m]
      BY <1>2, <1>5, <2>6
    <3> QED
      BY <2>7, <3>1
  <2> QED
    BY <2>3, <2>5, <2>8
<1>10. ByPrefix(rows) = [m \in 1..n |-> rows[p[m]]]
  <2>1. DOMAIN ByPrefix(rows) = 1..n /\ ByPrefix(rows) = [m \in 1..n |-> ByPrefix(rows)[m]]
    BY DEF ByPrefix
  <2> QED
    BY <1>9, <2>1
<1>11. \A k, m \in 1..n : k < m => rows[p[k]].prefix >= rows[p[m]].prefix
  BY <1>2, <1>4, <1>5
<1> QED
  BY <1>4, <1>10, <1>11

(* The first row that holds an address is the narrowest that does. *)
NarrowestOf(holding) == CHOOSE row \in holding : \A r \in holding : r.prefix <= row.prefix

FirstHit(rows, Hits) ==
  FirstBucket(ByPrefix(rows), {m \in DOMAIN ByPrefix(rows) : ByPrefix(rows)[m] \in Hits})
Numbered(rows, n) == DOMAIN rows = 1..n /\ \A k \in 1..n : rows[k].prefix \in Nat
BucketsAgree(rows, n, Hits) ==
  \A j, k \in 1..n : rows[j] \in Hits /\ rows[k] \in Hits /\ rows[j].prefix = rows[k].prefix
                        => rows[j].bucket = rows[k].bucket
HoldsOnly(rows, n, Hits, holding) ==
  /\ \A row \in holding : \E k \in 1..n :
       rows[k] \in Hits /\ row.prefix = rows[k].prefix /\ row.bucket = rows[k].bucket
  /\ \A k \in 1..n : rows[k] \in Hits => \E row \in holding : row.prefix = rows[k].prefix

LEMMA FirstIsNarrowest ==
  ASSUME NEW rows, NEW n \in Nat, Numbered(rows, n), NEW Hits, NEW holding,
         BucketsAgree(rows, n, Hits), HoldsOnly(rows, n, Hits, holding)
  PROVE  FirstHit(rows, Hits) = IF holding = {} THEN Null ELSE NarrowestOf(holding).bucket
<1> USE DEF FirstHit, Numbered, BucketsAgree, HoldsOnly
<1>1. PICK p \in [1..n -> 1..n] :
        /\ \A k \in 1..n : \E m \in 1..n : p[m] = k
        /\ ByPrefix(rows) = [m \in 1..n |-> rows[p[m]]]
        /\ \A k, m \in 1..n : k < m => rows[p[k]].prefix >= rows[p[m]].prefix
  BY ByPrefixIs
<1>2. \A m \in 1..n : p[m] \in 1..n /\ ByPrefix(rows)[m] = rows[p[m]]
  BY <1>1
<1>3. PICK hits : hits = {m \in DOMAIN ByPrefix(rows) : ByPrefix(rows)[m] \in Hits}
  OBVIOUS
<1>4. hits = {m \in 1..n : rows[p[m]] \in Hits}
  BY <1>1, <1>2, <1>3
<1>5. CASE hits = {}
  <2>1. \A k \in 1..n : rows[k] \notin Hits
    BY <1>1, <1>4, <1>5
  <2>2. holding = {}
    BY <2>1
  <2> QED
    BY <1>3, <1>5, <2>2 DEF FirstBucket
<1>6. CASE hits # {}
  <2>1. PICK f \in hits : f = Min(hits) /\ \A m \in hits : f <= m
    <3>1. hits \in SUBSET Nat
      BY <1>4
    <3>2. \E x \in hits : \A m \in hits : m >= x
      BY <1>6, <3>1, LeastNumber
    <3>3. \E x \in hits : \A m \in hits : x <= m
      BY <3>1, <3>2
    <3> QED
      BY <3>3 DEF Min
  <2>2. f \in 1..n /\ p[f] \in 1..n /\ rows[p[f]] \in Hits
    BY <1>2, <1>4, <2>1
  <2>3. FirstBucket(ByPrefix(rows), hits) = rows[p[f]].bucket
    BY <1>2, <1>6, <2>1, <2>2 DEF FirstBucket
  <2>4. \A k \in 1..n : rows[k] \in Hits => rows[k].prefix <= rows[p[f]].prefix
    <3> SUFFICES ASSUME NEW k \in 1..n, rows[k] \in Hits PROVE rows[k].prefix <= rows[p[f]].prefix
      OBVIOUS
    <3>1. PICK m \in 1..n : p[m] = k
      BY <1>1
    <3>2. f <= m
      BY <1>4, <2>1, <3>1
    <3>3. CASE f = m
      BY <3>1, <3>3
    <3>4. CASE f # m
      <4>1. f < m
        BY <2>2, <3>2, <3>4
      <4>2. rows[p[f]].prefix >= rows[p[m]].prefix
        BY <1>1, <2>2, <4>1
      <4> QED
        BY <2>2, <3>1, <4>2
    <3> QED
      BY <3>3, <3>4
  <2>5. PICK top \in holding : top.prefix = rows[p[f]].prefix
    BY <2>2
  <2>6. \A r \in holding : r.prefix \in Nat /\ r.prefix <= top.prefix
    BY <2>4, <2>5
  <2>7. PICK c \in holding : /\ c = NarrowestOf(holding)
                             /\ \A r \in holding : r.prefix <= c.prefix
    BY <2>6 DEF NarrowestOf
  <2>8. c.prefix = top.prefix
    <3>1. \A x, y \in Nat : x <= y /\ y <= x => x = y
      OBVIOUS
    <3>2. c.prefix \in Nat /\ top.prefix \in Nat /\ top.prefix <= c.prefix /\ c.prefix <= top.prefix
      BY <2>6, <2>7
    <3> QED
      BY <3>1, <3>2, Zenon
  <2>9. PICK k \in 1..n : rows[k] \in Hits /\ c.prefix = rows[k].prefix /\ c.bucket = rows[k].bucket
    OBVIOUS
  <2>10. c.bucket = rows[p[f]].bucket
    <3>1. rows[k].prefix = rows[p[f]].prefix
      BY <2>5, <2>8, <2>9, Zenon
    <3>2. rows[k].bucket = rows[p[f]].bucket
      BY <2>2, <2>9, <3>1, Zenon
    <3> QED
      BY <2>9, <3>2, Zenon
  <2>11. holding # {}
    OBVIOUS
  <2> QED
    BY <1>3, <2>3, <2>7, <2>10, <2>11
<1> QED
  BY <1>5, <1>6

(***************************************************************************)
(* The bits of an address.  Two numbers have the same first bits exactly   *)
(* when they have the same quotient, so that a row holds an address by     *)
(* arithmetic when it does by bits; and the first row in the sorted table  *)
(* that holds it is the narrowest.                                         *)
(***************************************************************************)
LEMMA PowerSplits ==
  ASSUME NEW b \in Nat, NEW m \in Nat, NEW n \in Nat
  PROVE  Power(b, m + n) = Power(b, m) * Power(b, n)
<1> DEFINE bad == {k \in Nat : Power(b, m + k) # Power(b, m) * Power(b, k)}
<1>1. bad = {}
  <2> SUFFICES ASSUME bad # {} PROVE FALSE
    OBVIOUS
  <2>1. PICK k \in bad : \A j \in bad : j >= k
    <3>1. bad \in SUBSET Nat
      OBVIOUS
    <3> HIDE DEF bad
    <3> QED
      BY <3>1, LeastNumber
  <2>2. k \in Nat /\ Power(b, m + k) # Power(b, m) * Power(b, k)
    OBVIOUS
  <2>3. CASE k = 0
    <3>1. m + 0 = m /\ Power(b, m) \in Nat /\ Power(b, 0) = 1
      BY PowerIs
    <3> QED
      BY <2>2, <2>3, <3>1
  <2>4. CASE k # 0
    <3>1. PICK j \in Nat : j + 1 = k /\ m + k = (m + j) + 1 /\ m + j \in Nat
      <4>1. k - 1 \in Nat /\ (k - 1) + 1 = k /\ m + k = (m + (k - 1)) + 1 /\ m + (k - 1) \in Nat
        BY <2>2, <2>4
      <4> QED
        BY <4>1
    <3>2. j \notin bad
      BY <2>1, <3>1
    <3>3. Power(b, m + j) = Power(b, m) * Power(b, j)
      BY <3>1, <3>2
    <3>4. PICK x, y \in Nat : x = Power(b, m) /\ y = Power(b, j)
      BY PowerIs
    <3>5. Power(b, m + k) = (x * y) * b
      <4>1. Power(b, (m + j) + 1) = Power(b, m + j) * b
        BY <3>1, PowerIs
      <4> QED
        BY <3>1, <3>3, <3>4, <4>1, Zenon
    <3>6. Power(b, k) = y * b
      BY <3>1, <3>4, PowerIs
    <3>7. (x * y) * b = x * (y * b)
      OBVIOUS
    <3> QED
      BY <2>2, <3>4, <3>5, <3>6, <3>7, Zenon
  <2> QED
    BY <2>3, <2>4
<1> QED
  BY <1>1

LEMMA PowerPositive ==
  ASSUME NEW b \in Nat \ {0}, NEW n \in Nat
  PROVE  Power(b, n) \in Nat \ {0}
<1> DEFINE bad == {k \in Nat : Power(b, k) = 0}
<1>1. bad = {}
  <2> SUFFICES ASSUME bad # {} PROVE FALSE
    OBVIOUS
  <2>1. PICK k \in bad : \A j \in bad : j >= k
    <3>1. bad \in SUBSET Nat
      OBVIOUS
    <3> HIDE DEF bad
    <3> QED
      BY <3>1, LeastNumber
  <2>2. k # 0
    BY PowerIs
  <2>3. PICK j \in Nat : j + 1 = k
    <3>1. k - 1 \in Nat /\ (k - 1) + 1 = k
      BY <2>2
    <3> QED
      BY <3>1
  <2>4. j \notin bad
    BY <2>1, <2>3
  <2>5. PICK y \in Nat : y = Power(b, j) /\ y # 0 /\ Power(b, k) = y * b
    BY <2>3, <2>4, PowerIs
  <2>6. y * b # 0
    BY <2>5
  <2> QED
    BY <2>5, <2>6
<1> QED
  BY <1>1, PowerIs

(* The bits of a number, to the left. *)
BitAt(x, width, k) == (x \div Power(2, width - k)) % 2
SameBits(x, y, width, p) == \A k \in 1..p : BitAt(x, width, k) = BitAt(y, width, k)

LEMMA HalvesAgree ==
  ASSUME NEW x \in Nat, NEW y \in Nat
  PROVE  x = y <=> x \div 2 = y \div 2 /\ x % 2 = y % 2
OBVIOUS

LEMMA PrefixBits ==
  ASSUME NEW width \in Nat, NEW x \in Nat, NEW y \in Nat, x < Power(2, width), y < Power(2, width),
         NEW p \in 0..width
  PROVE  SameBits(x, y, width, p) <=> x \div Power(2, width - p) = y \div Power(2, width - p)
<1> DEFINE Right(q) == SameBits(x, y, width, q)
                         <=> x \div Power(2, width - q) = y \div Power(2, width - q)
           bad == {q \in 0..width : ~ Right(q)}
<1>1. bad = {}
  <2> SUFFICES ASSUME bad # {} PROVE FALSE
    OBVIOUS
  <2>1. PICK q \in bad : \A j \in bad : j >= q
    <3>1. bad \in SUBSET Nat
      OBVIOUS
    <3> HIDE DEF bad
    <3> QED
      BY <3>1, LeastNumber
  <2>2. q \in 0..width /\ ~ Right(q)
    BY <2>1
  <2>3. CASE q = 0
    <3>1. PICK h \in Nat \ {0} : h = Power(2, width) /\ x < h /\ y < h
      BY PowerPositive
    <3>2. x \div h = 0 /\ y \div h = 0
      <4>1. ASSUME NEW z \in Nat, z < h PROVE z \div h = 0
        <5>1. 0 * h + z = z /\ 0 \in Nat /\ z \in 0..(h - 1)
          BY <4>1
        <5>2. (0 * h + z) \div h = 0
          BY <5>1, QuotientIs
        <5> QED
          BY <5>1, <5>2, Zenon
      <4> QED
        BY <3>1, <4>1
    <3>3. SameBits(x, y, width, 0)
      BY DEF SameBits
    <3>4. width - q = width
      BY <2>3
    <3> QED
      BY <2>2, <2>3, <3>1, <3>2, <3>3, <3>4
  <2>4. CASE q # 0
    <3>1. PICK j \in 0..width : j + 1 = q
      <4>1. q - 1 \in 0..width /\ (q - 1) + 1 = q
        BY <2>2, <2>4
      <4> QED
        BY <4>1
    <3>2. Right(j)
      BY <2>1, <3>1
    <3>3. PICK r \in Nat : r = width - q /\ r + 1 = width - j
      BY <2>2, <3>1
    <3>4. PICK h \in Nat \ {0} : h = Power(2, r) /\ Power(2, r + 1) = h * 2
      <4>1. 2 \in Nat \ {0} /\ 2 \in Nat
        OBVIOUS
      <4>2. Power(2, r) \in Nat \ {0}
        BY <4>1, PowerPositive
      <4>3. Power(2, r + 1) = Power(2, r) * 2
        BY <4>1, PowerIs
      <4> QED
        BY <4>2, <4>3
    <3>5. PICK u, v \in Nat : u = x \div h /\ v = y \div h
      BY Divided
    <3>6. x \div (h * 2) = u \div 2 /\ y \div (h * 2) = v \div 2
      <4>1. \A z \in Nat : z \div (h * 2) = (z \div h) \div 2
        BY DividedTwice
      <4> QED
        BY <3>5, <4>1, Zenon
    <3>7. SameBits(x, y, width, j) <=> u \div 2 = v \div 2
      BY <3>2, <3>3, <3>4, <3>6
    <3>8. BitAt(x, width, q) = u % 2 /\ BitAt(y, width, q) = v % 2
      BY <3>3, <3>4, <3>5 DEF BitAt
    <3>9. SameBits(x, y, width, q)
            <=> SameBits(x, y, width, j) /\ BitAt(x, width, q) = BitAt(y, width, q)
      BY <3>1 DEF SameBits
    <3>10. u = v <=> u \div 2 = v \div 2 /\ u % 2 = v % 2
      BY HalvesAgree
    <3>11. SameBits(x, y, width, q) <=> u = v
      BY <3>7, <3>8, <3>9, <3>10, Zenon
    <3>12. x \div Power(2, width - q) = u /\ y \div Power(2, width - q) = v
      BY <3>3, <3>4, <3>5
    <3> QED
      BY <2>2, <3>11, <3>12
  <2> QED
    BY <2>3, <2>4
<1> QED
  BY <1>1

LEMMA WidthsAre ==
  /\ HextetBits \in 1..20 /\ Power(2, HextetBits) = Hextet
  /\ Ipv4Bits \in Nat /\ Power(2, Ipv4Bits) = Power(Byte, 4)
<1>1. HextetBits \in 1..20 /\ Power(2, HextetBits) = Hextet
  BY LiteralAssumption DEF HextetBits
<1>2. Ipv4Bits \in Nat /\ Ipv4Bits = HextetBits + HextetBits
  BY <1>1 DEF Ipv4Bits
<1>3. Power(2, HextetBits + HextetBits) = Power(2, HextetBits) * Power(2, HextetBits)
  <2>1. 2 \in Nat /\ HextetBits \in Nat
    BY <1>1
  <2> QED
    BY <2>1, PowerSplits
<1> QED
  BY <1>1, <1>2, <1>3, HextetIs, Zenon

LEMMA SameStart ==
  ASSUME NEW S, NEW s \in Seq(S), NEW t \in Seq(S), NEW p \in Nat, p <= Len(s), p <= Len(t)
  PROVE  SubSeq(s, 1, p) = SubSeq(t, 1, p) <=> \A k \in 1..p : s[k] = t[k]
<1>1. PICK a : a = SubSeq(s, 1, p)
  OBVIOUS
<1>2. PICK b : b = SubSeq(t, 1, p)
  OBVIOUS
<1>3. a \in Seq(S) /\ Len(a) = p /\ \A k \in 1..p : a[k] = s[k]
  BY <1>1
<1>4. b \in Seq(S) /\ Len(b) = p /\ \A k \in 1..p : b[k] = t[k]
  BY <1>2
<1>5. ASSUME \A k \in 1..p : s[k] = t[k] PROVE a = b
  <2>1. \A k \in 1..Len(a) : a[k] = b[k]
    BY <1>3, <1>4, <1>5
  <2> QED
    BY <1>3, <1>4, <2>1, SeqEqual
<1>6. ASSUME a = b PROVE \A k \in 1..p : s[k] = t[k]
  BY <1>3, <1>4, <1>6
<1> QED
  BY <1>1, <1>2, <1>5, <1>6

LEMMA BitsAre ==
  ASSUME NEW x \in Nat, NEW width \in Nat
  PROVE  /\ BitsOf(x, width) \in Seq(0..1) /\ Len(BitsOf(x, width)) = width
         /\ \A k \in 1..width : BitsOf(x, width)[k] = BitAt(x, width, k)
<1>1. ASSUME NEW k \in 1..width PROVE BitAt(x, width, k) \in 0..1
  <2>1. PICK r \in Nat : r = width - k
    OBVIOUS
  <2>2. PICK h \in Nat \ {0} : h = Power(2, r)
    <3>1. 2 \in Nat \ {0}
      OBVIOUS
    <3> QED
      BY <3>1, PowerPositive
  <2>3. PICK q \in Nat : q = x \div h
    BY Divided
  <2>4. q % 2 \in 0..1
    OBVIOUS
  <2> QED
    BY <2>1, <2>2, <2>3, <2>4 DEF BitAt
<1>2. BitsOf(x, width) = [k \in 1..width |-> BitAt(x, width, k)]
  BY DEF BitsOf, BitAt
<1>3. BitsOf(x, width) \in [1..width -> 0..1]
  BY <1>1, <1>2
<1> QED
  BY <1>2, <1>3, ListIs

LEMMA SamePrefix ==
  ASSUME NEW width \in Nat, NEW x \in Nat, NEW y \in Nat, x < Power(2, width), y < Power(2, width),
         NEW p \in 0..width
  PROVE  SubSeq(BitsOf(x, width), 1, p) = SubSeq(BitsOf(y, width), 1, p)
           <=> x \div Power(2, width - p) = y \div Power(2, width - p)
<1>1. PICK a \in Seq(0..1) : /\ a = BitsOf(x, width) /\ Len(a) = width
                             /\ \A k \in 1..width : a[k] = BitAt(x, width, k)
  BY BitsAre
<1>2. PICK b \in Seq(0..1) : /\ b = BitsOf(y, width) /\ Len(b) = width
                             /\ \A k \in 1..width : b[k] = BitAt(y, width, k)
  BY BitsAre
<1>3. SubSeq(a, 1, p) = SubSeq(b, 1, p) <=> \A k \in 1..p : a[k] = b[k]
  <2>1. p \in Nat /\ p <= width
    OBVIOUS
  <2>2. p <= Len(a) /\ p <= Len(b)
    BY <1>1, <1>2, <2>1
  <2> QED
    BY <2>1, <2>2, SameStart
<1>4. (\A k \in 1..p : a[k] = b[k]) <=> SameBits(x, y, width, p)
  BY <1>1, <1>2 DEF SameBits
<1> QED
  BY <1>1, <1>2, <1>3, <1>4, PrefixBits

LEMMA HeldByBits4 ==
  ASSUME NEW addr \in Nat, addr < Power(Byte, 4), NEW row \in Ipv4Row
  PROVE  InIpv4Row(addr, row)
           <=> SubSeq(BitsOf(addr, Ipv4Bits), 1, row.prefix)
                 = SubSeq(BitsOf(row.base, Ipv4Bits), 1, row.prefix)
<1>1. row.prefix \in 0..Ipv4Bits
  BY DEF Ipv4Row
<1>2. row.base \in Nat /\ row.base < Power(Byte, 4)
  BY FourPowers, HextetIs DEF Ipv4Row
<1>3. Ipv4Bits \in Nat /\ Power(2, Ipv4Bits) = Power(Byte, 4)
  BY WidthsAre
<1> QED
  BY <1>1, <1>2, <1>3, SamePrefix DEF InIpv4Row

(* Places of bits: within whole groups, or within the one after them. *)
HasPlace(b, w, rest, k) ==
  \E n \in 1..(w + 1), j \in 1..b :
    k = (n - 1) * b + j /\ (n \in 1..w \/ (n = w + 1 /\ j \in 1..rest))
LEMMA PlaceInGroup ==
  ASSUME NEW b \in Nat \ {0}, NEW w \in Nat, NEW rest \in 0..(b - 1), NEW p, p = w * b + rest
  PROVE  /\ \A n \in 1..w, j \in 1..b : (n - 1) * b + j \in 1..p
         /\ \A j \in 1..rest : ((w + 1) - 1) * b + j \in 1..p
         /\ \A k \in 1..p : HasPlace(b, w, rest, k)
<1>1. ASSUME NEW n \in 1..w, NEW j \in 1..b PROVE (n - 1) * b + j \in 1..p
  <2>1. PICK m \in Nat, d \in Nat : m = n - 1 /\ w = m + 1 + d
    <3>1. n - 1 \in Nat /\ w - n \in Nat /\ w = (n - 1) + 1 + (w - n)
      OBVIOUS
    <3> QED
      BY <3>1
  <2>2. w * b = m * b + b + d * b
    BY <2>1
  <2>3. d * b \in Nat /\ m * b \in Nat
    OBVIOUS
  <2>4. PICK x, y \in Nat : x = m * b /\ y = d * b
    BY <2>3
  <2>5. p = x + b + y + rest /\ (n - 1) * b + j = x + j
    BY <2>1, <2>2, <2>4
  <2> QED
    BY <2>4, <2>5
<1>2. ASSUME NEW j \in 1..rest PROVE ((w + 1) - 1) * b + j \in 1..p
  <2>1. PICK x \in Nat : x = w * b
    OBVIOUS
  <2>2. (w + 1) - 1 = w
    OBVIOUS
  <2> QED
    BY <2>1, <2>2
<1>3. ASSUME NEW k \in 1..p
      PROVE  \E n \in 1..(w + 1), j \in 1..b :
               k = (n - 1) * b + j /\ (n \in 1..w \/ (n = w + 1 /\ j \in 1..rest))
  <2>0. p \in Nat
    OBVIOUS
  <2>1. PICK x \in Nat : x = k - 1
    BY <2>0
  <2>2. PICK q \in Nat, r \in 0..(b - 1) : x = q * b + r
    BY Divided
  <2>3. PICK j \in 1..b, n \in Nat : j = r + 1 /\ n = q + 1
    OBVIOUS
  <2>4. n - 1 = q /\ k = (n - 1) * b + j
    BY <2>0, <2>1, <2>2, <2>3
  <2>5. CASE q < w
    <3>1. n \in 1..w /\ n \in 1..(w + 1)
      BY <2>3, <2>5
    <3> QED
      BY <2>4, <3>1
  <2>6. CASE q = w
    <3>1. n = w + 1 /\ n \in 1..(w + 1)
      BY <2>3, <2>6
    <3>2. PICK y \in Nat : y = w * b
      OBVIOUS
    <3>3. k = y + j /\ k <= y + rest
      BY <2>0, <2>4, <2>6, <3>2
    <3>4. j \in 1..rest
      BY <3>2, <3>3
    <3> QED
      BY <2>4, <3>1, <3>4
  <2>7. CASE q > w
    <3>1. PICK d \in Nat : q = w + 1 + d
      <4>1. q - w - 1 \in Nat /\ q = w + 1 + (q - w - 1)
        BY <2>7
      <4> QED
        BY <4>1
    <3>2. q * b = w * b + b + d * b
      BY <3>1
    <3>3. PICK y, z \in Nat : y = w * b /\ z = d * b
      OBVIOUS
    <3>4. k = y + b + z + j /\ k <= y + rest
      BY <2>0, <2>4, <3>2, <3>3
    <3> QED
      BY <3>3, <3>4
  <2> QED
    BY <2>5, <2>6, <2>7
<1>4. \A k \in 1..p : HasPlace(b, w, rest, k)
  BY <1>3 DEF HasPlace
<1> QED
  BY <1>1, <1>2, <1>4

LEMMA GroupBitsAre ==
  ASSUME NEW g \in Seq(Group)
  PROVE  /\ GroupBits(g) \in Seq(0..1) /\ Len(GroupBits(g)) = Len(g) * HextetBits
         /\ \A n \in 1..Len(g), j \in 1..HextetBits :
              GroupBits(g)[(n - 1) * HextetBits + j] = BitAt(g[n], HextetBits, j)
<1>1. PICK b \in Nat : b = HextetBits
  BY WidthsAre
<1>2. PICK n \in Nat : n = Len(g) /\ DOMAIN g = 1..n
  OBVIOUS
<1>3. PICK ss : ss = [k \in 1..n |-> BitsOf(g[k], b)]
  OBVIOUS
<1>4. \A k \in 1..n : g[k] \in Nat
  <2>1. \A k \in 1..n : g[k] \in Group
    BY <1>2, ElementOfSeq
  <2> QED
    BY <2>1, HextetIs
<1>5. ss \in [1..n -> Seq(0..1)] /\ \A k \in 1..n : ss[k] = BitsOf(g[k], b) /\ Len(ss[k]) = b
  BY <1>3, <1>4, BitsAre
<1>6. GroupBits(g) = FlattenSeq(ss)
  BY <1>1, <1>2, <1>3 DEF GroupBits
<1>7. Evenly(0..1, n, b, ss, GroupBits(g))
  BY <1>5, <1>6, FlattenEven
<1>8. ASSUME NEW k \in 1..n, NEW j \in 1..b
      PROVE  GroupBits(g)[(k - 1) * b + j] = BitAt(g[k], b, j)
  <2>1. GroupBits(g)[(k - 1) * b + j] = ss[k][j]
    BY <1>7 DEF Evenly
  <2>2. PICK x \in Nat : x = g[k]
    BY <1>4
  <2>3. BitsOf(x, b)[j] = BitAt(x, b, j)
    BY BitsAre
  <2> QED
    BY <1>5, <2>1, <2>2, <2>3
<1>9. GroupBits(g) \in Seq(0..1) /\ Len(GroupBits(g)) = n * b
  BY <1>7 DEF Evenly
<1> QED
  BY <1>1, <1>2, <1>8, <1>9, Zenon

AgreeIn(g, h, w) == \A n \in 1..w : g[n] = h[n]

LEMMA SameGroupStart ==
  ASSUME NEW g \in Seq(Group), NEW h \in Seq(Group), Len(g) = Groups, Len(h) = Groups,
         NEW p \in 0..(Groups * HextetBits), NEW w \in Nat, NEW rest \in 0..(HextetBits - 1),
         p = w * HextetBits + rest
  PROVE  SubSeq(GroupBits(g), 1, p) = SubSeq(GroupBits(h), 1, p)
           <=> /\ AgreeIn(g, h, w)
               /\ rest # 0 => SameBits(g[w + 1], h[w + 1], HextetBits, rest)
<1>1. PICK b \in Nat \ {0} : b = HextetBits /\ Power(2, b) = Hextet
  <2>1. HextetBits \in Nat \ {0}
    BY WidthsAre
  <2> QED
    BY <2>1, WidthsAre
<1>2. PICK size \in Nat : size = Groups
  BY HextetIs
<1>3. PICK gb \in Seq(0..1) : /\ gb = GroupBits(g) /\ Len(gb) = size * b
                              /\ \A n \in 1..size, j \in 1..b : gb[(n - 1) * b + j] = BitAt(g[n], b, j)
  <2>1. PICK gb : gb = GroupBits(g)
    OBVIOUS
  <2>2. /\ gb \in Seq(0..1) /\ Len(gb) = Len(g) * HextetBits
        /\ \A n \in 1..Len(g), j \in 1..HextetBits :
             gb[(n - 1) * HextetBits + j] = BitAt(g[n], HextetBits, j)
    BY <2>1, GroupBitsAre, Zenon
  <2>3. Len(g) = size /\ HextetBits = b
    BY <1>1, <1>2
  <2> QED
    BY <2>1, <2>2, <2>3, Zenon
<1>4. PICK hb \in Seq(0..1) : /\ hb = GroupBits(h) /\ Len(hb) = size * b
                              /\ \A n \in 1..size, j \in 1..b : hb[(n - 1) * b + j] = BitAt(h[n], b, j)
  <2>1. PICK hb : hb = GroupBits(h)
    OBVIOUS
  <2>2. /\ hb \in Seq(0..1) /\ Len(hb) = Len(h) * HextetBits
        /\ \A n \in 1..Len(h), j \in 1..HextetBits :
             hb[(n - 1) * HextetBits + j] = BitAt(h[n], HextetBits, j)
    BY <2>1, GroupBitsAre, Zenon
  <2>3. Len(h) = size /\ HextetBits = b
    BY <1>1, <1>2
  <2> QED
    BY <2>1, <2>2, <2>3, Zenon
<1>5. p \in Nat /\ p <= size * b /\ rest \in 0..(b - 1) /\ p = w * b + rest
  <2>1. size * b \in Nat /\ p \in 0..(size * b) /\ rest \in 0..(b - 1) /\ p = w * b + rest
    BY <1>1, <1>2
  <2>2. PICK y \in Nat : y = size * b
    BY <2>1
  <2> QED
    BY <2>1, <2>2
<1>6. SubSeq(gb, 1, p) = SubSeq(hb, 1, p) <=> \A k \in 1..p : gb[k] = hb[k]
  BY <1>3, <1>4, <1>5, SameStart
<1>7. w <= size /\ (rest # 0 => w + 1 <= size)
  <2>1. ASSUME w > size PROVE FALSE
    <3>1. PICK d \in Nat : w = size + 1 + d
      <4>1. w - size - 1 \in Nat /\ w = size + 1 + (w - size - 1)
        BY <2>1
      <4> QED
        BY <4>1
    <3>2. w * b = size * b + b + d * b
      BY <3>1
    <3>3. PICK x, y, z \in Nat : x = size * b /\ y = d * b /\ z = w * b
      OBVIOUS
    <3>4. p <= x /\ p = z + rest /\ z = x + b + y
      BY <1>5, <3>2, <3>3, Zenon
    <3> QED
      BY <1>5, <3>4
  <2>2. ASSUME w = size, rest # 0 PROVE FALSE
    <3>1. PICK x \in Nat : x = size * b
      OBVIOUS
    <3> QED
      BY <1>5, <2>2, <3>1
  <2> QED
    BY <2>1, <2>2
<1>8. ASSUME NEW n \in 1..size PROVE g[n] \in Nat /\ g[n] < Hextet /\ h[n] \in Nat /\ h[n] < Hextet
  <2>1. g[n] \in Group /\ h[n] \in Group
    BY <1>2, ElementOfSeq
  <2>2. PICK x, y \in Nat : x = g[n] /\ y = h[n]
    BY <2>1, HextetIs, Zenon
  <2>3. \A m \in Group : m < Hextet
    BY HextetIs DEF Group
  <2> QED
    BY <2>1, <2>2, <2>3, Zenon
<1>9. ASSUME NEW n \in 1..size
      PROVE  g[n] = h[n] <=> \A j \in 1..b : BitAt(g[n], b, j) = BitAt(h[n], b, j)
  <2>1. PICK x, y \in Nat : x = g[n] /\ y = h[n] /\ x < Power(2, b) /\ y < Power(2, b)
    BY <1>1, <1>8
  <2>2. SameBits(x, y, b, b) <=> x \div Power(2, b - b) = y \div Power(2, b - b)
    <3>1. b \in 0..b
      OBVIOUS
    <3>2. b \in Nat /\ x \in Nat /\ y \in Nat
      BY <1>1
    <3>3. x < Power(2, b) /\ y < Power(2, b)
      BY <2>1, Zenon
    <3> QED
      BY ONLY <3>1, <3>2, <3>3, PrefixBits
  <2>3. Power(2, b - b) = 1
    <3>1. b - b = 0
      OBVIOUS
    <3>2. Power(2, 0) = 1
      BY PowerIs
    <3> QED
      BY <3>1, <3>2
  <2>4. x \div 1 = x /\ y \div 1 = y
    OBVIOUS
  <2> QED
    BY <2>1, <2>2, <2>3, <2>4 DEF SameBits
<1>10. ASSUME \A k \in 1..p : gb[k] = hb[k]
       PROVE  /\ \A n \in 1..w : g[n] = h[n]
              /\ rest # 0 => SameBits(g[w + 1], h[w + 1], b, rest)
  <2>1. ASSUME NEW n \in 1..w PROVE g[n] = h[n]
    <3>1. n \in 1..size
      BY <1>7
    <3>2. ASSUME NEW j \in 1..b PROVE BitAt(g[n], b, j) = BitAt(h[n], b, j)
      <4>1. PICK k \in 1..p : k = (n - 1) * b + j
        BY <1>5, PlaceInGroup
      <4> QED
        BY <1>3, <1>4, <1>10, <3>1, <4>1
    <3> QED
      BY <1>9, <3>1, <3>2
  <2>2. ASSUME rest # 0 PROVE SameBits(g[w + 1], h[w + 1], b, rest)
    <3>1. PICK n \in 1..size : n = w + 1
      <4>1. w + 1 \in 1..size
        BY <1>7, <2>2
      <4> QED
        BY <4>1
    <3>2. ASSUME NEW j \in 1..rest PROVE BitAt(g[n], b, j) = BitAt(h[n], b, j)
      <4>1. PICK k \in 1..p : k = ((w + 1) - 1) * b + j
        BY <1>5, PlaceInGroup
      <4>2. j \in 1..b
        BY <1>5
      <4>3. k = (n - 1) * b + j
        BY <3>1, <4>1, Zenon
      <4> QED
        BY <1>3, <1>4, <1>10, <4>2, <4>3
    <3> QED
      BY <3>1, <3>2 DEF SameBits
  <2> QED
    BY <2>1, <2>2
<1>11. ASSUME \A n \in 1..w : g[n] = h[n],
              rest # 0 => SameBits(g[w + 1], h[w + 1], b, rest),
              NEW k \in 1..p
       PROVE  gb[k] = hb[k]
  <2>1. PICK n \in 1..(w + 1), j \in 1..b :
          k = (n - 1) * b + j /\ (n \in 1..w \/ (n = w + 1 /\ j \in 1..rest))
    <3>1. HasPlace(b, w, rest, k)
      BY <1>5, PlaceInGroup
    <3> QED
      BY <3>1 DEF HasPlace
  <2>2. CASE n \in 1..w
    <3>1. n \in 1..size
      BY <1>7, <2>2
    <3>2. g[n] = h[n]
      BY <1>11, <2>2
    <3> QED
      BY <1>3, <1>4, <2>1, <3>1, <3>2
  <2>3. CASE n = w + 1 /\ j \in 1..rest
    <3>1. rest # 0
      BY <1>5, <2>3
    <3>2. n \in 1..size
      BY <1>7, <2>3, <3>1
    <3>3. BitAt(g[n], b, j) = BitAt(h[n], b, j)
      BY <1>11, <2>3, <3>1 DEF SameBits
    <3> QED
      BY <1>3, <1>4, <2>1, <3>2, <3>3
  <2> QED
    BY <2>1, <2>2, <2>3
<1>12. (\A k \in 1..p : gb[k] = hb[k])
         <=> /\ AgreeIn(g, h, w)
             /\ rest # 0 => SameBits(g[w + 1], h[w + 1], b, rest)
  BY <1>10, <1>11 DEF AgreeIn
<1> QED
  BY <1>1, <1>3, <1>4, <1>6, <1>12, Zenon

LEMMA ClearedIs ==
  ASSUME NEW h \in Nat \ {0}, NEW x \in Nat, NEW y \in Nat, y % h = 0
  PROVE  h * (x \div h) = y <=> x \div h = y \div h
<1>1. PICK a \in Nat : a = x \div h
  BY Divided
<1>2. PICK q \in Nat : q = y \div h /\ y = q * h
  <2>1. PICK q \in Nat, r \in 0..(h - 1) : q = y \div h /\ r = y % h /\ y = q * h + r
    BY Divided
  <2>2. y = q * h
    BY <2>1
  <2> QED
    BY <2>1, <2>2
<1>3. \A z \in Nat : (z * h) \div h = z
  <2> SUFFICES ASSUME NEW z \in Nat PROVE (z * h) \div h = z
    OBVIOUS
  <2>1. 0 \in 0..(h - 1) /\ z * h + 0 = z * h
    OBVIOUS
  <2>2. (z * h + 0) \div h = z
    BY <2>1, QuotientIs
  <2> QED
    BY <2>1, <2>2
<1>4. h * a = a * h
  OBVIOUS
<1>5. a * h = q * h => a = q
  <2>1. (a * h) \div h = a /\ (q * h) \div h = q
    BY <1>3
  <2> QED
    BY <2>1
<1>6. h * a = y <=> a = q
  BY <1>2, <1>4, <1>5
<1> QED
  BY <1>1, <1>2, <1>6

LEMMA HeldByBits6 ==
  ASSUME NEW g \in Seq(Group), Len(g) = Groups, NEW row \in Ipv6Row, BitsPastPrefixClear(row)
  PROVE  InIpv6Row(g, row)
           <=> SubSeq(GroupBits(g), 1, row.prefix) = SubSeq(GroupBits(row.base), 1, row.prefix)
<1>1. PICK h \in Seq(Group) : h = row.base /\ Len(h) = Groups
  <2>1. row.base \in [1..Groups -> Group]
    BY DEF Ipv6Row, Group
  <2> QED
    BY <2>1, ListIs, HextetIs
<1>2. PICK p \in 0..(Groups * HextetBits) : p = row.prefix
  BY DEF Ipv6Row
<1>3. PICK b \in Nat \ {0} : b = HextetBits /\ Power(2, b) = Hextet
  <2>1. HextetBits \in Nat \ {0}
    BY WidthsAre
  <2> QED
    BY <2>1, WidthsAre
<1>4. PICK w \in Nat, rest \in 0..(b - 1) : w = p \div b /\ rest = p % b /\ p = w * b + rest
  <2>1. p \in Nat
    <3>1. Groups * HextetBits \in Nat
      BY <1>3, HextetIs
    <3> QED
      BY <3>1
  <2> QED
    BY <2>1, Divided
<1>5. SubSeq(GroupBits(g), 1, p) = SubSeq(GroupBits(h), 1, p)
        <=> /\ AgreeIn(g, h, w)
            /\ rest # 0 => SameBits(g[w + 1], h[w + 1], b, rest)
  <2>1. rest \in 0..(HextetBits - 1) /\ p = w * HextetBits + rest
    BY <1>3, <1>4, Zenon
  <2>2. p \in 0..(Groups * HextetBits)
    OBVIOUS
  <2>3. SubSeq(GroupBits(g), 1, p) = SubSeq(GroupBits(h), 1, p)
        <=> /\ AgreeIn(g, h, w)
            /\ rest # 0 => SameBits(g[w + 1], h[w + 1], HextetBits, rest)
    <3>1. h \in Seq(Group) /\ Len(h) = Groups /\ w \in Nat
      BY <1>1, <1>4
    <3> QED
      BY <2>1, <2>2, <3>1, SameGroupStart
  <2> QED
    BY <1>3, <2>3, Zenon
<1>6. PICK host : host = Power(2, b - rest)
  OBVIOUS
<1>7. InIpv6Row(g, row) <=> /\ AgreeIn(g, h, w)
                            /\ rest # 0 => host * (g[w + 1] \div host) = h[w + 1]
  BY <1>1, <1>2, <1>3, <1>4, <1>6 DEF InIpv6Row, AgreeIn
<1>8. rest # 0 => h[w + 1] % host = 0
  BY <1>1, <1>2, <1>3, <1>4, <1>6 DEF BitsPastPrefixClear
<1>9. ASSUME rest # 0
      PROVE  host * (g[w + 1] \div host) = h[w + 1] <=> SameBits(g[w + 1], h[w + 1], b, rest)
  <2>1. w + 1 \in 1..Groups
    <3>1. PICK size \in Nat : size = Groups
      BY HextetIs
    <3>2. PICK x, y \in Nat : x = size * b /\ y = w * b
      OBVIOUS
    <3>3. p <= x /\ p = y + rest
      BY <1>3, <1>4, <3>1, <3>2
    <3>4. ASSUME w >= size PROVE FALSE
      <4>1. PICK d \in Nat : w = size + d
        <5>1. w - size \in Nat /\ w = size + (w - size)
          BY <3>4
        <5> QED
          BY <5>1
      <4>2. w * b = size * b + d * b /\ d * b \in Nat
        BY <4>1
      <4>3. PICK z \in Nat : z = d * b
        BY <4>2
      <4>4. y = x + z
        BY <3>2, <4>2, <4>3, Zenon
      <4> QED
        BY <1>4, <1>9, <3>2, <3>3, <4>3, <4>4
    <3> QED
      BY <3>1, <3>4
  <2>2. g[w + 1] \in Group /\ h[w + 1] \in Group
    BY <1>1, <2>1, ElementOfSeq
  <2>3. PICK x, y \in Nat : /\ x = g[w + 1] /\ y = h[w + 1]
                            /\ x < Power(2, b) /\ y < Power(2, b)
    <3>1. \A z \in Group : z \in Nat /\ z < Hextet
      BY HextetIs DEF Group
    <3> QED
      BY <1>3, <2>2, <3>1
  <2>4. SameBits(x, y, b, rest) <=> x \div host = y \div host
    <3>1. \A q \in 0..b : SameBits(x, y, b, q) <=> x \div Power(2, b - q) = y \div Power(2, b - q)
      BY <2>3, PrefixBits
    <3>2. rest \in 0..b
      BY <1>4
    <3> QED
      BY <1>6, <3>1, <3>2, Zenon
  <2>5. host \in Nat \ {0}
    <3>1. b - rest \in Nat /\ 2 \in Nat \ {0}
      BY <1>4
    <3> QED
      BY <1>6, <3>1, PowerPositive
  <2>6. host * (x \div host) = y <=> x \div host = y \div host
    BY <1>8, <1>9, <2>3, <2>5, ClearedIs
  <2> QED
    BY <2>3, <2>4, <2>6
<1> QED
  BY <1>1, <1>2, <1>5, <1>7, <1>9

(* What a table answers, once holding an address is having its first bits. *)
Lists(rows, n, table) ==
  /\ DOMAIN rows = 1..n
  /\ \A k \in 1..n : rows[k] \in table
  /\ \A r \in table : \E k \in 1..n : rows[k] = r
BitRows(table, f) == {[prefix |-> r.prefix, bucket |-> r.bucket, bits |-> f[r]] : r \in table}
HitsAre(table, f, bits, Hits) ==
  \A r \in table : r \in Hits <=> SubSeq(bits, 1, r.prefix) = SubSeq(f[r], 1, r.prefix)
OneBucket(table, f) ==
  \A r, s \in table : r.prefix = s.prefix /\ SubSeq(f[r], 1, r.prefix) = SubSeq(f[s], 1, s.prefix)
                        => r.bucket = s.bucket

LEMMA TableIsNarrowest ==
  ASSUME NEW rows, NEW n \in Nat, Numbered(rows, n),
         NEW table, Lists(rows, n, table),
         NEW f, NEW bits, NEW Hits, HitsAre(table, f, bits, Hits), OneBucket(table, f),
         NEW special, special = BitRows(table, f)
  PROVE  FirstHit(rows, Hits) = Narrowest(bits, special)
<1> USE DEF HitsAre, OneBucket, Lists, BitRows
<1>1. PICK holding : holding = {row \in special : SubSeq(bits, 1, row.prefix) = SubSeq(row.bits, 1, row.prefix)}
  OBVIOUS
<1>2. \A j, k \in 1..n : rows[j] \in Hits /\ rows[k] \in Hits /\ rows[j].prefix = rows[k].prefix
                           => rows[j].bucket = rows[k].bucket
  <2> SUFFICES ASSUME NEW j \in 1..n, NEW k \in 1..n, rows[j] \in Hits, rows[k] \in Hits,
                      rows[j].prefix = rows[k].prefix
               PROVE  rows[j].bucket = rows[k].bucket
    OBVIOUS
  <2>1. PICK r \in table, s \in table : r = rows[j] /\ s = rows[k] /\ r \in Hits /\ s \in Hits /\ r.prefix = s.prefix
    OBVIOUS
  <2>2. SubSeq(bits, 1, r.prefix) = SubSeq(f[r], 1, r.prefix)
        /\ SubSeq(bits, 1, s.prefix) = SubSeq(f[s], 1, s.prefix)
    BY <2>1, Zenon
  <2>3. SubSeq(f[r], 1, r.prefix) = SubSeq(f[s], 1, s.prefix)
    BY <2>1, <2>2, Zenon
  <2>4. r.bucket = s.bucket
    BY <2>1, <2>3, Zenon
  <2> QED
    BY <2>1, <2>4, Zenon
<1>3. ASSUME NEW row \in holding
      PROVE  \E k \in 1..n : rows[k] \in Hits /\ row.prefix = rows[k].prefix /\ row.bucket = rows[k].bucket
  <2>1. row \in special /\ SubSeq(bits, 1, row.prefix) = SubSeq(row.bits, 1, row.prefix)
    BY <1>1, <1>3, Zenon
  <2>2. PICK r \in table : row = [prefix |-> r.prefix, bucket |-> r.bucket, bits |-> f[r]]
    BY <2>1, Zenon
  <2>3. row.prefix = r.prefix /\ row.bucket = r.bucket /\ row.bits = f[r]
    BY <2>2
  <2>4. r \in Hits
    BY <2>1, <2>3, Zenon
  <2>5. PICK k \in 1..n : rows[k] = r
    OBVIOUS
  <2> QED
    BY <2>3, <2>4, <2>5, Zenon
<1>4. ASSUME NEW k \in 1..n, rows[k] \in Hits
      PROVE  \E row \in holding : row.prefix = rows[k].prefix
  <2>1. PICK r \in table : r = rows[k] /\ r \in Hits
    BY <1>4
  <2>2. SubSeq(bits, 1, r.prefix) = SubSeq(f[r], 1, r.prefix)
    BY <2>1, Zenon
  <2>3. PICK row : row = [prefix |-> r.prefix, bucket |-> r.bucket, bits |-> f[r]]
    OBVIOUS
  <2>4. row \in special /\ row.prefix = r.prefix /\ row.bits = f[r]
    BY <2>3
  <2>5. row \in holding
    BY <1>1, <2>2, <2>4, Zenon
  <2> QED
    BY <2>1, <2>4, <2>5, Zenon
<1>5. FirstHit(rows, Hits) = IF holding = {} THEN Null ELSE NarrowestOf(holding).bucket
  <2>1. BucketsAgree(rows, n, Hits)
    BY <1>2 DEF BucketsAgree
  <2>2. HoldsOnly(rows, n, Hits, holding)
    BY <1>3, <1>4, Zenon DEF HoldsOnly
  <2> QED
    BY <2>1, <2>2, FirstIsNarrowest
<1>6. Narrowest(bits, special)
        = IF holding = {} THEN Null ELSE NarrowestOf(holding).bucket
  BY <1>1 DEF Narrowest, NarrowestOf
<1> QED
  BY <1>5, <1>6, Zenon

(* The rows of a table, and the set of them. *)
LEMMA TableRows ==
  ASSUME NEW S, NEW list \in Seq(S), NEW last \in S, NEW rows, rows = Append(list, last)
  PROVE  Len(list) + 1 \in Nat /\ Lists(rows, Len(list) + 1, Range(list) \cup {last})
<1>1. PICK n \in Nat : n = Len(list) /\ DOMAIN list = 1..n
  OBVIOUS
<1>2. \A k \in 1..n : rows[k] = list[k] /\ list[k] \in S
  BY <1>1, ElementOfSeq
<1>3. rows[n + 1] = last /\ rows \in Seq(S) /\ Len(rows) = n + 1
  BY <1>1
<1>4. DOMAIN rows = 1..(n + 1)
  BY <1>3
<1>5. Range(list) = {list[k] : k \in 1..n}
  BY <1>1 DEF Range
<1>6. ASSUME NEW k \in 1..(n + 1) PROVE rows[k] \in Range(list) \cup {last} /\ rows[k] \in S
  <2>1. k = n + 1 \/ k \in 1..n
    OBVIOUS
  <2> QED
    BY <1>2, <1>3, <1>5, <2>1
<1>7. ASSUME NEW r \in Range(list) \cup {last} PROVE \E k \in 1..(n + 1) : rows[k] = r
  <2>1. CASE r = last
    <3>1. n + 1 \in 1..(n + 1)
      OBVIOUS
    <3> QED
      BY <1>3, <2>1, <3>1
  <2>2. CASE r # last
    <3>1. PICK k \in 1..n : r = list[k]
      BY <1>5, <2>2
    <3>2. k \in 1..(n + 1)
      OBVIOUS
    <3> QED
      BY <1>2, <3>1, <3>2
  <2> QED
    BY <2>1, <2>2
<1>8. Lists(rows, n + 1, Range(list) \cup {last})
  BY <1>4, <1>6, <1>7, Zenon DEF Lists
<1> QED
  BY <1>1, <1>8

(* Every row of the sorted table is a row of the table. *)
LEMMA SortedRows ==
  ASSUME NEW rows, NEW n \in Nat, Numbered(rows, n), NEW table, \A k \in 1..n : rows[k] \in table
  PROVE  \A m \in DOMAIN ByPrefix(rows) : ByPrefix(rows)[m] \in table
<1>1. PICK p \in [1..n -> 1..n] : ByPrefix(rows) = [m \in 1..n |-> rows[p[m]]]
  <2>1. \E p \in [1..n -> 1..n] :
           /\ \A k \in 1..n : \E m \in 1..n : p[m] = k
           /\ ByPrefix(rows) = [m \in 1..n |-> rows[p[m]]]
           /\ \A k, m \in 1..n : k < m => rows[p[k]].prefix >= rows[p[m]].prefix
    BY ByPrefixIs DEF Numbered
  <2> QED
    BY <2>1
<1>2. \A m \in 1..n : p[m] \in 1..n
  BY <1>1
<1> QED
  BY <1>1, <1>2

LEMMA Match4IsNarrowest ==
  ASSUME NEW addr \in Nat, addr < Power(Byte, 4)
  PROVE  matchIpv4Range(addr) = Narrowest(BitsOf(addr, Ipv4Bits), Special4)
<1>1. PICK table : table = Range(IPV4_SPECIAL_RANGES) \cup {MULTICAST_IPV4}
  OBVIOUS
<1>2. PICK rows : rows = Append(IPV4_SPECIAL_RANGES, MULTICAST_IPV4)
  OBVIOUS
<1>3. PICK n \in Nat : Lists(rows, n, table)
  <2>1. IPV4_SPECIAL_RANGES \in Seq(Ipv4Row) /\ MULTICAST_IPV4 \in Ipv4Row
    BY RegistryAssumption
  <2> QED
    BY <1>1, <1>2, <2>1, TableRows
<1>4. \A r \in table : r \in Ipv4Row
  <2>1. \A s \in Seq(Ipv4Row) : \A k \in DOMAIN s : s[k] \in Ipv4Row
    BY ElementOfSeq
  <2> QED
    BY <1>1, <2>1, RegistryAssumption DEF Range
<1>5. Numbered(rows, n)
  <2>1. \A r \in Ipv4Row : r.prefix \in Nat
    BY WidthsAre DEF Ipv4Row
  <2> QED
    BY <1>3, <1>4, <2>1 DEF Numbered, Lists
<1>6. PICK f : f = [r \in table |-> BitsOf(r.base, Ipv4Bits)]
  OBVIOUS
<1>7. PICK Hits : Hits = {r \in table : InIpv4Row(addr, r)}
  OBVIOUS
<1>8. PICK bits : bits = BitsOf(addr, Ipv4Bits)
  OBVIOUS
<1>9. HitsAre(table, f, bits, Hits)
  <2> SUFFICES ASSUME NEW r \in table
               PROVE  r \in Hits <=> SubSeq(bits, 1, r.prefix) = SubSeq(f[r], 1, r.prefix)
    BY DEF HitsAre
  <2>1. r \in Ipv4Row /\ f[r] = BitsOf(r.base, Ipv4Bits)
    BY <1>4, <1>6
  <2>2. InIpv4Row(addr, r) <=> SubSeq(bits, 1, r.prefix) = SubSeq(f[r], 1, r.prefix)
    BY <1>8, <2>1, HeldByBits4
  <2> QED
    BY <1>7, <2>2
<1>10. OneBucket(table, f)
  <2> SUFFICES ASSUME NEW r \in table, NEW s \in table, r.prefix = s.prefix,
                      SubSeq(f[r], 1, r.prefix) = SubSeq(f[s], 1, s.prefix)
               PROVE  r.bucket = s.bucket
    BY DEF OneBucket
  <2>1. r \in Ipv4Row /\ f[r] = BitsOf(r.base, Ipv4Bits) /\ s \in Ipv4Row /\ f[s] = BitsOf(s.base, Ipv4Bits)
    BY <1>4, <1>6
  <2>2. PICK start : start = r.base
    OBVIOUS
  <2>3. start \in Nat /\ start < Power(Byte, 4)
    <3>1. r.base \in 0..(Power(Byte, 4) - 1)
      BY <2>1 DEF Ipv4Row
    <3>2. Power(Byte, 4) \in Nat
      BY PowerIs, ByteIs
    <3> QED
      BY <2>2, <3>1, <3>2
  <2>4. InIpv4Row(start, s) <=> SubSeq(BitsOf(start, Ipv4Bits), 1, s.prefix)
                                 = SubSeq(BitsOf(s.base, Ipv4Bits), 1, s.prefix)
    BY <2>1, <2>3, HeldByBits4
  <2>5. InIpv4Row(r.base, s)
    BY <2>1, <2>2, <2>4, Zenon
  <2> QED
    BY <1>1, <2>5, RegistryAssumption
<1>11. Special4 = BitRows(table, f)
  <2>1. \A r \in table : f[r] = BitsOf(r.base, Ipv4Bits)
    BY <1>6
  <2> QED
    BY <1>1, <2>1 DEF Special4, BitRows
<1>12. FirstHit(rows, Hits) = Narrowest(bits, Special4)
  BY <1>3, <1>5, <1>9, <1>10, <1>11, TableIsNarrowest
<1>13. \A m \in DOMAIN ByPrefix(rows) : ByPrefix(rows)[m] \in table
  BY <1>3, <1>5, SortedRows DEF Lists
<1>14. IPV4_RANGES = ByPrefix(rows)
  BY <1>2 DEF IPV4_RANGES
<1>15. PICK inOrder : inOrder = ByPrefix(rows)
  OBVIOUS
<1>16. {m \in DOMAIN inOrder : inOrder[m] \in Hits} = {m \in DOMAIN inOrder : InIpv4Row(addr, inOrder[m])}
  BY <1>7, <1>13, <1>15
<1> QED
  BY <1>8, <1>12, <1>14, <1>15, <1>16, Zenon DEF matchIpv4Range, FirstHit

LEMMA Match6IsNarrowest ==
  ASSUME NEW g \in Seq(Group), Len(g) = Groups
  PROVE  matchIpv6Range(g) = Narrowest(GroupBits(g), Special6)
<1>1. PICK table : table = Range(IPV6_SPECIAL_RANGES) \cup {MULTICAST_IPV6}
  OBVIOUS
<1>2. PICK rows : rows = Append(IPV6_SPECIAL_RANGES, MULTICAST_IPV6)
  OBVIOUS
<1>3. PICK n \in Nat : Lists(rows, n, table)
  <2>1. IPV6_SPECIAL_RANGES \in Seq(Ipv6Row) /\ MULTICAST_IPV6 \in Ipv6Row
    BY RegistryAssumption
  <2> QED
    BY <1>1, <1>2, <2>1, TableRows
<1>4. \A r \in table : r \in Ipv6Row /\ BitsPastPrefixClear(r)
  <2>1. \A s \in Seq(Ipv6Row) : \A k \in DOMAIN s : s[k] \in Ipv6Row
    BY ElementOfSeq
  <2> QED
    BY <1>1, <2>1, RegistryAssumption DEF Range
<1>5. Numbered(rows, n)
  <2>1. \A r \in Ipv6Row : r.prefix \in Nat
    <3>1. Groups * HextetBits \in Nat
      BY WidthsAre, HextetIs
    <3> QED
      BY <3>1 DEF Ipv6Row
  <2> QED
    BY <1>3, <1>4, <2>1 DEF Numbered, Lists
<1>6. PICK f : f = [r \in table |-> GroupBits(r.base)]
  OBVIOUS
<1>7. PICK Hits : Hits = {r \in table : InIpv6Row(g, r)}
  OBVIOUS
<1>8. PICK bits : bits = GroupBits(g)
  OBVIOUS
<1>9. HitsAre(table, f, bits, Hits)
  <2> SUFFICES ASSUME NEW r \in table
               PROVE  r \in Hits <=> SubSeq(bits, 1, r.prefix) = SubSeq(f[r], 1, r.prefix)
    BY DEF HitsAre
  <2>1. r \in Ipv6Row /\ BitsPastPrefixClear(r) /\ f[r] = GroupBits(r.base)
    BY <1>4, <1>6
  <2>2. InIpv6Row(g, r) <=> SubSeq(bits, 1, r.prefix) = SubSeq(f[r], 1, r.prefix)
    BY <1>8, <2>1, HeldByBits6
  <2> QED
    BY <1>7, <2>2
<1>10. OneBucket(table, f)
  <2> SUFFICES ASSUME NEW r \in table, NEW s \in table, r.prefix = s.prefix,
                      SubSeq(f[r], 1, r.prefix) = SubSeq(f[s], 1, s.prefix)
               PROVE  r.bucket = s.bucket
    BY DEF OneBucket
  <2>1. /\ r \in Ipv6Row /\ f[r] = GroupBits(r.base)
        /\ s \in Ipv6Row /\ BitsPastPrefixClear(s) /\ f[s] = GroupBits(s.base)
    BY <1>4, <1>6
  <2>2. PICK start \in Seq(Group) : start = r.base /\ Len(start) = Groups
    <3>1. r.base \in [1..Groups -> Group]
      BY <2>1 DEF Ipv6Row, Group
    <3> QED
      BY <3>1, ListIs, HextetIs
  <2>3. InIpv6Row(start, s) <=> SubSeq(GroupBits(start), 1, s.prefix) = SubSeq(GroupBits(s.base), 1, s.prefix)
    BY <2>1, <2>2, HeldByBits6
  <2>4. InIpv6Row(r.base, s)
    BY <2>1, <2>2, <2>3, Zenon
  <2> QED
    BY <1>1, <2>4, RegistryAssumption
<1>11. Special6 = BitRows(table, f)
  <2>1. \A r \in table : f[r] = GroupBits(r.base)
    BY <1>6
  <2> QED
    BY <1>1, <2>1 DEF Special6, BitRows
<1>12. FirstHit(rows, Hits) = Narrowest(bits, Special6)
  BY <1>3, <1>5, <1>9, <1>10, <1>11, TableIsNarrowest
<1>13. \A m \in DOMAIN ByPrefix(rows) : ByPrefix(rows)[m] \in table
  BY <1>3, <1>5, SortedRows DEF Lists
<1>14. IPV6_RANGES = ByPrefix(rows)
  BY <1>2 DEF IPV6_RANGES
<1>15. PICK inOrder : inOrder = ByPrefix(rows)
  OBVIOUS
<1>16. {m \in DOMAIN inOrder : inOrder[m] \in Hits} = {m \in DOMAIN inOrder : InIpv6Row(g, inOrder[m])}
  BY <1>7, <1>13, <1>15
<1> QED
  BY <1>8, <1>12, <1>14, <1>15, <1>16, Zenon DEF matchIpv6Range, FirstHit

ValuesOf(pieces) == [n \in DOMAIN pieces |-> pieces[n].value]

LEMMA HexesValues ==
  ASSUME NEW v \in Seq(Group)
  PROVE  ValuesOf(Hexes(v)) = v
<1>1. PICK n \in Nat : n = Len(v) /\ DOMAIN v = 1..n /\ v = [k \in 1..n |-> v[k]]
  OBVIOUS
<1>2. Hexes(v) = [k \in 1..n |-> Hex(v[k])] /\ DOMAIN Hexes(v) = 1..n
  BY <1>1 DEF Hexes
<1>3. \A x : Hex(x).value = x
  BY DEF Hex
<1>4. \A k \in 1..n : Hexes(v)[k].value = v[k]
  BY <1>2, <1>3
<1>5. ValuesOf(Hexes(v)) = [k \in 1..n |-> v[k]]
  BY <1>2, <1>4 DEF ValuesOf
<1> QED
  BY <1>1, <1>5

LEMMA HextetsAreGroups ==
  ASSUME NEW v \in Seq(Group), Len(v) = Groups
  PROVE  hextetsOf(canonicalizeIpv6(v)) = v
<1>1. PICK text : text = canonicalizeIpv6(v) /\ text = Elided(v, << >>)
  BY DEF canonicalizeIpv6
<1>2. PICK fill : fill = Groups - Len(text.left) - Len(text.right)
  OBVIOUS
<1>3. hextetsOf(text) = IF (IF text.double THEN fill < 0 ELSE fill # 0) THEN Null
                        ELSE (ValuesOf(text.left) \o ZeroGroups(fill)) \o ValuesOf(text.right)
  BY <1>2 DEF hextetsOf, ValuesOf, ZeroGroups
<1>4. \A s \in Seq(Ipv6Piece) : s \o << >> = s
  BY ConcatEmptySeq
<1>5. \A s \in Seq(Group) : Hexes(s) \in Seq(Ipv6Piece) /\ Len(Hexes(s)) = Len(s) /\ ValuesOf(Hexes(s)) = s
  <2>1. TailOf(<< >>, << >>)
    BY DEF TailOf
  <2> QED
    BY <2>1, HexesRead, HexesValues
<1>6. CASE Kept(v, << >>, text)
  <2>1. text.left = Hexes(v) /\ text.double = FALSE /\ text.right = << >>
    <3>1. text = [left |-> Hexes(v) \o << >>, double |-> FALSE, right |-> << >>]
      BY <1>6 DEF Kept
    <3>2. Hexes(v) \o << >> = Hexes(v)
      BY <1>4, <1>5
    <3> QED
      BY <3>1, <3>2
  <2>2. fill = 0
    <3>1. Len(text.left) = Groups /\ Len(text.right) = 0
      BY <1>5, <2>1
    <3> QED
      BY <1>2, <3>1, HextetIs
  <2>3. ZeroGroups(0) = << >> /\ ValuesOf(<< >>) = << >>
    BY DEF ZeroGroups, ValuesOf
  <2>4. hextetsOf(text) = (v \o << >>) \o << >>
    BY <1>3, <1>5, <2>1, <2>2, <2>3
  <2>5. v \o << >> = v
    BY ConcatEmptySeq
  <2> QED
    BY <1>1, <2>4, <2>5
<1>7. CASE \E a \in Seq(Group), c \in Seq(Group), m \in Nat : LeavesOut(v, << >>, text, a, m, c)
  <2>1. PICK a \in Seq(Group), c \in Seq(Group), m \in Nat : LeavesOut(v, << >>, text, a, m, c)
    BY <1>7
  <2>2. v = (a \o ZeroGroups(m)) \o c /\ Len(v) = Len(a) + m + Len(c)
    BY <2>1 DEF LeavesOut
  <2>3. text.left = Hexes(a) /\ text.double = TRUE /\ text.right = Hexes(c)
    <3>1. text = [left |-> Hexes(a), double |-> TRUE, right |-> Hexes(c) \o << >>]
      BY <2>1 DEF LeavesOut
    <3>2. Hexes(c) \o << >> = Hexes(c)
      BY <1>4, <1>5, <2>1
    <3> QED
      BY <3>1, <3>2
  <2>4. fill = m
    <3>1. Len(text.left) = Len(a) /\ Len(text.right) = Len(c) /\ Len(a) \in Nat /\ Len(c) \in Nat
      BY <1>5, <2>1, <2>3
    <3> QED
      BY <1>2, <2>1, <2>2, <3>1, HextetIs
  <2>5. hextetsOf(text) = (ValuesOf(text.left) \o ZeroGroups(m)) \o ValuesOf(text.right)
    <3>1. ~ (fill < 0)
      BY <2>1, <2>4
    <3> QED
      BY <1>3, <2>3, <2>4, <3>1
  <2> QED
    BY <1>1, <1>5, <2>1, <2>2, <2>3, <2>5
<1> QED
  BY <1>1, <1>6, <1>7, ElidedIs

(* The address a wrapper carries is the low one, and its prefix is known. *)
LEMMA EmbeddedIs ==
  ASSUME NEW v \in Seq(Group), Len(v) = Groups
  PROVE  /\ unwrapLow32Ipv4(v) \in Int
         /\ unwrapLow32Ipv4(v) # -1 =>
              /\ unwrapLow32Ipv4(v) = low32(v)
              /\ \E w \in Range(LOW32_WRAPPERS) : w.hextets = SubSeq(v, 1, Groups - 2)
<1>1. PICK matching : matching = {n \in DOMAIN LOW32_WRAPPERS :
                                    LOW32_WRAPPERS[n].hextets = SubSeq(v, 1, Groups - 2)}
  OBVIOUS
<1>2. unwrapLow32Ipv4(v) = -1 \/ (matching # {} /\ unwrapLow32Ipv4(v) = low32(v))
  BY <1>1 DEF unwrapLow32Ipv4
<1>3. low32(v) \in Nat
  BY LowGroups
<1>4. matching # {} => \E w \in Range(LOW32_WRAPPERS) : w.hextets = SubSeq(v, 1, Groups - 2)
  BY <1>1 DEF Range
<1> QED
  BY <1>2, <1>3, <1>4

LEMMA Ipv6Is ==
  ASSUME NEW v \in Seq(Group), Len(v) = Groups, NEW text, groupsOf(text) = v
  PROVE  /\ analyzeIpv6(text) # Null
         /\ analyzeIpv6(text).canonical = canonicalizeIpv6(v)
         /\ analyzeIpv6(text).embedded = unwrapLow32Ipv4(v)
<1>1. PICK canonical \in Ipv6Text : canonical = canonicalizeIpv6(v)
  BY CanonicalReads DEF Typed6
<1>2. PICK embedded \in Int : embedded = unwrapLow32Ipv4(v)
  BY EmbeddedIs
<1>3. PICK o \in BOOLEAN : o = (/\ text # canonical
                                /\ \/ embedded = -1
                                   \/ text # mixedCanonicalIpv6(v, embedded))
  OBVIOUS
<1>4. v # Null
  BY HextetIs
<1>5. PICK a : a = analyzeIpv6(text)
  OBVIOUS
<1>6. a = [canonical |-> canonical, embedded |-> embedded, obfuscated |-> o]
  BY <1>1, <1>2, <1>3, <1>4, <1>5, Zenon DEF analyzeIpv6
<1>7. a.canonical = canonical /\ a.embedded = embedded
  BY <1>6
<1>8. a \in [canonical : Ipv6Text, embedded : Int, obfuscated : BOOLEAN]
  BY <1>1, <1>2, <1>3, <1>6
<1>9. a # Null
  BY <1>8, LiteralAssumption
<1> QED
  BY <1>1, <1>2, <1>5, <1>7, <1>9

(* The endpoints are told by their groups. *)
LEMMA MetadataIs ==
  ASSUME NEW v \in Seq(Group), Len(v) = Groups
  PROVE  canonicalizeIpv6(v) \in METADATA_IPV6
           <=> \E e \in CLOUD_METADATA_ENDPOINTS : e.family = 6 /\ groupsOf(e.text) = v
<1>1. ASSUME NEW e \in CLOUD_METADATA_ENDPOINTS, e.family = 6
      PROVE  analyzeIpv6(e.text).canonical = canonicalizeIpv6(v) <=> groupsOf(e.text) = v
  <2>1. Typed6(e.text) /\ groupsOf(e.text) # Null
    BY <1>1, TransportAssumption DEF Typed6
  <2>2. PICK g \in Seq(Group) : g = groupsOf(e.text) /\ Len(g) = Groups
    BY <2>1, GroupsRead
  <2>3. analyzeIpv6(e.text).canonical = canonicalizeIpv6(g)
    BY <2>2, Ipv6Is
  <2>4. groupsOf(canonicalizeIpv6(g)) = g /\ groupsOf(canonicalizeIpv6(v)) = v
    BY <2>2, CanonicalReads
  <2> QED
    BY <2>2, <2>3, <2>4
<1>2. METADATA_IPV6 = {analyzeIpv6(e.text).canonical :
                         e \in {m \in CLOUD_METADATA_ENDPOINTS : m.family = 6}}
  BY DEF METADATA_IPV6
<1> QED
  BY <1>1, <1>2

LEMMA Class6Is ==
  ASSUME NEW v \in Seq(Group), Len(v) = Groups
  PROVE  classifyIpv6(canonicalizeIpv6(v)) = Class6(v)
<1>1. hextetsOf(canonicalizeIpv6(v)) = v
  BY HextetsAreGroups
<1>2. v # Null
  BY HextetIs
<1>3. matchIpv6Range(v) = Narrowest(GroupBits(v), Special6)
  BY Match6IsNarrowest
<1>4. classifyIpv6(canonicalizeIpv6(v))
        = IF canonicalizeIpv6(v) \in METADATA_IPV6 THEN "ip_cloud_metadata"
          ELSE Narrowest(GroupBits(v), Special6)
  BY <1>1, <1>2, <1>3, Zenon DEF classifyIpv6
<1> QED
  BY <1>4, MetadataIs, Zenon DEF Class6

LEMMA Class4Is ==
  ASSUME NEW n \in Nat, n < Power(Byte, 4)
  PROVE  classifyIpv4(n) = Class4(n)
BY Match4IsNarrowest DEF classifyIpv4, Class4

(* Only the groups before the IPv4 address matter to a range of wrappers. *)
LEMMA WrapperIsHeld ==
  ASSUME NEW v \in Seq(Group), Len(v) = Groups, NEW rule,
         rule.prefix \in 0..((Groups - 2) * HextetBits),
         InIpv6Row(SubSeq(v, 1, Groups - 2) \o <<0, 0>>, rule)
  PROVE  InIpv6Row(v, rule)
<1>1. PICK size \in Nat : size = Groups - 2
  BY HextetIs
<1>2. PICK s \in Seq(Group) : /\ s = SubSeq(v, 1, Groups - 2) /\ Len(s) = size
                              /\ \A n \in 1..size : s[n] = v[n]
  <2>1. size <= Len(v) /\ 1 \in Nat \ {0} /\ size - 1 + 1 = size
    BY <1>1, HextetIs
  <2>2. Len(SubSeq(v, 1, size)) = size /\ SubSeq(v, 1, size) \in Seq(Group)
    BY <1>1, LowGroups
  <2>3. \A n \in 1..size : SubSeq(v, 1, size)[n] = v[n]
    BY <2>1
  <2> QED
    BY <1>1, <2>2, <2>3
<1>3. PICK t : t = s \o <<0, 0>>
  OBVIOUS
<1>4. \A n \in 1..size : t[n] = v[n]
  <2>1. <<0, 0>> \in Seq(Group)
    <3>1. 0 \in Group
      BY HextetIs DEF Group
    <3> QED
      BY <3>1
  <2>2. \A n \in 1..Len(s) : t[n] = s[n]
    BY <1>2, <1>3, <2>1
  <2> QED
    BY <1>2, <2>2
<1>5. PICK b \in Nat \ {0} : b = HextetBits
  BY WidthsAre
<1>6. PICK p \in Nat : p = rule.prefix /\ p <= size * b
  <2>1. size * b \in Nat /\ rule.prefix \in 0..(size * b)
    BY <1>1, <1>5
  <2>2. PICK x \in Nat : x = size * b
    BY <2>1
  <2> QED
    BY <2>1, <2>2
<1>7. PICK w \in Nat, rest \in 0..(b - 1) : w = p \div b /\ rest = p % b /\ p = w * b + rest
  BY Divided
<1>8. w <= size /\ (rest # 0 => w + 1 <= size)
  <2>1. PICK x, y \in Nat : x = size * b /\ y = w * b
    OBVIOUS
  <2>2. p <= x /\ p = y + rest
    BY <1>6, <1>7, <2>1
  <2>3. ASSUME w > size PROVE FALSE
    <3>1. PICK d \in Nat : w = size + 1 + d
      <4>1. w - size - 1 \in Nat /\ w = size + 1 + (w - size - 1)
        BY <2>3
      <4> QED
        BY <4>1
    <3>2. w * b = size * b + b + d * b
      BY <3>1
    <3>3. PICK z \in Nat : z = d * b
      OBVIOUS
    <3>4. y = x + b + z
      BY <2>1, <3>2, <3>3, Zenon
    <3> QED
      BY <1>7, <2>1, <2>2, <3>4
  <2>4. ASSUME w = size, rest # 0 PROVE FALSE
    <3>1. x = y
      BY <2>1, <2>4
    <3>2. rest \in Nat /\ rest # 0
      BY <1>7, <2>4
    <3>3. \A i, j, l, r \in Nat : i <= j /\ i = l + r /\ j = l => r = 0
      OBVIOUS
    <3> QED
      BY <2>1, <2>2, <3>1, <3>2, <3>3, Zenon
  <2> QED
    BY <2>3, <2>4
<1>9. \A g : InIpv6Row(g, rule)
        <=> /\ \A n \in 1..w : g[n] = rule.base[n]
            /\ rest # 0 => Power(2, b - rest) * (g[w + 1] \div Power(2, b - rest)) = rule.base[w + 1]
  BY <1>5, <1>6, <1>7 DEF InIpv6Row
<1>10. \A n \in 1..w : t[n] = v[n]
  BY <1>4, <1>8
<1>11. rest # 0 => t[w + 1] = v[w + 1]
  BY <1>4, <1>8
<1>12. InIpv6Row(t, rule)
  BY <1>2, <1>3
<1> QED
  BY <1>9, <1>10, <1>11, <1>12

Ipv4Decided(text, answer, bucket, transport) ==
  LET class == bucket
      allowed == transport.allowed
  IN  /\ class = Class4(Worth(stripTrailingRootDot(text)))
      /\ allowed => class = Null /\ text = Dotted(answer.canonical)

LEMMA Ipv4Decision ==
  ASSUME NEW text \in Seq(Ipv4Part), NEW answer, answer = analyzeIpv4(text), answer # Null,
         NEW bucket, bucket = classifyHost(4, answer),
         NEW transport, transport = classifyTransportAddress(4, text, answer, bucket)
  PROVE  Ipv4Decided(text, answer, bucket, transport)
<1>0. PICK parts \in Seq(Ipv4Part) : parts = stripTrailingRootDot(text) /\ answer = analyzeParts(parts)
  BY RootDotStripped
<1>1. PICK n \in Nat : n = Worth(parts) /\ n < Power(Byte, 4)
  BY <1>0, Ipv4Answers
<1>2. PICK o \in BOOLEAN : o = Unusual(parts)
  BY DEF Unusual
<1>3. answer = [canonical |-> toDotted(n), obfuscated |-> o] /\ (~ o => parts = Dotted(toDotted(n)))
  BY <1>0, <1>1, <1>2, Ipv4Answers
<1>4. answer.canonical = toDotted(n) /\ answer.obfuscated = o
  BY <1>3
<1>5. dottedToInt(answer.canonical) = n
  BY <1>1, <1>4, BytesOf DEF dottedToInt
<1>6. bucket = classifyIpv4(n)
  BY <1>5 DEF classifyHost
<1>7. bucket = Class4(n)
  BY <1>1, <1>6, Class4Is
<1>8. ASSUME transport.allowed PROVE bucket = Null /\ ~ o /\ parts = text
  <2>1. CASE ~ isIP(4, text, answer)
    <3>1. transport = [allowed |-> FALSE, category |-> "invalid"]
      BY <2>1 DEF classifyTransportAddress
    <3> QED
      BY <1>8, <3>1
  <2>2. CASE isIP(4, text, answer) /\ bucket # Null
    <3>1. transport = [allowed |-> FALSE, category |-> bucket]
      BY <2>2 DEF classifyTransportAddress
    <3> QED
      BY <1>8, <3>1
  <2>3. isIP(4, text, answer) => ~ o /\ parts = text
    BY <1>0, <1>4 DEF isIP
  <2> QED
    BY <2>1, <2>2, <2>3
<1> QED
  BY <1>0, <1>1, <1>3, <1>4, <1>7, <1>8 DEF Ipv4Decided

Ipv6Decided(text, answer, bucket, transport) ==
  LET a == answer
      class == bucket
      allowed == transport.allowed
      groups == groupsOf(text)
      hidden == IF a.embedded # -1 THEN Class4(a.embedded) ELSE Null
  IN  /\ class = IF hidden # Null THEN hidden ELSE Class6(groups)
      /\ addressesEqual(6, text, a.canonical)
      /\ allowed => class = Null /\ a.embedded = -1

LEMMA Ipv6Decision ==
  ASSUME NEW text, Typed6(text), NEW answer, answer = analyzeIpv6(text), answer # Null,
         NEW bucket, bucket = classifyHost(6, answer),
         NEW transport, transport = classifyTransportAddress(6, text, answer, bucket)
  PROVE  Ipv6Decided(text, answer, bucket, transport)
<1>1. groupsOf(text) # Null
  BY DEF analyzeIpv6
<1>2. PICK v \in Seq(Group) : v = groupsOf(text) /\ Len(v) = Groups
  BY <1>1, GroupsRead
<1>3. answer.canonical = canonicalizeIpv6(v) /\ answer.embedded = unwrapLow32Ipv4(v)
  BY <1>2, Ipv6Is
<1>4. PICK embedded \in Int : /\ embedded = answer.embedded
                              /\ embedded # -1 => embedded \in Nat /\ embedded < Power(Byte, 4)
  BY <1>2, <1>3, EmbeddedIs, LowGroups
<1>5. PICK hidden : hidden = IF embedded # -1 THEN Class4(embedded) ELSE Null
  OBVIOUS
<1>6. hidden = IF embedded = -1 THEN Null ELSE classifyIpv4(embedded)
  <2>1. embedded # -1 => classifyIpv4(embedded) = Class4(embedded)
    BY <1>4, Class4Is
  <2> QED
    BY <1>5, <2>1
<1>7. classifyIpv6(answer.canonical) = Class6(v)
  BY <1>2, <1>3, Class6Is
<1>8. bucket = IF hidden # Null THEN hidden ELSE Class6(v)
  <2>1. 6 # 4
    OBVIOUS
  <2> QED
    BY <1>4, <1>6, <1>7, <2>1, Zenon DEF classifyHost
<1>9. addressesEqual(6, text, answer.canonical)
  <2>1. groupsOf(answer.canonical) = v
    BY <1>2, <1>3, CanonicalReads
  <2>2. analyzeIpv6(text) # Null /\ analyzeIpv6(answer.canonical) # Null
    BY <1>2, <2>1, Ipv6Is
  <2>3. isIP(6, text, analyzeIpv6(text)) /\ isIP(6, answer.canonical, analyzeIpv6(answer.canonical))
    BY <2>2 DEF isIP
  <2> QED
    BY <1>2, <2>1, <2>3 DEF addressesEqual
<1>10. ASSUME transport.allowed PROVE bucket = Null /\ embedded = -1
  <2>1. PICK blocking : blocking = {n \in DOMAIN SUPPLEMENTAL_RANGES :
                                      Blocks(SUPPLEMENTAL_RANGES[n], 6, text, answer)}
    OBVIOUS
  <2>2. isIP(6, text, answer)
    BY DEF isIP
  <2>3. bucket = Null
    <3>1. ASSUME bucket # Null PROVE FALSE
      <4>1. transport = [allowed |-> FALSE, category |-> bucket]
        BY <2>2, <3>1 DEF classifyTransportAddress
      <4> QED
        BY <1>10, <4>1
    <3> QED
      BY <3>1
  <2>4. blocking = {}
    <3>1. ASSUME blocking # {} PROVE FALSE
      <4>1. PICK category : category = SUPPLEMENTAL_RANGES[Min(blocking)].category
        OBVIOUS
      <4>2. transport = [allowed |-> FALSE, category |-> category]
        BY <2>1, <2>2, <2>3, <3>1, <4>1, Zenon DEF classifyTransportAddress
      <4> QED
        BY <1>10, <4>2
    <3> QED
      BY <3>1
  <2>5. ASSUME embedded # -1 PROVE FALSE
    <3>1. PICK w \in Range(LOW32_WRAPPERS) : w.hextets = SubSeq(v, 1, Groups - 2)
      BY <1>2, <1>3, <1>4, <2>5, EmbeddedIs
    <3>2. PICK n \in DOMAIN SUPPLEMENTAL_RANGES :
            /\ SUPPLEMENTAL_RANGES[n].family = 6
            /\ SUPPLEMENTAL_RANGES[n].prefix \in 0..((Groups - 2) * HextetBits)
            /\ InIpv6Row(w.hextets \o <<0, 0>>, SUPPLEMENTAL_RANGES[n])
      BY TransportAssumption
    <3>3. InIpv6Row(v, SUPPLEMENTAL_RANGES[n])
      BY <1>2, <3>1, <3>2, WrapperIsHeld
    <3>4. Blocks(SUPPLEMENTAL_RANGES[n], 6, text, answer)
      BY <1>2, <3>2, <3>3 DEF Blocks
    <3> QED
      BY <2>1, <2>4, <3>4
  <2> QED
    BY <2>3, <2>5
<1>11. hidden = IF answer.embedded # -1 THEN Class4(answer.embedded) ELSE Null
  BY <1>4, <1>5
<1> QED
  BY <1>2, <1>4, <1>8, <1>9, <1>10, <1>11 DEF Ipv6Decided

(***************************************************************************)
(* A literal is analysed once, and what the classifier and the transport   *)
(* say of it is what they say of that analysis.                            *)
(***************************************************************************)
Analyzed(family, text) == IF family = 4 THEN analyzeIpv4(text) ELSE analyzeIpv6(text)

LiteralInv ==
  IF part = "literal"
  THEN /\ literal = [family |-> literal.family, text |-> literal.text, answer |-> literal.answer,
                     asked |-> literal.asked]
       /\ \/ literal.family = 4 /\ literal.text \in Ipv4Texts
          \/ literal.family = 6 /\ literal.text \in Ipv6Texts
       /\ literal.asked => literal.answer = Analyzed(literal.family, literal.text)
  ELSE literal.asked = FALSE

DecisionInv ==
  /\ decision = [at |-> decision.at, bucket |-> decision.bucket, transport |-> decision.transport]
  /\ decision.at \in {"read", "classified", "decided"}
  /\ decision.at # "read" => /\ literal.asked /\ part = "literal"
                             /\ decision.bucket = classifyHost(literal.family, literal.answer)
  /\ decision.at = "decided" =>
       decision.transport = classifyTransportAddress(literal.family, literal.text, literal.answer,
                                                     decision.bucket)

LEMMA AddressBegins == MCInit => LiteralInv /\ DecisionInv
<1> SUFFICES ASSUME MCInit PROVE LiteralInv /\ DecisionInv
  OBVIOUS
<1>1. LiteralInv
  <2>1. CASE part = "literal"
    <3>1. \/ \E text \in Ipv4Texts :
               literal = [family |-> 4, text |-> text, answer |-> Null, asked |-> FALSE]
          \/ \E text \in Ipv6Texts :
               literal = [family |-> 6, text |-> text, answer |-> Null, asked |-> FALSE]
      BY <2>1 DEF MCInit, LiteralInit
    <3> QED
      BY <2>1, <3>1 DEF LiteralInv
  <2>2. CASE part # "literal"
    <3>1. literal.asked = FALSE
      BY <2>2 DEF MCInit, LiteralRests
    <3> QED
      BY <2>2, <3>1 DEF LiteralInv
  <2> QED
    BY <2>1, <2>2
<1>2. DecisionInv
  <2>1. decision = [at |-> "read", bucket |-> Null, transport |-> Null]
    BY DEF MCInit, RangesInit, Undecided
  <2> QED
    BY <2>1 DEF DecisionInv
<1> QED
  BY <1>1, <1>2

LEMMA AddressStep == LiteralInv /\ DecisionInv /\ [MCNext]_MCvars => LiteralInv' /\ DecisionInv'
<1> SUFFICES ASSUME LiteralInv, DecisionInv, [MCNext]_MCvars PROVE LiteralInv' /\ DecisionInv'
  OBVIOUS
<1>1. CASE UNCHANGED <<literal, decision, part>>
  BY <1>1 DEF LiteralInv, DecisionInv
<1>2. CASE part = "literal" /\ AnalyzeLiteral /\ UNCHANGED <<decision, part>>
  <2> DEFINE answer == Analyzed(literal.family, literal.text)
  <2>1. ~literal.asked /\ literal' = [literal EXCEPT !.asked = TRUE, !.answer = answer]
    BY <1>2 DEF AnalyzeLiteral, Analyzed
  <2>2. literal = [family |-> literal.family, text |-> literal.text, answer |-> literal.answer,
                   asked |-> literal.asked]
    BY <1>2 DEF LiteralInv
  <2> HIDE DEF answer
  <2>3. literal' = [family |-> literal.family, text |-> literal.text, answer |-> answer, asked |-> TRUE]
    BY <2>1, <2>2
  <2>4. /\ literal'.family = literal.family /\ literal'.text = literal.text /\ literal'.answer = answer
        /\ literal' = [family |-> literal'.family, text |-> literal'.text, answer |-> literal'.answer,
                       asked |-> literal'.asked]
    BY <2>3
  <2>5. answer = Analyzed(literal.family, literal.text)
    BY DEF answer
  <2>6. LiteralInv'
    BY <1>2, <2>4, <2>5 DEF LiteralInv, Analyzed
  <2>7. decision.at = "read" /\ decision' = decision
    BY <1>2, <2>1 DEF DecisionInv
  <2> QED
    BY <2>6, <2>7 DEF DecisionInv
<1>3. CASE part = "literal" /\ ClassifiesHost /\ UNCHANGED part
  <2> DEFINE bucket == classifyHost(literal.family, literal.answer)
  <2>1. literal.asked /\ literal' = literal /\ decision' = [decision EXCEPT !.at = "classified", !.bucket = bucket]
    BY <1>3 DEF ClassifiesHost
  <2>2. decision = [at |-> decision.at, bucket |-> decision.bucket, transport |-> decision.transport]
    BY DEF DecisionInv
  <2> HIDE DEF bucket
  <2>3. decision' = [at |-> "classified", bucket |-> bucket, transport |-> decision.transport]
    BY <2>1, <2>2
  <2>4. /\ decision'.at = "classified" /\ decision'.bucket = bucket
        /\ decision' = [at |-> decision'.at, bucket |-> decision'.bucket, transport |-> decision'.transport]
    BY <2>3
  <2>5. bucket = classifyHost(literal'.family, literal'.answer)
    BY <2>1 DEF bucket
  <2>6. literal'.asked /\ part' = "literal"
    BY <1>3, <2>1
  <2>7. DecisionInv'
    BY <2>4, <2>5, <2>6 DEF DecisionInv
  <2> QED
    BY <1>3, <2>1, <2>7 DEF LiteralInv
<1>4. CASE part = "literal" /\ DecidesAddress /\ UNCHANGED part
  <2> DEFINE transport == classifyTransportAddress(literal.family, literal.text, literal.answer,
                                                   decision.bucket)
  <2>1. /\ decision.at = "classified" /\ literal' = literal
        /\ decision' = [decision EXCEPT !.at = "decided", !.transport = transport]
    BY <1>4 DEF DecidesAddress
  <2>2. decision = [at |-> decision.at, bucket |-> decision.bucket, transport |-> decision.transport]
    BY DEF DecisionInv
  <2> HIDE DEF transport
  <2>3. decision' = [at |-> "decided", bucket |-> decision.bucket, transport |-> transport]
    BY <2>1, <2>2
  <2>4. /\ decision'.at = "decided" /\ decision'.bucket = decision.bucket /\ decision'.transport = transport
        /\ decision' = [at |-> decision'.at, bucket |-> decision'.bucket, transport |-> decision'.transport]
    BY <2>3
  <2>5. transport = classifyTransportAddress(literal'.family, literal'.text, literal'.answer,
                                             decision'.bucket)
    BY <2>1, <2>4 DEF transport
  <2>6. /\ literal'.asked /\ part' = "literal"
        /\ decision'.bucket = classifyHost(literal'.family, literal'.answer)
    BY <1>4, <2>1, <2>4 DEF DecisionInv
  <2>7. DecisionInv'
    BY <2>4, <2>5, <2>6 DEF DecisionInv
  <2> QED
    BY <1>4, <2>1, <2>7 DEF LiteralInv
<1> QED
  BY <1>1, <1>2, <1>3, <1>4 DEF MCNext, MCvars, inputVars, Answered

LEMMA AddressesOf == LiteralInv /\ DecisionInv => AddressesAreKnown
<1> SUFFICES ASSUME LiteralInv, DecisionInv PROVE AddressesAreKnown
  OBVIOUS
<1> DEFINE a == literal.answer
           text == literal.text
           groups == groupsOf(text)
           parts == stripTrailingRootDot(text)
<1>1. ASSUME literal.asked, a # Null, literal.family = 4
      PROVE  /\ text \in Seq(Ipv4Part) /\ a = analyzeIpv4(text)
             /\ Denotes(a.canonical, Byte) = Worth(parts)
             /\ analyzeIpv4(Dotted(a.canonical)) = [canonical |-> a.canonical, obfuscated |-> FALSE]
             /\ ~a.obfuscated => parts = Dotted(a.canonical)
  <2>1. text \in Ipv4Texts /\ a = analyzeIpv4(text)
    BY <1>1 DEF LiteralInv, Analyzed
  <2>2. text \in Seq(Ipv4Part)
    BY <2>1, LiteralAssumption
  <2>0. parts \in Seq(Ipv4Part) /\ a = analyzeParts(parts)
    BY <2>1, <2>2, RootDotStripped
  <2> HIDE DEF a, text, parts
  <2>3. PICK n \in Nat : n = Worth(parts) /\ n < Power(Byte, 4)
    BY <1>1, <2>0, Ipv4Answers
  <2>4. PICK o \in BOOLEAN : o = Unusual(parts)
    BY DEF Unusual
  <2>5. a = [canonical |-> toDotted(n), obfuscated |-> o] /\ (~ o => parts = Dotted(toDotted(n)))
    BY <1>1, <2>0, <2>3, <2>4, Ipv4Answers
  <2>6. a.canonical = toDotted(n) /\ a.obfuscated = o
    BY <2>5
  <2>7. PICK c \in Seq(Nat) : /\ c = toDotted(n) /\ Len(c) = 4 /\ (\A k \in 1..4 : c[k] < Byte)
                              /\ Denotes(c, Byte) = n
    BY <2>3, BytesOf
  <2>8. analyzeIpv4(Dotted(c)) = [canonical |-> c, obfuscated |-> FALSE]
    BY <2>7, Ipv4ReadsBack
  <2> QED
    BY <2>1, <2>2, <2>3, <2>5, <2>6, <2>7, <2>8
<1>2. ASSUME literal.asked, a # Null, literal.family # 4
      PROVE  literal.family = 6 /\ Typed6(text) /\ a = analyzeIpv6(text)
  <2>1. part = "literal" /\ literal.family = 6 /\ text \in Ipv6Texts /\ a = analyzeIpv6(text)
    BY <1>2 DEF LiteralInv, Analyzed
  <2> QED
    BY <2>1, LiteralAssumption DEF Typed6
<1>3. CanonicalRoundTrips
  <2>1. CASE literal.family = 4
    BY <1>1, <2>1 DEF CanonicalRoundTrips
  <2>2. CASE literal.family # 4
    <3>1. SUFFICES ASSUME literal.asked, a # Null PROVE CanonicalRoundTrips
      BY DEF CanonicalRoundTrips
    <3>2. Typed6(text) /\ a = analyzeIpv6(text)
      BY <1>2, <2>2, <3>1
    <3>3. analyzeIpv6(text) # Null
      BY <3>1, <3>2
    <3> HIDE DEF a, text, groups
    <3>4. /\ groupsOf(a.canonical) = groups
          /\ Rfc5952(groups, a.canonical)
          /\ ~analyzeIpv6(a.canonical).obfuscated
          /\ a.embedded # -1 =>
               LET mixed == mixedCanonicalIpv6(groups, a.embedded)
               IN  groupsOf(mixed) = groups /\ ~analyzeIpv6(mixed).obfuscated
          /\ ~a.obfuscated =>
               \/ text = a.canonical
               \/ a.embedded # -1 /\ Last(text.left \o text.right).kind = "quad"
      BY <3>2, <3>3, Ipv6Answers, Zenon DEF groups
    <3> QED
      BY <2>2, <3>4 DEF CanonicalRoundTrips, a, text, groups
  <2> QED
    BY <2>1, <2>2
<1>4. NoDisguise
  <2>1. SUFFICES ASSUME decision.at = "decided", a # Null PROVE NoDisguise
    BY DEF NoDisguise
  <2> DEFINE bucket == decision.bucket
             transport == decision.transport
  <2>2. /\ literal.asked
        /\ bucket = classifyHost(literal.family, a)
        /\ transport = classifyTransportAddress(literal.family, text, a, bucket)
    BY <2>1 DEF DecisionInv
  <2>3. CASE literal.family = 4
    <3>1. text \in Seq(Ipv4Part) /\ a = analyzeIpv4(text)
      BY <1>1, <2>1, <2>2, <2>3
    <3>2. bucket = classifyHost(4, a) /\ transport = classifyTransportAddress(4, text, a, bucket)
      BY <2>2, <2>3
    <3> HIDE DEF a, text, bucket, transport
    <3>3. Ipv4Decided(text, a, bucket, transport)
      BY <2>1, <3>1, <3>2, Ipv4Decision
    <3> QED
      BY <2>3, <3>3 DEF Ipv4Decided, NoDisguise, a, text, bucket, transport
  <2>4. CASE literal.family # 4
    <3>1. literal.family = 6 /\ Typed6(text) /\ a = analyzeIpv6(text)
      BY <1>2, <2>1, <2>2, <2>4
    <3>2. bucket = classifyHost(6, a) /\ transport = classifyTransportAddress(6, text, a, bucket)
      BY <2>2, <3>1
    <3> HIDE DEF a, text, bucket, transport
    <3>3. Ipv6Decided(text, a, bucket, transport)
      BY <2>1, <3>1, <3>2, Ipv6Decision
    <3> QED
      BY <2>4, <3>3 DEF Ipv6Decided, NoDisguise, a, text, bucket, transport
  <2> QED
    BY <2>3, <2>4
<1> QED
  BY <1>3, <1>4 DEF AddressesAreKnown

(* However an address is spelled, it is the same address to the parser,    *)
(* the classifier and the transport: for every width of a byte, every      *)
(* number of groups and every table without a contradiction in it          *)
(* (analyzeIpv4, analyzeIpv6, classifyHost, classifyTransportAddress).     *)
THEOREM AddressesKnown == MCSpec => []AddressesAreKnown
BY AddressBegins, AddressStep, AddressesOf, PTL DEF MCSpec
=============================================================================
