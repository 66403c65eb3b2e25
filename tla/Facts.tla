--------------------------------- MODULE Facts ---------------------------------
(***************************************************************************)
(* Facts about numbers and sequences that the proofs share: the least      *)
(* element of a set of numbers, induction stated for sets (the library's   *)
(* induction theorems take an operator), and what FlattenSeq computes.     *)
(***************************************************************************)
EXTENDS Integers, SequencesExt, SequenceTheorems, WellFoundedInduction, TLAPS

------------------------------------------------------------------------------
(* Numbers.                                                                *)

LEMMA LeastElement ==
    ASSUME NEW T \in SUBSET Nat, T # {}
    PROVE  \E x \in T : \A y \in T : x <= y
<1>1. PICK x \in T : \A y \in T : ~(<<y, x>> \in OpToRel(<, Nat))
  BY NatLessThanWellFounded, WFMin
<1>2. \A y \in T : ~(y < x)
  BY <1>1 DEF OpToRel
<1> QED
  BY <1>2

LEMMA SetInduction ==
    ASSUME NEW T \in SUBSET Nat, 0 \in T, \A n \in T : n + 1 \in T
    PROVE  T = Nat
<1> SUFFICES ASSUME Nat \ T # {} PROVE FALSE
  OBVIOUS
<1>1. PICK x \in Nat \ T : \A y \in Nat \ T : x <= y
  BY LeastElement
<1>2. x # 0 /\ x - 1 \in Nat
  BY <1>1
<1>3. x - 1 \in T
  BY <1>1, <1>2
<1> QED
  BY <1>2, <1>3

\* Induction up to n, and a function defined by it: its values stay in R.
LEMMA InductionUpTo ==
    ASSUME NEW n \in Nat, NEW T, 0 \in T, \A k \in 1..n : k - 1 \in T => k \in T
    PROVE  0..n \subseteq T
<1> DEFINE U == {k \in Nat : k <= n => k \in T}
<1>1. 0 \in U
  OBVIOUS
<1>2. ASSUME NEW k \in U PROVE k + 1 \in U
  <2>1. k + 1 <= n => k + 1 \in 1..n /\ (k + 1) - 1 = k /\ k <= n
    OBVIOUS
  <2> QED
    BY <2>1
<1>3. U = Nat
  <2>1. U \in SUBSET Nat
    OBVIOUS
  <2> HIDE DEF U
  <2> QED
    BY <1>1, <1>2, <2>1, SetInduction
<1>4. \A k \in 0..n : k \in Nat /\ k <= n
  OBVIOUS
<1> QED
  BY <1>3, <1>4

Stays(step, n, R) == \A k \in 1..n : \A y \in R[k - 1] : step[y] \in R[k]

Follows(f, x, step, n, R) ==
    f[0] = x /\ \A k \in 1..n : f[k - 1] \in R[k - 1] /\ f[k] = step[f[k - 1]]

LEMMA Recursion ==
    ASSUME NEW n \in Nat, NEW S, NEW x, NEW step, NEW R,
           R \in [0..n -> SUBSET S], x \in R[0], Stays(step, n, R)
    PROVE  \E f \in [0..n -> S] : Follows(f, x, step, n, R)
<1> USE DEF Stays, Follows
<1> DEFINE Upto(f, m) ==
               /\ f[0] = x /\ f[m] \in R[m]
               /\ \A k \in 1..m : f[k - 1] \in R[k - 1] /\ f[k] = step[f[k - 1]]
           T == {m \in 0..n : \E f \in [0..m -> S] : Upto(f, m)}
<1>1. 0 \in T
  <2>1. [k \in 0..0 |-> x] \in [0..0 -> S] /\ Upto([k \in 0..0 |-> x], 0)
    OBVIOUS
  <2> HIDE DEF Upto
  <2>2. 0 \in 0..n /\ \E f \in [0..0 -> S] : Upto(f, 0)
    BY <2>1
  <2> QED
    BY <2>2
<1>2. ASSUME NEW m \in 1..n, m - 1 \in T PROVE m \in T
  <2>1. PICK f \in [0..(m - 1) -> S] : Upto(f, m - 1)
    BY <1>2
  <2> DEFINE g == [k \in 0..m |-> IF k = m THEN step[f[m - 1]] ELSE f[k]]
  <2>2. step[f[m - 1]] \in R[m] /\ R[m] \subseteq S
    BY <2>1
  <2>3. g \in [0..m -> S]
    BY <2>2
  <2>4. Upto(g, m)
    <3>1. g[0] = x /\ g[m] \in R[m]
      BY <2>1, <2>2
    <3>2. ASSUME NEW k \in 1..m PROVE g[k - 1] \in R[k - 1] /\ g[k] = step[g[k - 1]]
      <4>1. g[k - 1] = f[k - 1]
        OBVIOUS
      <4>2. CASE k = m
        BY <2>1, <4>1, <4>2
      <4>3. CASE k # m
        BY <2>1, <4>1, <4>3
      <4> QED
        BY <4>2, <4>3
    <3> QED
      BY <3>1, <3>2
  <2> HIDE DEF g, Upto
  <2>5. m \in 0..n
    OBVIOUS
  <2> QED
    BY <2>3, <2>4, <2>5
<1>3. n \in T
  <2> HIDE DEF T
  <2> QED
    BY <1>1, <1>2, InductionUpTo
<1> QED
  BY <1>3

LEMMA MinIs ==
    ASSUME NEW W \in SUBSET Int, W # {}, NEW b \in Int, \A x \in W : b <= x
    PROVE  Min(W) \in W /\ \A x \in W : Min(W) <= x
<1> DEFINE T == {n \in Nat : b + n \in W}
<1>1. T # {}
  <2>1. PICK x \in W : TRUE
    OBVIOUS
  <2>2. x - b \in Nat /\ b + (x - b) = x
    BY <2>1
  <2> QED
    BY <2>1, <2>2
<1>2. PICK n \in T : \A m \in T : n <= m
  BY <1>1, LeastElement
<1>3. \A x \in W : x - b \in T
  OBVIOUS
<1>4. \E x \in W : \A y \in W : x =< y
  <2>1. \A y \in W : b + n <= y
    BY <1>2, <1>3
  <2> QED
    BY <1>2, <2>1
<1> QED
  BY <1>4 DEF Min

LEMMA MaxIs ==
    ASSUME NEW W \in SUBSET Int, W # {}, NEW b \in Int, \A x \in W : x <= b
    PROVE  Max(W) \in W /\ \A x \in W : x <= Max(W)
<1> DEFINE T == {n \in Nat : b - n \in W}
<1>1. T # {}
  <2>1. PICK x \in W : TRUE
    OBVIOUS
  <2>2. b - x \in Nat /\ b - (b - x) = x
    BY <2>1
  <2> QED
    BY <2>1, <2>2
<1>2. PICK n \in T : \A m \in T : n <= m
  BY <1>1, LeastElement
<1>3. \A x \in W : b - x \in T
  OBVIOUS
<1>4. \E x \in W : \A y \in W : x >= y
  <2>1. \A y \in W : n <= b - y /\ y \in Int
    BY <1>2, <1>3
  <2>2. \A y \in W : b - n >= y
    BY <1>2, <2>1
  <2> QED
    BY <1>2, <2>2
<1> QED
  BY <1>4 DEF Max

LEMMA MinOfTwo ==
    ASSUME NEW a \in Int, NEW b \in Int
    PROVE  Min({a, b}) = IF a <= b THEN a ELSE b
<1>1. PICK c \in Int : c <= a /\ c <= b
  <2>1. CASE a <= b
    BY <2>1
  <2>2. CASE ~(a <= b)
    BY <2>2
  <2> QED
    BY <2>1, <2>2
<1>2. Min({a, b}) \in {a, b} /\ \A x \in {a, b} : Min({a, b}) <= x
  BY <1>1, MinIs
<1> QED
  BY <1>2

LEMMA MaxOfTwo ==
    ASSUME NEW a \in Int, NEW b \in Int
    PROVE  Max({a, b}) = IF a <= b THEN b ELSE a
<1>1. PICK c \in Int : a <= c /\ b <= c
  <2>1. CASE a <= b
    BY <2>1
  <2>2. CASE ~(a <= b)
    BY <2>2
  <2> QED
    BY <2>1, <2>2
<1>2. Max({a, b}) \in {a, b} /\ \A x \in {a, b} : x <= Max({a, b})
  BY <1>1, MaxIs
<1> QED
  BY <1>2

LEMMA Remainder ==
    ASSUME NEW a \in Int, NEW r \in Nat \ {0}
    PROVE  a % r \in 0..(r - 1) /\ \E q \in Int : a = (a % r) + q * r
<1>1. a % r \in 0..(r - 1)
  OBVIOUS
<1>2. a \div r \in Int /\ a = (a % r) + (a \div r) * r
  OBVIOUS
<1> QED
  BY <1>1, <1>2

LEMMA NoMultiple ==
    ASSUME NEW r \in Nat \ {0}, NEW q \in Int, -r < q * r, q * r < r
    PROVE  q = 0
<1>1. CASE q >= 1
  <2>1. (q - 1) \in Nat /\ (q - 1) * r \in Nat /\ q * r = (q - 1) * r + r
    BY <1>1
  <2> QED
    BY <2>1
<1>2. CASE q <= -1
  <2>1. (-q - 1) \in Nat /\ (-q - 1) * r \in Nat /\ q * r = -((-q - 1) * r) - r
    BY <1>2
  <2> QED
    BY <2>1
<1> QED
  BY <1>1, <1>2

LEMMA RemainderIs ==
    ASSUME NEW r \in Nat \ {0}, NEW a \in Int, NEW b \in 0..(r - 1), NEW q \in Int,
           a = b + q * r
    PROVE  a % r = b
<1>1. PICK p \in Int : a % r \in 0..(r - 1) /\ a = (a % r) + p * r
  BY Remainder
<1>2. p - q \in Int /\ (p - q) * r = p * r - q * r /\ p * r \in Int /\ q * r \in Int
  OBVIOUS
<1>3. (p - q) * r = b - (a % r)
  BY <1>1, <1>2
<1>4. p - q = 0
  BY <1>1, <1>2, <1>3, NoMultiple
<1> QED
  BY <1>1, <1>3, <1>4

LEMMA RemainderGoesOn ==
    ASSUME NEW r \in Nat \ {0}, NEW a \in Int
    PROVE  ((a % r) + 1) % r = (a + 1) % r
<1> DEFINE x == a % r
<1>1. PICK p \in Int : x \in 0..(r - 1) /\ a = x + p * r
  BY Remainder
<1> HIDE DEF x
<1> DEFINE y == x + 1
           e == y % r
<1>2. y \in Int
  BY <1>1
<1> HIDE DEF y
<1>3. PICK q \in Int : e \in 0..(r - 1) /\ y = e + q * r
  BY <1>2, Remainder
<1> HIDE DEF e
<1> DEFINE k == p + q
           b == a + 1
<1>4. k \in Int /\ k * r = p * r + q * r /\ p * r \in Int /\ q * r \in Int /\ b \in Int
  OBVIOUS
<1> HIDE DEF k
<1>5. b = e + k * r
  BY <1>1, <1>2, <1>3, <1>4 DEF y
<1> HIDE DEF b
<1>6. b % r = e
  BY <1>3, <1>4, <1>5, RemainderIs
<1> QED
  BY <1>6 DEF b, e, y, x

\* A difference of less than half the range is found from its remainder.
Signed(a, r, h) == IF a % r < h THEN a % r ELSE (a % r) - r

LEMMA SignedRemainder ==
    ASSUME NEW h \in Nat \ {0}, NEW r \in Nat \ {0}, r = h + h, NEW a \in Int,
           NEW d \in (-h)..(h - 1), NEW q \in Int, a = d + q * r
    PROVE  Signed(a, r, h) = d
<1>1. r \in Nat \ {0}
  OBVIOUS
<1>2. CASE d >= 0
  <2>1. d \in 0..(r - 1)
    BY <1>2
  <2>2. a % r = d
    BY <1>1, <2>1, RemainderIs
  <2> QED
    BY <2>1, <2>2 DEF Signed
<1>3. CASE d < 0
  <2> DEFINE e == d + r
             p == q - 1
  <2>1. e \in 0..(r - 1) /\ p \in Int /\ ~(e < h) /\ e - r = d
    BY <1>3
  <2>2. q * r = (p * r) + r /\ p * r \in Int
    BY <1>1
  <2>3. a \in Int /\ e \in 0..(r - 1) /\ p \in Int /\ a = e + p * r
    BY <1>1, <2>1, <2>2
  <2> HIDE DEF e, p
  <2>4. a % r = e
    BY <1>1, <2>3, RemainderIs
  <2>5. ~(a % r < h) /\ (a % r) - r = d
    BY <2>1, <2>4
  <2> QED
    BY <2>5 DEF Signed
<1> QED
  BY <1>2, <1>3

------------------------------------------------------------------------------
(* Sequences.                                                              *)

LEMMA FunctionIsSeq ==
    ASSUME NEW S, NEW n \in Nat, NEW f \in [1..n -> S]
    PROVE  f \in Seq(S) /\ Len(f) = n
<1>1. f \in Seq(S)
  BY SeqDef
<1> QED
  BY <1>1, LenProperties, SMT

LEMMA ElementsOf ==
    ASSUME NEW S, NEW s \in Seq(S)
    PROVE  /\ Len(s) \in Nat /\ DOMAIN s = 1..Len(s)
           /\ \A i \in 1..Len(s) : s[i] \in S
  BY LenProperties, ElementOfSeq

\* A queue without its head.
LEMMA TailKeeps ==
    ASSUME NEW S, NEW s \in Seq(S), s # <<>>
    PROVE  /\ Head(s) \in S /\ Tail(s) \in Seq(S)
           /\ Head(s) = s[1] /\ Len(s) \in Nat \ {0} /\ Len(Tail(s)) = Len(s) - 1
           /\ \A i \in DOMAIN Tail(s) : i + 1 \in DOMAIN s /\ Tail(s)[i] = s[i + 1]
<1>1. Tail(s) \in Seq(S) /\ Head(s) \in S /\ Len(s) \in Nat \ {0}
  BY HeadTailProperties, EmptySeq
<1> QED
  BY <1>1, HeadTailProperties, LenProperties, SMT

LEMMA AppendAdds ==
    ASSUME NEW S, NEW s \in Seq(S), NEW x \in S
    PROVE  /\ Append(s, x) \in Seq(S) /\ Append(s, x) # <<>>
           /\ DOMAIN Append(s, x) = DOMAIN s \cup {Len(s) + 1}
           /\ \A i \in DOMAIN s : Append(s, x)[i] = s[i]
           /\ Append(s, x)[Len(s) + 1] = x
  BY AppendProperties, LenProperties, SMT

LEMMA ConcatIs ==
    ASSUME NEW S, NEW a \in Seq(S), NEW b \in Seq(S), NEW u, u = a \o b,
           NEW n, n = Len(a), NEW m, m = Len(b)
    PROVE  /\ n \in Nat /\ m \in Nat /\ u \in Seq(S) /\ Len(u) = n + m
           /\ \A i \in 1..n : u[i] = a[i]
           /\ \A i \in 1..m : u[n + i] = b[i]
           /\ \A i \in 1..(n + m) : u[i] = IF i <= n THEN a[i] ELSE b[i - n]
<1>1. /\ u \in Seq(S) /\ Len(u) = n + m
      /\ \A i \in 1..(n + m) : u[i] = IF i <= n THEN a[i] ELSE b[i - n]
  BY ConcatProperties
<1>2. n \in Nat /\ m \in Nat
  BY ElementsOf
<1>3. \A i \in 1..n : u[i] = a[i]
  BY <1>1, <1>2
<1>4. ASSUME NEW i \in 1..m PROVE u[n + i] = b[i]
  <2>1. n + i \in 1..(n + m) /\ ~(n + i <= n) /\ (n + i) - n = i
    BY <1>2
  <2> QED
    BY <1>1, <2>1
<1> QED
  BY <1>1, <1>2, <1>3, <1>4

\* A queue without its first n elements, of which it may have fewer.
LEMMA RestKeeps ==
    ASSUME NEW S, NEW s \in Seq(S), NEW n \in Nat
    PROVE  /\ SubSeq(s, n + 1, Len(s)) \in Seq(S)
           /\ Len(SubSeq(s, n + 1, Len(s))) = IF n <= Len(s) THEN Len(s) - n ELSE 0
           /\ \A i \in 1..Len(SubSeq(s, n + 1, Len(s))) :
                 i + n \in 1..Len(s) /\ SubSeq(s, n + 1, Len(s))[i] = s[i + n]
<1>1. Len(s) \in Nat /\ \A i \in (n + 1)..Len(s) : s[i] \in S
  BY ElementsOf
<1>2. /\ SubSeq(s, n + 1, Len(s)) \in Seq(S)
      /\ Len(SubSeq(s, n + 1, Len(s))) = IF n + 1 <= Len(s) THEN Len(s) - (n + 1) + 1 ELSE 0
      /\ \A i \in 1..(Len(s) - (n + 1) + 1) :
            SubSeq(s, n + 1, Len(s))[i] = s[(n + 1) + i - 1]
  BY <1>1, SubSeqProperties
<1>3. Len(SubSeq(s, n + 1, Len(s))) = IF n <= Len(s) THEN Len(s) - n ELSE 0
  BY <1>1, <1>2
<1>4. \A i \in 1..Len(SubSeq(s, n + 1, Len(s))) :
          /\ i \in 1..(Len(s) - (n + 1) + 1) /\ i + n \in 1..Len(s)
          /\ (n + 1) + i - 1 = i + n
  BY <1>1, <1>3
<1> QED
  BY <1>2, <1>3, <1>4

------------------------------------------------------------------------------
(* FlattenSeq.                                                             *)

\* f is the recursive function inside FlattenSeq, up to n.
Flattens(f, s, n) ==
    \A i \in 1..n : f[i] = IF i = 1 THEN s[i] ELSE f[i - 1] \o s[i]

LEMMA FlatteningExists ==
    ASSUME NEW X, NEW s \in Seq(Seq(X)), NEW n \in 0..Len(s)
    PROVE  \E f \in [1..n -> Seq(X)] : Flattens(f, s, n)
<1> DEFINE T == {m \in Nat : m <= Len(s) =>
                     \E f \in [1..m -> Seq(X)] : Flattens(f, s, m)}
<1>1. Len(s) \in Nat /\ \A i \in 1..Len(s) : s[i] \in Seq(X)
  BY ElementsOf
<1>2. 0 \in T
  <2>1. [i \in 1..0 |-> <<>>] \in [1..0 -> Seq(X)]
    OBVIOUS
  <2>2. Flattens([i \in 1..0 |-> <<>>], s, 0)
    BY DEF Flattens
  <2> QED
    BY <2>1, <2>2
<1>3. \A m \in T : m + 1 \in T
  <2> SUFFICES ASSUME NEW m \in T, m + 1 <= Len(s)
               PROVE  \E g \in [1..(m + 1) -> Seq(X)] : Flattens(g, s, m + 1)
    OBVIOUS
  <2>1. PICK f \in [1..m -> Seq(X)] : Flattens(f, s, m)
    BY <1>1
  <2> DEFINE last == IF m = 0 THEN s[1] ELSE f[m] \o s[m + 1]
             g == [i \in 1..(m + 1) |-> IF i = m + 1 THEN last ELSE f[i]]
  <2>2. last \in Seq(X)
    <3>1. s[1] \in Seq(X) /\ s[m + 1] \in Seq(X)
      BY <1>1
    <3>2. m # 0 => f[m] \in Seq(X)
      OBVIOUS
    <3> QED
      BY <3>1, <3>2, ConcatProperties
  <2>3. g \in [1..(m + 1) -> Seq(X)]
    <3> HIDE DEF last
    <3> QED
      BY <2>2
  <2>0. m \in Nat
    OBVIOUS
  <2>4. \A i \in 1..m : g[i] = f[i]
    <3> HIDE DEF last, T
    <3> QED
      BY <2>0
  <2>5. g[m + 1] = last
    <3> HIDE DEF last, T
    <3> QED
      BY <2>0
  <2> HIDE DEF g
  <2>6. Flattens(g, s, m + 1)
    <3> SUFFICES ASSUME NEW i \in 1..(m + 1)
                 PROVE  g[i] = IF i = 1 THEN s[i] ELSE g[i - 1] \o s[i]
      BY DEF Flattens
    <3>1. CASE i = m + 1
      <4>1. m # 0 => g[m] = f[m]
        BY <2>4
      <4> QED
        BY <2>5, <3>1, <4>1
    <3>2. CASE i # m + 1
      <4>1. i \in 1..m /\ (i # 1 => i - 1 \in 1..m)
        BY <3>2
      <4> QED
        BY <2>1, <2>4, <4>1 DEF Flattens
    <3> QED
      BY <3>1, <3>2
  <2> QED
    BY <2>3, <2>6
<1>4. T = Nat
  <2>1. T \in SUBSET Nat
    OBVIOUS
  <2> HIDE DEF T
  <2> QED
    BY <1>2, <1>3, <2>1, SetInduction
<1>5. n \in T
  <2> HIDE DEF T
  <2> QED
    BY <1>1, <1>4
<1> QED
  BY <1>1, <1>5

LEMMA FlattenIs ==
    ASSUME NEW X, NEW s \in Seq(Seq(X)), s # <<>>
    PROVE  \E f \in [1..Len(s) -> Seq(X)] :
              Flattens(f, s, Len(s)) /\ FlattenSeq(s) = f[Len(s)]
<1> DEFINE R(f) == f = [i \in 1..Len(s) |-> IF i = 1 THEN s[i] ELSE f[i - 1] \o s[i]]
           c == CHOOSE f : R(f)
<1>1. Len(s) \in Nat \ {0}
  BY EmptySeq
<1>2. PICK f \in [1..Len(s) -> Seq(X)] : Flattens(f, s, Len(s))
  <2>1. Len(s) \in 0..Len(s)
    BY <1>1
  <2> QED
    BY <2>1, FlatteningExists
<1>3. R(f)
  BY <1>2 DEF Flattens
<1>4. R(c)
  <2> HIDE DEF R
  <2> QED
    BY <1>3
<1>5. FlattenSeq(s) = c[Len(s)]
  BY <1>1 DEF FlattenSeq
<1>6. Flattens(c, s, Len(s))
  <2> HIDE DEF c
  <2> QED
    BY <1>4 DEF Flattens
<1> HIDE DEF c, R
<1>7. c \in [1..Len(s) -> Seq(X)]
  <2>1. \A i \in 1..Len(s) : c[i] = f[i]
    <3> DEFINE T == {m \in Nat : m \in 1..Len(s) => c[m] = f[m]}
    <3>1. T \in SUBSET Nat /\ 0 \in T
      OBVIOUS
    <3>2. \A m \in T : m + 1 \in T
      <4> SUFFICES ASSUME NEW m \in Nat, m \in 1..Len(s) => c[m] = f[m],
                          m + 1 \in 1..Len(s)
                   PROVE  c[m + 1] = f[m + 1]
        OBVIOUS
      <4> HIDE DEF T
      <4>1. CASE m = 0
        <5>1. m + 1 = 1 /\ 1 \in 1..Len(s)
          BY <4>1
        <5>2. f[1] = s[1] /\ c[1] = s[1]
          BY <1>1, <1>2, <1>6, <5>1 DEF Flattens
        <5> QED
          BY <5>1, <5>2
      <4>2. CASE m # 0
        <5>1. m \in 1..Len(s) /\ m + 1 # 1 /\ (m + 1) - 1 = m
          BY <1>1, <4>2
        <5>2. f[m + 1] = f[m] \o s[m + 1]
          BY <1>1, <1>2, <1>6, <5>1 DEF Flattens
        <5>3. c[m + 1] = c[m] \o s[m + 1]
          BY <1>1, <1>2, <1>6, <5>1 DEF Flattens
        <5> QED
          BY <5>1, <5>2, <5>3
      <4> QED
        BY <4>1, <4>2
    <3>3. T = Nat
      <4> HIDE DEF T
      <4> QED
        BY <3>1, <3>2, SetInduction
    <3> QED
      BY <3>3
  <2>2. c = [i \in 1..Len(s) |-> c[i]]
    BY <1>4 DEF R
  <2> QED
    BY <1>2, <2>1, <2>2
<1> QED
  BY <1>5, <1>6, <1>7

LEMMA FlattenEmpty == FlattenSeq(<<>>) = <<>>
<1>1. Len(<<>>) = 0
  BY EmptySeq
<1> QED
  BY <1>1 DEF FlattenSeq

LEMMA FlattenAppend ==
    ASSUME NEW X, NEW s \in Seq(Seq(X)), NEW x \in Seq(X)
    PROVE  /\ FlattenSeq(s) \in Seq(X)
           /\ FlattenSeq(Append(s, x)) = FlattenSeq(s) \o x
<1> DEFINE t == Append(s, x)
<1>1. /\ t \in Seq(Seq(X)) /\ t # <<>> /\ Len(t) = Len(s) + 1 /\ Len(s) \in Nat
      /\ \A i \in 1..Len(s) : t[i] = s[i]
      /\ t[Len(s) + 1] = x
  BY AppendProperties, ElementsOf
<1> HIDE DEF t
<1>2. PICK g \in [1..Len(t) -> Seq(X)] :
          Flattens(g, t, Len(t)) /\ FlattenSeq(t) = g[Len(t)]
  BY <1>1, FlattenIs
<1>3. CASE s = <<>>
  <2>1. Len(s) = 0
    BY <1>3, EmptySeq
  <2>2. FlattenSeq(t) = x
    BY <1>1, <1>2, <2>1 DEF Flattens
  <2> QED
    BY <1>3, <2>2, FlattenEmpty, ConcatEmptySeq, EmptySeq DEF t
<1>4. CASE s # <<>>
  <2>1. PICK f \in [1..Len(s) -> Seq(X)] :
            Flattens(f, s, Len(s)) /\ FlattenSeq(s) = f[Len(s)]
    BY <1>4, FlattenIs
  <2>2. Len(s) # 0
    BY <1>1, <1>4, EmptySeq
  <2>3. \A i \in 1..Len(s) : g[i] = f[i]
    <3> DEFINE T == {m \in Nat : m \in 1..Len(s) => g[m] = f[m]}
    <3>1. T \in SUBSET Nat /\ 0 \in T
      OBVIOUS
    <3>2. \A m \in T : m + 1 \in T
      <4> SUFFICES ASSUME NEW m \in Nat, m \in 1..Len(s) => g[m] = f[m],
                          m + 1 \in 1..Len(s)
                   PROVE  g[m + 1] = f[m + 1]
        BY <1>1
      <4> HIDE DEF T
      <4>1. CASE m = 0
        <5>1. m + 1 = 1 /\ 1 \in 1..Len(s)
          BY <4>1
        <5>3. 1 \in 1..Len(t) /\ t[1] = s[1]
          BY <1>1, <5>1
        <5>2. f[1] = s[1] /\ g[1] = s[1]
          BY <1>2, <2>1, <5>1, <5>3 DEF Flattens
        <5> QED
          BY <5>1, <5>2
      <4>2. CASE m # 0
        <5>1. m \in 1..Len(s) /\ m + 1 # 1 /\ (m + 1) - 1 = m
          BY <1>1, <4>2
        <5>2. f[m + 1] = f[m] \o s[m + 1]
          BY <1>1, <1>2, <2>1, <5>1 DEF Flattens
        <5>3. g[m + 1] = g[m] \o s[m + 1]
          <6>1. m + 1 \in 1..Len(t) /\ t[m + 1] = s[m + 1]
            BY <1>1
          <6> QED
            BY <1>2, <5>1, <6>1 DEF Flattens
        <5> QED
          BY <5>1, <5>2, <5>3
      <4> QED
        BY <4>1, <4>2
    <3>3. T = Nat
      <4> HIDE DEF T
      <4> QED
        BY <3>1, <3>2, SetInduction
    <3>4. \A m \in 1..Len(s) : m \in Nat
      BY <1>1
    <3> QED
      BY <3>3, <3>4
  <2>4. g[Len(s) + 1] = g[Len(s)] \o x
    <3>1. Len(s) + 1 \in 1..Len(t) /\ Len(s) + 1 # 1 /\ (Len(s) + 1) - 1 = Len(s)
      BY <1>1, <2>2
    <3> QED
      BY <1>1, <1>2, <3>1 DEF Flattens
  <2>5. Len(s) \in 1..Len(s)
    BY <1>1, <2>2
  <2>6. FlattenSeq(t) = f[Len(s)] \o x
    BY <1>1, <1>2, <2>3, <2>4, <2>5
  <2>7. FlattenSeq(s) \in Seq(X)
    BY <2>1, <2>5
  <2> QED
    BY <2>1, <2>6, <2>7 DEF t
<1> QED
  BY <1>3, <1>4

LEMMA AppendToConcat ==
    ASSUME NEW S, NEW s \in Seq(S), NEW t \in Seq(S), NEW x \in S
    PROVE  s \o Append(t, x) = Append(s \o t, x)
<1>1. <<x>> \in Seq(S)
  OBVIOUS
<1>2. s \o t \in Seq(S)
  BY ConcatProperties
<1>3. Append(t, x) = t \o <<x>> /\ Append(s \o t, x) = (s \o t) \o <<x>>
  BY <1>2, AppendIsConcat
<1> QED
  BY <1>1, <1>3, ConcatAssociative

LEMMA ConcatThree ==
    \A S : \A a, b, c \in Seq(S) : (a \o b) \o c = a \o (b \o c)
  BY ConcatAssociative

LEMMA Regroup ==
    ASSUME NEW S, NEW p \in Seq(S), NEW q \in Seq(S), NEW x \in Seq(S), NEW y \in Seq(S)
    PROVE  p \o ((q \o x) \o y) = (p \o q) \o (x \o y)
<1>1. (q \o x) \o y = q \o (x \o y)
  BY ConcatAssociative
<1>2. x \o y \in Seq(S)
  BY ConcatProperties
<1> DEFINE z == x \o y
<1>3. (p \o q) \o z = p \o (q \o z)
  <2>1. z \in Seq(S)
    BY <1>2
  <2> HIDE DEF z
  <2> QED
    BY <2>1, ConcatAssociative
<1> QED
  BY <1>1, <1>3

LEMMA FlattenConcat ==
    ASSUME NEW X, NEW s \in Seq(Seq(X)), NEW t \in Seq(Seq(X))
    PROVE  FlattenSeq(s \o t) = FlattenSeq(s) \o FlattenSeq(t)
<1> DEFINE P(r) == FlattenSeq(s \o r) = FlattenSeq(s) \o FlattenSeq(r)
           T == {n \in Nat : \A r \in Seq(Seq(X)) : Len(r) = n => P(r)}
<1>1. FlattenSeq(s) \in Seq(X)
  BY FlattenAppend, EmptySeq
<1>2. 0 \in T
  <2> SUFFICES ASSUME NEW r \in Seq(Seq(X)), Len(r) = 0 PROVE P(r)
    OBVIOUS
  <2>1. r = <<>>
    BY EmptySeq
  <2>2. s \o r = s /\ FlattenSeq(s) \o <<>> = FlattenSeq(s)
    BY <1>1, <2>1, ConcatEmptySeq
  <2> QED
    BY <2>1, <2>2, FlattenEmpty
<1>3. ASSUME NEW n \in Nat, \A q \in Seq(Seq(X)) : Len(q) = n => P(q),
             NEW r \in Seq(Seq(X)), Len(r) = n + 1
      PROVE  P(r)
  <2>1. r # <<>>
    BY <1>3, EmptySeq
  <2>2. PICK q \in Seq(Seq(X)), x \in Seq(X) : r = Append(q, x)
    BY <2>1, SequenceEmptyOrAppend
  <2>3. Len(q) = n
    <3>1. Len(r) = Len(q) + 1 /\ Len(q) \in Nat
      BY <2>2, AppendProperties, ElementsOf
    <3> QED
      BY <1>3, <3>1
  <2>4. FlattenSeq(s \o q) = FlattenSeq(s) \o FlattenSeq(q)
    BY <1>3, <2>3
  <2>5. s \o q \in Seq(Seq(X)) /\ FlattenSeq(q) \in Seq(X)
    BY FlattenAppend, ConcatProperties
  <2>6. s \o r = Append(s \o q, x)
    BY <2>2, AppendToConcat
  <2>7. FlattenSeq(s \o r) = FlattenSeq(s \o q) \o x
    BY <2>5, <2>6, FlattenAppend
  <2>8. FlattenSeq(r) = FlattenSeq(q) \o x
    BY <2>2, FlattenAppend
  <2>9. (FlattenSeq(s) \o FlattenSeq(q)) \o x = FlattenSeq(s) \o (FlattenSeq(q) \o x)
    <3> DEFINE a == FlattenSeq(s)
               b == FlattenSeq(q)
    <3>1. a \in Seq(X) /\ b \in Seq(X)
      BY <1>1, <2>5
    <3> HIDE DEF a, b, P, T
    <3>2. (a \o b) \o x = a \o (b \o x)
      BY <3>1, ConcatAssociative
    <3> QED
      BY <3>2 DEF a, b
  <2> QED
    BY <2>4, <2>7, <2>8, <2>9
<1>4. T = Nat
  <2> HIDE DEF P
  <2>1. T \in SUBSET Nat
    OBVIOUS
  <2>2. \A n \in T : n + 1 \in T
    <3>1. \A n \in Nat : (\A q \in Seq(Seq(X)) : Len(q) = n => P(q))
                          => \A r \in Seq(Seq(X)) : Len(r) = n + 1 => P(r)
      BY <1>3, Zenon
    <3>2. \A n \in Nat : n + 1 \in Nat
      OBVIOUS
    <3> QED
      BY <3>1, <3>2, Zenon
  <2> HIDE DEF T
  <2> QED
    BY <1>2, <2>1, <2>2, SetInduction
<1>5. Len(t) \in T
  <2>1. Len(t) \in Nat
    BY ElementsOf
  <2> HIDE DEF T
  <2> QED
    BY <1>4, <2>1
<1> QED
  BY <1>5

================================================================================
