----------------------------- MODULE KcpClockProofs -----------------------------
(***************************************************************************)
(* What KcpClock guarantees for every width of the clock, all settings and *)
(* any number of segments, wherever the clock starts and whenever it is    *)
(* set.                                                                    *)
(***************************************************************************)
EXTENDS KcpClock, Facts

------------------------------------------------------------------------------
(* The clock.                                                              *)

Half == ClockRange \div 2

LEMMA Halves == Half \in Nat /\ ClockRange = Half + Half /\ ClockRange \in Nat
  BY ClockAssumption DEF Half

LEMMA DiffIs ==
    ASSUME NEW x \in Int, NEW y \in Int, NEW d \in (-Half)..(Half - 1), NEW q \in Int,
           x - y = d + q * ClockRange
    PROVE  Itimediff(x, y) = d
<1>1. Half \in Nat \ {0} /\ ClockRange \in Nat \ {0} /\ ClockRange = Half + Half
  BY Halves
<1> DEFINE a == x - y
<1>2. /\ a \in Int /\ d \in (-Half)..(Half - 1) /\ q \in Int
      /\ a = d + q * ClockRange
  OBVIOUS
<1> HIDE DEF a
<1>3. Signed(a, ClockRange, Half) = d
  BY <1>1, <1>2, SignedRemainder
<1> QED
  BY <1>3 DEF Itimediff, Half, a, Signed

LEMMA DiffHas ==
    ASSUME NEW x \in Int, NEW y \in Int, ClockRange # 0
    PROVE  /\ Itimediff(x, y) \in (-Half)..(Half - 1)
           /\ \E q \in Int : x - y = Itimediff(x, y) + q * ClockRange
<1>1. Half \in Nat \ {0} /\ ClockRange = Half + Half /\ ClockRange \in Nat \ {0}
  BY Halves
<1> DEFINE d == (x - y) % ClockRange
<1>2. d \in 0..(ClockRange - 1) /\ \E q \in Int : x - y = d + q * ClockRange
  <2> DEFINE a == x - y
  <2>1. a \in Int
    OBVIOUS
  <2> HIDE DEF a
  <2>2. a % ClockRange \in 0..(ClockRange - 1)
        /\ \E q \in Int : a = (a % ClockRange) + q * ClockRange
    BY <1>1, <2>1, Remainder, Zenon
  <2> QED
    BY <2>2 DEF a
<1>3. PICK q \in Int : x - y = d + q * ClockRange
  BY <1>2
<1>4. Itimediff(x, y) = IF d < Half THEN d ELSE d - ClockRange
  BY DEF Itimediff, Half
<1> HIDE DEF d
<1>5. (q + 1) * ClockRange = q * ClockRange + ClockRange /\ q * ClockRange \in Int
      /\ q + 1 \in Int
  BY <1>1
<1>6. CASE d < Half
  BY <1>1, <1>2, <1>3, <1>4, <1>6
<1>7. CASE ~(d < Half)
  <2>1. x - y = (d - ClockRange) + (q + 1) * ClockRange
    BY <1>1, <1>2, <1>3, <1>5
  <2> QED
    BY <1>1, <1>2, <1>4, <1>5, <1>7, <2>1
<1> QED
  BY <1>6, <1>7

\* The time after n units.
LEMMA AfterIs ==
    ASSUME NEW x \in Times, NEW n \in Int
    PROVE  After(x, n) \in Times /\ \E q \in Int : After(x, n) = x + n + q * ClockRange
<1>1. ClockRange \in Nat \ {0} /\ x \in Nat
  BY Halves DEF Times
<1> DEFINE a == x + n
<1>2. PICK q \in Int : a % ClockRange \in 0..(ClockRange - 1)
           /\ a = (a % ClockRange) + q * ClockRange
  <2>1. a \in Int
    BY <1>1
  <2> QED
    BY <1>1, <2>1, Remainder
<1>3. (-q) * ClockRange = -(q * ClockRange) /\ q * ClockRange \in Int /\ -q \in Int
  BY <1>1
<1>4. a % ClockRange = a + (-q) * ClockRange
  BY <1>1, <1>2, <1>3
<1> QED
  BY <1>1, <1>2, <1>3, <1>4 DEF After, Times

\* As the clock goes on by n, the times ahead come nearer by n.
LEMMA ClockGoesOn ==
    ASSUME NEW t \in Times, NEW x \in Times, NEW n \in Int,
           Itimediff(t, x) - n \in (-Half)..(Half - 1)
    PROVE  Itimediff(t, After(x, n)) = Itimediff(t, x) - n
<1>1. ClockRange \in Nat \ {0} /\ x \in Nat /\ t \in Nat /\ Half \in Nat
  BY Halves DEF Times
<1>0. t \in Int /\ x \in Int /\ ClockRange # 0
  BY <1>1
<1> DEFINE d == Itimediff(t, x)
<1>2. PICK p \in Int : t - x = d + p * ClockRange
  BY <1>0, DiffHas, Zenon
<1>3. PICK q \in Int : After(x, n) = x + n + q * ClockRange
  BY AfterIs
<1>4. (p - q) * ClockRange = p * ClockRange - q * ClockRange /\ p * ClockRange \in Int
      /\ q * ClockRange \in Int /\ p - q \in Int
  BY <1>1
<1> DEFINE a == After(x, n)
           r == (p - q)
<1>5. d \in Int /\ a \in Int
  BY <1>0, DiffHas, AfterIs DEF Times
<1>6. d - n \in (-Half)..(Half - 1)
  OBVIOUS
<1> HIDE DEF d, a, r
<1>7. t - a = (d - n) + r * ClockRange
  BY <1>1, <1>2, <1>3, <1>4, <1>5 DEF a, r
<1>8. r \in Int /\ d - n \in Int
  BY <1>5 DEF r
<1>9. Itimediff(t, a) = d - n
  BY <1>0, <1>5, <1>6, <1>7, <1>8, DiffIs
<1> QED
  BY <1>9 DEF d, a

\* A timer set n units ahead of time t.
LEMMA TimerIsSet ==
    ASSUME NEW t \in Times, NEW x \in Times, NEW n \in Int,
           Itimediff(t, x) + n \in (-Half)..(Half - 1)
    PROVE  Itimediff(After(t, n), x) = Itimediff(t, x) + n
<1>1. ClockRange \in Nat \ {0} /\ x \in Nat /\ t \in Nat /\ Half \in Nat
  BY Halves DEF Times
<1>0. t \in Int /\ x \in Int /\ ClockRange # 0
  BY <1>1
<1> DEFINE d == Itimediff(t, x)
<1>2. PICK p \in Int : t - x = d + p * ClockRange
  BY <1>0, DiffHas, Zenon
<1>3. PICK q \in Int : After(t, n) = t + n + q * ClockRange
  BY AfterIs
<1>4. (p + q) * ClockRange = p * ClockRange + q * ClockRange /\ p * ClockRange \in Int
      /\ q * ClockRange \in Int /\ p + q \in Int
  BY <1>1
<1> DEFINE a == After(t, n)
           r == (p + q)
<1>5. d \in Int /\ a \in Int
  BY <1>0, DiffHas, AfterIs DEF Times
<1>6. d + n \in (-Half)..(Half - 1)
  OBVIOUS
<1> HIDE DEF d, a, r
<1>7. a - x = (d + n) + r * ClockRange
  BY <1>1, <1>2, <1>3, <1>4, <1>5 DEF a, r
<1>8. r \in Int /\ d + n \in Int
  BY <1>5 DEF r
<1>9. Itimediff(a, x) = d + n
  BY <1>0, <1>5, <1>6, <1>7, <1>8, DiffIs
<1> QED
  BY <1>9 DEF d, a

\* _itimediff is antisymmetric but at half the range.
LEMMA Opposite ==
    ASSUME NEW t \in Times, NEW x \in Times, Itimediff(t, x) # -Half
    PROVE  Itimediff(x, t) = -Itimediff(t, x)
<1>1. ClockRange \in Nat \ {0} /\ x \in Nat /\ t \in Nat /\ Half \in Nat
  BY Halves DEF Times
<1>0. t \in Int /\ x \in Int /\ ClockRange # 0
  BY <1>1
<1> DEFINE d == Itimediff(t, x)
<1>2. PICK p \in Int : t - x = d + p * ClockRange
  BY <1>0, DiffHas, Zenon
<1>3. Itimediff(t, x) \in (-Half)..(Half - 1)
  BY <1>1, DiffHas
<1>4. (-p) * ClockRange = -(p * ClockRange) /\ p * ClockRange \in Int /\ -p \in Int
  BY <1>1
<1>5. x - t = (-Itimediff(t, x)) + (-p) * ClockRange
  BY <1>1, <1>2, <1>3, <1>4
<1>6. -Itimediff(t, x) \in (-Half)..(Half - 1)
  BY <1>1, <1>3
<1> QED
  BY <1>1, <1>4, <1>5, <1>6, DiffIs

LEMMA NoDistance ==
    ASSUME NEW x \in Times
    PROVE  Itimediff(x, x) = 0
<1>1. ClockRange \in Nat \ {0} /\ x \in Nat /\ Half \in Nat \ {0} /\ 0 * ClockRange = 0
  BY Halves DEF Times
<1> QED
  BY <1>1, DiffIs
------------------------------------------------------------------------------
(* The constants.                                                          *)

Farthest == Max({0} \cup Ahead \cup Back)

\* How far the longest interval, a late caller and a clock that is set put a timer off.
Reserve == Longest + Slack + Farthest

LongestRto == MaxRto + MaxRto \div 8

LEMMA IntervalsBounded ==
    ASSUME NEW n \in Intervals
    PROVE  Longest \in Nat \ {0} /\ \A i \in Intervals : i \in Nat \ {0} /\ i <= Longest
<1>1. Intervals \in SUBSET Int /\ ClockRange \in Int
      /\ \A i \in Intervals : i \in Nat \ {0} /\ i <= ClockRange
  BY ClockAssumption
<1>2. Longest \in Intervals /\ \A i \in Intervals : i <= Longest
  BY <1>1, MaxIs DEF Longest
<1> QED
  BY <1>1, <1>2

LEMMA JumpsBounded ==
    /\ Farthest \in Nat
    /\ \A j \in Jumps \cup {0} : j \in Int /\ -Farthest <= j /\ j <= Farthest
<1> DEFINE W == {0} \cup Ahead \cup Back
<1>1. W \in SUBSET Int /\ W # {} /\ ClockRange \in Int /\ \A x \in W : x \in Nat
      /\ x <= ClockRange
  BY ClockAssumption
<1>2. \A j \in Jumps \cup {0} : j \in W \/ \E x \in W : j = -x
  BY DEF Jumps
<1>3. Farthest = Max(W)
  BY DEF Farthest
<1> HIDE DEF W
<1>4. Farthest \in W /\ \A x \in W : x <= Farthest
  BY <1>1, <1>3, MaxIs
<1>5. ASSUME NEW j \in Jumps \cup {0}
      PROVE  j \in Int /\ -Farthest <= j /\ j <= Farthest
  <2>1. PICK x \in W : j = x \/ j = -x
    BY <1>2
  <2>2. x \in Nat /\ x <= Farthest /\ Farthest \in Nat
    BY <1>1, <1>4
  <2> QED
    BY <2>1, <2>2
<1> QED
  BY <1>1, <1>4, <1>5

\* The longest time out doubles at each transmission.
LEMMA MaxRtoDoubles ==
    ASSUME NEW r \in Rtos
    PROVE  /\ \A n \in 1..MaxXmit : MaxRtoAt[n] \in Nat
           /\ \A n \in 1..MaxXmit : n # 1 => MaxRtoAt[n] = 2 * MaxRtoAt[n - 1]
           /\ \A x \in Rtos : x \in Nat /\ 2 <= x /\ x <= MaxRtoAt[1]
<1>1. MaxXmit \in Nat \ {0} /\ Rtos \in SUBSET Int /\ ClockRange \in Int
      /\ \A x \in Rtos : x \in Nat /\ 2 <= x /\ x <= ClockRange
  BY ClockAssumption
<1> DEFINE m == Max(Rtos)
<1>2. m \in Rtos /\ \A x \in Rtos : x <= m
  BY <1>1, MaxIs
<1>3. m \in Nat
  BY <1>1, <1>2
<1> HIDE DEF m
<1> DEFINE At(f, k) == \A n \in 1..k : f[n] = IF n = 1 THEN m ELSE 2 * f[n - 1]
           T == {k \in Nat : \E f \in [1..k -> Nat] : At(f, k)}
<1>4. T = Nat
  <2>1. 0 \in T
    <3>1. [n \in 1..0 |-> m] \in [1..0 -> Nat] /\ At([n \in 1..0 |-> m], 0)
      OBVIOUS
    <3> QED
      BY <3>1
  <2>2. ASSUME NEW k \in T
        PROVE  k + 1 \in T
    <3>1. PICK f \in [1..k -> Nat] : At(f, k)
      OBVIOUS
    <3> DEFINE g == [n \in 1..(k + 1) |-> IF n = 1 THEN m ELSE 2 * f[n - 1]]
    <3>2. \A n \in 1..k : g[n] = f[n]
      BY <3>1
    <3>3. \A n \in 1..(k + 1) : n # 1 => n - 1 \in 1..k
      OBVIOUS
    <3>4. g \in [1..(k + 1) -> Nat]
      BY <1>3, <3>3
    <3>5. At(g, k + 1)
      BY <3>2, <3>3
    <3>6. k + 1 \in Nat
      OBVIOUS
    <3> HIDE DEF g, At
    <3>7. \E h \in [1..(k + 1) -> Nat] : At(h, k + 1)
      BY <3>4, <3>5
    <3> QED
      BY <3>6, <3>7
  <2> HIDE DEF T
  <2>3. T \in SUBSET Nat
    BY DEF T
  <2> QED
    BY <2>1, <2>2, <2>3, SetInduction
<1>5. PICK f \in [1..MaxXmit -> Nat] : At(f, MaxXmit)
  BY <1>1, <1>4
<1> DEFINE R(h) == h = [n \in 1..MaxXmit |-> IF n = 1 THEN m ELSE 2 * h[n - 1]]
<1>6. R(f)
  BY <1>5
<1>7. R(CHOOSE h : R(h))
  <2> HIDE DEF R
  <2> QED
    BY <1>6
<1>8. R(MaxRtoAt)
  BY <1>7 DEF MaxRtoAt, m
<1>9. At(MaxRtoAt, MaxXmit)
  BY <1>8
<1>10. \A n \in 1..MaxXmit : MaxRtoAt[n] \in Nat
  <2> DEFINE U == {n \in Nat : n \in 1..MaxXmit => MaxRtoAt[n] \in Nat}
  <2>1. U \in SUBSET Nat /\ 0 \in U
    OBVIOUS
  <2>2. ASSUME NEW n \in U
        PROVE  n + 1 \in U
    <3>1. SUFFICES ASSUME n + 1 \in 1..MaxXmit
                   PROVE  MaxRtoAt[n + 1] \in Nat
      OBVIOUS
    <3>2. MaxRtoAt[n + 1] = IF n + 1 = 1 THEN m ELSE 2 * MaxRtoAt[(n + 1) - 1]
      BY <1>9, <3>1
    <3>3. n \in Nat /\ (n + 1) - 1 = n /\ (n + 1 # 1 => n \in 1..MaxXmit)
      BY <1>1, <3>1
    <3>4. n + 1 # 1 => MaxRtoAt[n] \in Nat
      BY <3>3
    <3> QED
      BY <1>3, <3>2, <3>3, <3>4
  <2>3. U = Nat
    <3> HIDE DEF U
    <3> QED
      BY <2>1, <2>2, SetInduction
  <2> QED
    BY <2>3
<1>11. MaxRtoAt[1] = m
  BY <1>1, <1>9
<1> QED
  BY <1>1, <1>2, <1>9, <1>10, <1>11

LEMMA MaxRtoGrows ==
    ASSUME NEW r \in Rtos, NEW n \in 1..MaxXmit
    PROVE  r <= MaxRtoAt[n] /\ MaxRtoAt[n] \in Nat
<1>1. MaxXmit \in Nat \ {0} /\ r \in Nat /\ r <= MaxRtoAt[1]
  BY ClockAssumption, MaxRtoDoubles
<1> DEFINE U == {k \in Nat : k \in 1..MaxXmit => r <= MaxRtoAt[k]}
<1>2. U \in SUBSET Nat /\ 0 \in U
  OBVIOUS
<1>3. ASSUME NEW k \in U
      PROVE  k + 1 \in U
  <2>1. SUFFICES ASSUME k + 1 \in 1..MaxXmit
                 PROVE  r <= MaxRtoAt[k + 1]
    OBVIOUS
  <2>2. CASE k = 0
    BY <1>1, <2>2
  <2>3. CASE k # 0
    <3>1. k \in 1..MaxXmit /\ k + 1 # 1 /\ (k + 1) - 1 = k
      BY <1>1, <2>1, <2>3
    <3>2. MaxRtoAt[k + 1] = 2 * MaxRtoAt[(k + 1) - 1] /\ MaxRtoAt[k] \in Nat
          /\ r <= MaxRtoAt[k]
      BY <2>1, <3>1, MaxRtoDoubles
    <3> QED
      BY <1>1, <3>1, <3>2
  <2> QED
    BY <2>2, <2>3
<1>4. U = Nat
  <2> HIDE DEF U
  <2> QED
    BY <1>2, <1>3, SetInduction
<1> QED
  BY <1>4, MaxRtoDoubles

LEMMA MaxRtoIsMost ==
    ASSUME NEW r \in Rtos
    PROVE  MaxRto \in Nat /\ \A n \in 1..MaxXmit : MaxRtoAt[n] <= MaxRto
<1>1. MaxXmit \in Nat \ {0}
  BY ClockAssumption
<1> DEFINE U == {k \in Nat : k \in 0..(MaxXmit - 1) => MaxRtoAt[MaxXmit - k] <= MaxRto}
<1>2. MaxRto = MaxRtoAt[MaxXmit] /\ MaxRto \in Nat
  BY <1>1, MaxRtoDoubles DEF MaxRto
<1>3. U \in SUBSET Nat /\ 0 \in U
  BY <1>1, <1>2
<1>4. ASSUME NEW k \in U
      PROVE  k + 1 \in U
  <2>1. SUFFICES ASSUME k + 1 \in 0..(MaxXmit - 1)
                 PROVE  MaxRtoAt[MaxXmit - (k + 1)] <= MaxRto
    OBVIOUS
  <2>2. MaxXmit - k \in 1..MaxXmit /\ MaxXmit - k # 1 /\ MaxXmit - (k + 1) \in 1..MaxXmit
        /\ MaxXmit - (k + 1) = (MaxXmit - k) - 1 /\ k \in 0..(MaxXmit - 1)
    BY <1>1, <2>1
  <2>3. MaxRtoAt[MaxXmit - k] = 2 * MaxRtoAt[MaxXmit - (k + 1)]
        /\ MaxRtoAt[MaxXmit - (k + 1)] \in Nat /\ MaxRtoAt[MaxXmit - k] <= MaxRto
    BY <2>2, MaxRtoDoubles
  <2> QED
    BY <1>2, <2>3
<1>5. U = Nat
  <2> HIDE DEF U
  <2> QED
    BY <1>3, <1>4, SetInduction
<1>6. ASSUME NEW n \in 1..MaxXmit
      PROVE  MaxRtoAt[n] <= MaxRto
  <2>1. MaxXmit - n \in Nat /\ MaxXmit - n \in 0..(MaxXmit - 1)
        /\ MaxXmit - (MaxXmit - n) = n
    BY <1>1
  <2>2. MaxXmit - n \in U
    BY <1>5, <2>1
  <2> QED
    BY <2>1, <2>2
<1> QED
  BY <1>2, <1>6

\* No timer is ever half the range away.
LEMMA Sizes ==
    ASSUME NEW n \in Intervals, NEW r \in Rtos
    PROVE  /\ Reserve \in Nat /\ Slack \in Nat \ {0} /\ SlapLimit \in Nat
           /\ ProbeInit \in Nat \ {0} /\ ProbeLimit \in Nat /\ ProbeInit <= ProbeLimit
           /\ LongestRto + Reserve < Half
           /\ ProbeLimit + Reserve < Half
           /\ SlapLimit + Reserve < Half
<1>1. /\ Slack \in Nat \ {0} /\ SlapLimit \in Nat
      /\ ProbeInit \in Nat \ {0} /\ ProbeLimit \in Nat /\ ProbeInit <= ProbeLimit
  BY ClockAssumption
<1> DEFINE rto == MaxRto + MaxRto \div 8
           W == {rto, ProbeLimit, SlapLimit}
<1>2. rto \in Nat
  BY MaxRtoIsMost
<1>3. Longest \in Nat /\ Farthest \in Nat
  BY IntervalsBounded, JumpsBounded
<1>4. Max(W) + Longest + Slack + Farthest < Half
  BY ClockAssumption DEF Farthest, Half
<1> HIDE DEF rto
<1>5. Max(W) \in W /\ \A x \in W : x <= Max(W)
  <2>1. W \in SUBSET Int /\ rto + ProbeLimit + SlapLimit \in Int
        /\ \A x \in W : x <= rto + ProbeLimit + SlapLimit
    BY <1>1, <1>2
  <2> DEFINE b == rto + ProbeLimit + SlapLimit
  <2> HIDE DEF b
  <2>2. W \in SUBSET Int /\ W # {} /\ b \in Int /\ \A x \in W : x <= b
    BY <2>1 DEF b
  <2> HIDE DEF W
  <2> QED
    BY <2>2, MaxIs
<1>6. Half \in Nat
  BY Halves
<1>7. rto <= Max(W) /\ ProbeLimit <= Max(W) /\ SlapLimit <= Max(W) /\ Max(W) \in Nat
  BY <1>1, <1>2, <1>5
<1> HIDE DEF W
<1>8. rto + Reserve < Half /\ ProbeLimit + Reserve < Half /\ SlapLimit + Reserve < Half
      /\ Reserve \in Nat
  BY <1>1, <1>2, <1>3, <1>4, <1>6, <1>7 DEF Reserve
<1> QED
  BY <1>1, <1>8 DEF rto, LongestRto

LEMMA Room ==
    ASSUME TypeOK
    PROVE  /\ Half \in Nat /\ Farthest \in Nat /\ Slack \in Nat \ {0}
              /\ Longest \in Nat \ {0}
           /\ ProbeInit \in Nat \ {0} /\ ProbeLimit \in Nat /\ ProbeInit <= ProbeLimit
           /\ SlapLimit \in Nat /\ LongestRto \in Nat /\ Reserve \in Nat
           /\ Reserve = Longest + Slack + Farthest
           /\ LongestRto + Reserve < Half
           /\ ProbeLimit + Reserve < Half
           /\ SlapLimit + Reserve < Half
<1>1. MaxRto \in Nat
  BY MaxRtoIsMost DEF TypeOK
<1>2. LongestRto \in Nat
  BY <1>1 DEF LongestRto
<1>3. Half \in Nat /\ Farthest \in Nat /\ Longest \in Nat \ {0}
  BY Halves, JumpsBounded, IntervalsBounded DEF TypeOK
<1> QED
  BY <1>2, <1>3, Sizes DEF TypeOK, Reserve
------------------------------------------------------------------------------
(* Where the timers stand.                                                 *)

LEMMA Offsets ==
    ASSUME TypeOK
    PROVE  /\ jump \in Int /\ -Farthest <= jump /\ jump <= Farthest /\ Farthest \in Nat
           /\ SetBack = (IF jump < 0 THEN -jump ELSE 0)
           /\ SetAhead = (IF jump < 0 THEN 0 ELSE jump)
           /\ Min({SetBack, SlapLimit + Slack}) \in Nat
           /\ Min({SetBack, SlapLimit + Slack}) <= SetBack
           /\ Min({SetBack, SlapLimit + Slack}) <= SlapLimit + Slack
           /\ Min({SetBack, SlapLimit + Slack}) \in {SetBack, SlapLimit + Slack}
<1>1. jump \in Int /\ -Farthest <= jump /\ jump <= Farthest /\ Farthest \in Nat
      /\ -jump \in Int
  BY JumpsBounded DEF TypeOK
<1>2. SetBack = (IF 0 <= -jump THEN -jump ELSE 0)
      /\ SetAhead = (IF 0 <= jump THEN jump ELSE 0)
  BY <1>1, MaxOfTwo DEF SetBack, SetAhead
<1>3. SetBack = (IF jump < 0 THEN -jump ELSE 0) /\ SetAhead = (IF jump < 0 THEN 0 ELSE jump)
  BY <1>1, <1>2
<1>4. SetBack \in Nat /\ SlapLimit + Slack \in Nat
  BY <1>1, <1>3, ClockAssumption
<1>5. Min({SetBack, SlapLimit + Slack})
          = IF SetBack <= SlapLimit + Slack THEN SetBack ELSE SlapLimit + Slack
  BY <1>4, MinOfTwo
<1> QED
  BY <1>1, <1>3, <1>4, <1>5

LEMMA UntilIsInt ==
    ASSUME TypeOK, NEW t \in Times
    PROVE  Until(t) \in Int /\ Until(t) \in (-Half)..(Half - 1) /\ Half \in Nat \ {0}
<1>1. now \in Int /\ t \in Int /\ Half \in Nat \ {0} /\ ClockRange # 0
  BY Halves DEF TypeOK, Times
<1>2. Itimediff(t, now) \in (-Half)..(Half - 1)
  BY <1>1, DiffHas, Zenon
<1> QED
  BY <1>1, <1>2 DEF Until

\* The next flush is not far away, and the last one not long ago.
LEMMA FlushNear ==
    ASSUME IInv, updated
    PROVE  /\ Until(tsFlush) \in Int
           /\ -(Slack + Farthest) <= Until(tsFlush)
           /\ Until(tsFlush) <= Longest + Farthest
           /\ idle <= Longest + Slack + Min({SetBack, SlapLimit + Slack})
           /\ FlushedSinceSet => idle <= Longest + Slack
           /\ jump = 0 => Until(tsFlush) <= Longest
<1>1. TypeOK /\ (SetSinceFlush \/ FlushedSinceSet)
  BY DEF IInv
<1> DEFINE u == Until(tsFlush)
           m == Min({SetBack, SlapLimit + Slack})
<1>2. u \in Int /\ left \in Int /\ -Slack <= left /\ idle \in Nat /\ Slack \in Nat
      /\ Longest \in Nat
      /\ m \in Nat /\ m <= SetBack /\ jump \in Int /\ Farthest \in Nat
      /\ -Farthest <= jump /\ jump <= Farthest /\ SetBack = (IF jump < 0 THEN -jump ELSE 0)
  BY <1>1, Offsets, UntilIsInt, IntervalsBounded, ClockAssumption DEF TypeOK
<1>3. \/ left <= u + jump /\ idle + u + jump <= Longest
      \/ left <= u /\ idle + u <= Longest + m
  BY <1>1, <1>2 DEF SetSinceFlush, FlushedSinceSet, FlushSet, FlushDelayed
<1>4. FlushedSinceSet => left <= u /\ idle + u <= Longest
  BY <1>2 DEF FlushedSinceSet, FlushSet
<1> HIDE DEF u, m
<1>5. /\ -(Slack + Farthest) <= u /\ u <= Longest + Farthest
      /\ idle <= Longest + Slack + m /\ (jump = 0 => u <= Longest)
  BY <1>2, <1>3
<1>6. FlushedSinceSet => idle <= Longest + Slack
  BY <1>2, <1>4
<1> QED
  BY <1>2, <1>5, <1>6 DEF u, m

\* No time out is far away.
LEMMA SegNear ==
    ASSUME IInv, updated, NEW s \in DOMAIN sndBuf
    PROVE  /\ Until(sndBuf[s].resendts) \in Int
           /\ -Reserve < Until(sndBuf[s].resendts)
           /\ Until(sndBuf[s].resendts) <= LongestRto + Farthest
           /\ jump = 0 => /\ -(Longest + Slack) < Until(sndBuf[s].resendts)
                          /\ Until(sndBuf[s].resendts) <= LongestRto
<1>1. TypeOK /\ (SetSinceFlush \/ FlushedSinceSet)
  BY DEF IInv
<1> DEFINE u == Until(sndBuf[s].resendts)
           m == Min({SetBack, SlapLimit + Slack})
           seg == sndBuf[s]
<1>2. seg \in Segment
  BY <1>1 DEF TypeOK
<1>3. u \in Int /\ idle \in Nat /\ Slack \in Nat /\ Longest \in Nat
      /\ m \in Nat /\ m <= SetBack /\ jump \in Int /\ Farthest \in Nat
      /\ -Farthest <= jump /\ jump <= Farthest /\ SetBack = (IF jump < 0 THEN -jump ELSE 0)
      /\ seg.rto \in Nat /\ seg.age \in Nat /\ seg.rto <= MaxRto /\ MaxRto \in Nat
  <2>1. /\ seg.resendts \in Times /\ seg.rto \in Nat /\ seg.age \in Nat
           /\ seg.xmit \in 1..MaxXmit
    BY <1>2 DEF Segment
  <2>2. seg.rto <= MaxRtoAt[seg.xmit]
    BY DEF IInv, Bounded
  <2>3. MaxRtoAt[seg.xmit] <= MaxRto /\ MaxRtoAt[seg.xmit] \in Nat /\ MaxRto \in Nat
    BY <1>1, <2>1, MaxRtoIsMost, MaxRtoDoubles DEF TypeOK
  <2>4. seg.rto <= MaxRto
    BY <2>1, <2>2, <2>3
  <2>5. u \in Int /\ Longest \in Nat /\ Slack \in Nat /\ idle \in Nat
    BY <1>1, <2>1, UntilIsInt, IntervalsBounded, ClockAssumption DEF TypeOK
  <2> HIDE DEF u, m, seg
  <2>6. /\ m \in Nat /\ m <= SetBack /\ jump \in Int /\ Farthest \in Nat
        /\ -Farthest <= jump /\ jump <= Farthest
           /\ SetBack = (IF jump < 0 THEN -jump ELSE 0)
    BY <1>1, Offsets DEF m
  <2> QED
    BY <2>1, <2>3, <2>4, <2>5, <2>6
<1>4. PICK o \in {0, jump}, p \in {0, jump}, t \in {seg.rto, seg.rto + seg.rto \div 8} :
          /\ u = t - seg.age - o /\ u + p + idle > 0
          /\ p = jump \/ FlushedSinceSet
  <2>1. CASE SetSinceFlush
    BY <2>1 DEF SetSinceFlush, TimersSet, SegSet
  <2>2. CASE FlushedSinceSet
    BY <2>2 DEF FlushedSinceSet, TimersSet, SegSet
  <2> QED
    BY <1>1, <2>1, <2>2
<1>5. idle <= Longest + Slack + m /\ (FlushedSinceSet => idle <= Longest + Slack)
  BY FlushNear
<1> HIDE DEF u, m, seg
<1>6. t \in Nat /\ t <= LongestRto /\ LongestRto \in Nat
  BY <1>3 DEF LongestRto
<1>7. u <= LongestRto + Farthest /\ (jump = 0 => u <= LongestRto)
  BY <1>3, <1>4, <1>6
<1>8. -Reserve < u /\ (jump = 0 => -(Longest + Slack) < u)
  BY <1>3, <1>4, <1>5 DEF Reserve
<1> QED
  BY <1>3, <1>7, <1>8 DEF u

\* Nor is the next probe.
LEMMA ProbeNear ==
    ASSUME IInv, updated, probeWait # 0
    PROVE  /\ Until(tsProbe) \in Int
           /\ -Reserve < Until(tsProbe)
           /\ Until(tsProbe) <= ProbeLimit + Farthest
           /\ jump = 0 => -(Longest + Slack) < Until(tsProbe)
              /\ Until(tsProbe) <= ProbeLimit
<1>1. TypeOK /\ (SetSinceFlush \/ FlushedSinceSet)
  BY DEF IInv
<1> DEFINE u == Until(tsProbe)
           m == Min({SetBack, SlapLimit + Slack})
<1>2. u \in Int /\ idle \in Nat /\ Slack \in Nat /\ Longest \in Nat
      /\ m \in Nat /\ m <= SetBack /\ jump \in Int /\ Farthest \in Nat
      /\ -Farthest <= jump /\ jump <= Farthest /\ SetBack = (IF jump < 0 THEN -jump ELSE 0)
      /\ probeWait \in Nat /\ probeWait <= ProbeLimit /\ armed \in Nat
         /\ ProbeLimit \in Nat
  <2>1. u \in Int /\ Longest \in Nat /\ Slack \in Nat /\ idle \in Nat /\ armed \in Nat
        /\ probeWait \in Nat /\ probeWait <= ProbeLimit /\ ProbeLimit \in Nat
    BY <1>1, UntilIsInt, IntervalsBounded, ClockAssumption DEF TypeOK
  <2> HIDE DEF u
  <2>2. /\ m \in Nat /\ m <= SetBack /\ jump \in Int /\ Farthest \in Nat
        /\ -Farthest <= jump /\ jump <= Farthest
           /\ SetBack = (IF jump < 0 THEN -jump ELSE 0)
    BY <1>1, Offsets
  <2> QED
    BY <2>1, <2>2
<1>3. PICK o \in {0, jump}, p \in {0, jump} :
          /\ u <= probeWait - armed - o /\ u + p + idle > 0
          /\ p = jump \/ FlushedSinceSet
  <2>1. CASE SetSinceFlush
    BY <2>1 DEF SetSinceFlush, TimersSet, ProbeSet
  <2>2. CASE FlushedSinceSet
    BY <2>2 DEF FlushedSinceSet, TimersSet, ProbeSet
  <2> QED
    BY <1>1, <2>1, <2>2
<1>4. idle <= Longest + Slack + m /\ (FlushedSinceSet => idle <= Longest + Slack)
  BY FlushNear
<1> HIDE DEF u, m
<1>5. -Reserve < u /\ (jump = 0 => -(Longest + Slack) < u)
  BY <1>2, <1>3, <1>4 DEF Reserve
<1>6. u <= ProbeLimit + Farthest /\ (jump = 0 => u <= ProbeLimit)
  BY <1>2, <1>3
<1> QED
  BY <1>2, <1>5, <1>6 DEF u
------------------------------------------------------------------------------
(* As time passes: the clock goes on by a, and is set by c.                *)

LEMMA SegMoves ==
    ASSUME TypeOK, NEW s \in DOMAIN sndBuf \cap DOMAIN sndBuf',
           NEW a \in Nat, NEW c \in Int, NEW o \in Int, NEW p \in Int,
           now' = After(now, a + c), idle' = idle + a,
           sndBuf'[s].resendts = sndBuf[s].resendts, sndBuf'[s].rto = sndBuf[s].rto,
           sndBuf'[s].age = sndBuf[s].age + a,
           Until(sndBuf[s].resendts) - (a + c) \in (-Half)..(Half - 1),
           SegSet(s, o, p)
    PROVE  SegSet(s, o + c, p + c)'
<1> DEFINE seg == sndBuf[s]
           u == Until(seg.resendts)
           v == Itimediff(sndBuf'[s].resendts, now')
<1>1. seg \in Segment /\ now \in Times /\ idle \in Nat
  BY DEF TypeOK
<1>2. seg.resendts \in Times /\ seg.rto \in Nat /\ seg.age \in Nat
  BY <1>1 DEF Segment
<1>3. v = u - (a + c)
  <2>1. a + c \in Int
    OBVIOUS
  <2> QED
    BY <1>1, <1>2, <2>1, ClockGoesOn DEF Until
<1>4. u \in Int
  BY <1>2, UntilIsInt
<1>5. PICK t \in {seg.rto, seg.rto + seg.rto \div 8} : u = t - seg.age - o
           /\ u + p + idle > 0
  BY DEF SegSet
<1>6. t \in Int
  BY <1>2
<1> HIDE DEF u, v
<1>7. v = t - (seg.age + a) - (o + c) /\ v + (p + c) + (idle + a) > 0
  BY <1>1, <1>2, <1>3, <1>4, <1>5, <1>6
<1> HIDE DEF seg
<1>8. \E x \in {sndBuf'[s].rto, sndBuf'[s].rto + sndBuf'[s].rto \div 8} :
         v = x - sndBuf'[s].age - (o + c)
  BY <1>5, <1>7 DEF seg
<1> QED
  BY <1>7, <1>8 DEF SegSet, Until, v

\* How long a closed window may go unnoticed does not shrink when the clock is set.
LEMMA UnnoticedGrows ==
    ASSUME TypeOK, NEW c \in Int, NEW o \in Int,
           (c = 0 /\ jump' = jump) \/ jump = 0, jump' \in Jumps \cup {0}
    PROVE  /\ Unnoticed(o) \in Nat /\ Unnoticed(o + c)' \in Nat
           /\ Unnoticed(o) <= Unnoticed(o + c)'
<1> DEFINE m == Min({SetBack, SlapLimit + Slack})
           n == Min({SetBack', SlapLimit + Slack})
<1>1. /\ Longest \in Nat /\ Slack \in Nat /\ m \in Nat /\ m <= SetBack
      /\ SetBack = (IF jump < 0 THEN -jump ELSE 0)
      /\ SlapLimit + Slack \in Nat
  BY Offsets, Room
<1>2. n \in Nat
  <2>1. jump' \in Int /\ -jump' \in Int
    BY JumpsBounded
  <2>2. PICK back \in Int : back = -jump'
    BY <2>1
  <2>3. SetBack' \in Nat
    <3>1. SetBack' = Max({0, back})
      BY <2>2 DEF SetBack
    <3>2. Max({0, back}) = IF 0 <= back THEN back ELSE 0
      BY <2>2, MaxOfTwo
    <3> QED
      BY <2>2, <3>1, <3>2
  <2>4. n = IF SetBack' <= SlapLimit + Slack THEN SetBack' ELSE SlapLimit + Slack
    BY <1>1, <2>3, MinOfTwo
  <2> QED
    BY <1>1, <2>3, <2>4
<1>3. Unnoticed(o) = Longest + Slack + (IF o = 0 THEN m ELSE 0)
  BY DEF Unnoticed
<1>4. Unnoticed(o + c)' = Longest + Slack + (IF o + c = 0 THEN n ELSE 0)
  BY DEF Unnoticed
<1>5. jump' = jump => n = m
  BY DEF SetBack
<1>6. jump \in Int
  BY Offsets
<1> HIDE DEF m, n
<1>7. CASE c = 0 /\ jump' = jump
  BY <1>1, <1>2, <1>3, <1>4, <1>5, <1>7
<1>8. CASE jump = 0
  <2>1. m = 0
    BY <1>1, <1>6, <1>8
  <2> QED
    BY <1>1, <1>2, <1>3, <1>4, <2>1
<1> QED
  BY <1>7, <1>8

\* The window stays closed for a, or is open or newly closed.
ClosedFor(a) == \/ armed' = armed + a /\ silent' = silent + a
                \/ armed' = 0 /\ silent' = 0

LEMMA ProbeMoves ==
    ASSUME TypeOK,
           NEW a \in Nat, NEW c \in Int, NEW o \in Int, NEW p \in Int,
           now' = After(now, a + c), idle' = idle + a,
           tsProbe' = tsProbe, probeWait' = probeWait, ClosedFor(a),
           (c = 0 /\ jump' = jump) \/ jump = 0, jump' \in Jumps \cup {0},
           probeWait # 0 => Until(tsProbe) - (a + c) \in (-Half)..(Half - 1),
           ProbeSet(o, p)
    PROVE  ProbeSet(o + c, p + c)'
<1> SUFFICES ASSUME probeWait # 0
             PROVE  /\ Until(tsProbe)' <= probeWait - armed' - (o + c)
                    /\ Until(tsProbe)' + (p + c) + (idle + a) > 0
                    /\ silent' <= armed' + Unnoticed(o + c)'
  BY DEF ProbeSet
<1>1. tsProbe \in Times /\ now \in Times /\ idle \in Nat /\ armed \in Nat
      /\ probeWait \in Nat /\ silent \in Nat
  BY DEF TypeOK
<1>0. armed' \in Nat /\ armed' <= armed + a /\ silent' \in Nat
  BY <1>1 DEF ClosedFor
<1>5. silent' <= armed' + Unnoticed(o + c)'
  <2>1. Unnoticed(o) \in Nat /\ Unnoticed(o + c)' \in Nat /\ Unnoticed(o) <= Unnoticed(o + c)'
    BY UnnoticedGrows
  <2>2. silent <= armed + Unnoticed(o)
    BY DEF ProbeSet
  <2> QED
    BY <1>1, <2>1, <2>2 DEF ClosedFor
<1>2. Until(tsProbe)' = Until(tsProbe) - (a + c)
  <2>1. a + c \in Int
    OBVIOUS
  <2> QED
    BY <1>1, <2>1, ClockGoesOn DEF Until
<1>3. Until(tsProbe) \in Int
  BY <1>1, UntilIsInt
<1>4. Until(tsProbe) <= probeWait - armed - o /\ Until(tsProbe) + p + idle > 0
  BY DEF ProbeSet
<1>6. /\ Until(tsProbe)' <= probeWait - armed' - (o + c)
      /\ Until(tsProbe)' + (p + c) + (idle + a) > 0
  BY <1>0, <1>1, <1>2, <1>3, <1>4
<1> QED
  BY <1>5, <1>6

LEMMA FlushMoves ==
    ASSUME TypeOK, NEW n \in Int, now' = After(now, n), tsFlush' = tsFlush,
           Until(tsFlush) - n \in (-Half)..(Half - 1)
    PROVE  Until(tsFlush)' = Until(tsFlush) - n
<1>1. tsFlush \in Times /\ now \in Times
  BY DEF TypeOK
<1> QED
  BY <1>1, ClockGoesOn DEF Until
\* What all timers keep while the clock just goes on, whatever is acknowledged.
LEMMA TimePasses ==
    ASSUME IInv, updated, NEW a \in {0, 1},
           now' = After(now, a), idle' = idle + a, jump' = jump,
           DOMAIN sndBuf' \subseteq DOMAIN sndBuf,
           \A s \in DOMAIN sndBuf' :
               /\ sndBuf'[s].resendts = sndBuf[s].resendts
               /\ sndBuf'[s].rto = sndBuf[s].rto
               /\ sndBuf'[s].age = sndBuf[s].age + a,
           tsProbe' = tsProbe, probeWait' = probeWait,
           ClosedFor(a),
           NEW offs \in SUBSET Int, NEW p \in Int, TimersSet(offs, p)
    PROVE  TimersSet(offs, p)'
<1>1. TypeOK /\ a + 0 = a /\ a \in Nat /\ \A x \in Int : x + 0 = x
  BY DEF IInv
<1>2. /\ Half \in Nat /\ Reserve \in Nat /\ LongestRto \in Nat /\ ProbeLimit \in Nat
         /\ Farthest \in Nat
      /\ Reserve < Half /\ LongestRto + Farthest < Half /\ ProbeLimit + Farthest < Half
  <2>1. TypeOK
    BY <1>1
  <2> QED
    BY <2>1, Room
<1>3. ASSUME NEW s \in DOMAIN sndBuf'
      PROVE  \E o \in offs : SegSet(s, o, p)'
  <2>1. s \in DOMAIN sndBuf \cap DOMAIN sndBuf'
    OBVIOUS
  <2>2. PICK o \in offs : SegSet(s, o, p)
    BY <2>1 DEF TimersSet
  <2>3. Until(sndBuf[s].resendts) - (a + 0) \in (-Half)..(Half - 1)
    <3> DEFINE u == Until(sndBuf[s].resendts)
    <3>1. u \in Int /\ -Reserve < u /\ u <= LongestRto + Farthest
      BY <2>1, SegNear
    <3> HIDE DEF u
    <3>2. u - (a + 0) \in (-Half)..(Half - 1)
      BY <1>2, <3>1
    <3> QED
      BY <3>2 DEF u
  <2>4. SegSet(s, o + 0, p + 0)'
    <3>1. now' = After(now, a + 0) /\ 0 \in Int /\ o \in Int
      BY <1>1
    <3> QED
      BY <1>1, <2>1, <2>2, <2>3, <3>1, SegMoves
  <2>5. o + 0 = o /\ p + 0 = p
    OBVIOUS
  <2> QED
    BY <2>4, <2>5
<1>4. \E o \in offs : ProbeSet(o, p)'
  <2>1. PICK o \in offs : ProbeSet(o, p)
    BY DEF TimersSet
  <2>2. probeWait # 0 => Until(tsProbe) - (a + 0) \in (-Half)..(Half - 1)
    <3> SUFFICES ASSUME probeWait # 0
                 PROVE  Until(tsProbe) - (a + 0) \in (-Half)..(Half - 1)
      OBVIOUS
    <3>1. Until(tsProbe) \in Int /\ -Reserve < Until(tsProbe)
          /\ Until(tsProbe) <= ProbeLimit + Farthest
      BY ProbeNear
    <3> QED
      BY <1>2, <3>1
  <2>3. ProbeSet(o + 0, p + 0)'
    <3>1. now' = After(now, a + 0) /\ 0 \in Int /\ o \in Int
          /\ jump' \in Jumps \cup {0}
      BY <1>1, <2>1 DEF TypeOK
    <3> QED
      BY <1>1, <2>1, <2>2, <3>1, ProbeMoves
  <2>4. o + 0 = o /\ p + 0 = p
    <3>1. o \in Int /\ p \in Int
      BY <2>1
    <3> QED
      BY ONLY <3>1
  <2> QED
    BY <2>3, <2>4
<1> QED
  BY <1>3, <1>4 DEF TimersSet
------------------------------------------------------------------------------
(* What a flush does to the timers.                                        *)

\* A time out has at most doubled.
LEMMA BackoffDoubles ==
    ASSUME TypeOK, NEW n \in 1..MaxXmit, n < MaxXmit,
           NEW rto \in Nat \ {0}, rto <= MaxRtoAt[n]
    PROVE  Backoff(rto) \in Nat \ {0} /\ Backoff(rto) <= MaxRtoAt[n + 1]
<1> DEFINE m == MaxRtoAt[n]
<1>1. MaxXmit \in Nat /\ n \in Nat /\ n + 1 \in 1..MaxXmit /\ n + 1 # 1 /\ (n + 1) - 1 = n
  BY ClockAssumption
<1>2. rxRto \in Nat /\ rxRto <= m /\ m \in Nat
  BY MaxRtoGrows, MaxRtoDoubles DEF TypeOK
<1>3. MaxRtoAt[n + 1] = 2 * m
  BY <1>1, <1>2, MaxRtoDoubles DEF TypeOK
<1>4. Max({rto, rxRto}) \in {rto, rxRto}
  BY <1>2, MaxOfTwo
<1>5. rto \div 2 \in Nat /\ rto \div 2 <= rto /\ rxRto \div 2 \in Nat
      /\ rxRto \div 2 <= rxRto
  BY <1>2
<1>6. nodelay \in Nat
  BY ClockAssumption DEF TypeOK
<1> HIDE DEF m
<1>7. \E x \in Nat : Backoff(rto) = rto + x /\ x <= m
  <2>1. CASE nodelay = 0
    <3>1. Max({rto, rxRto}) \in Nat /\ Max({rto, rxRto}) <= m
      BY <1>2, <1>4 DEF m
    <3> QED
      BY <2>1, <3>1 DEF Backoff
  <2>2. CASE nodelay = 1
    <3>1. rto \div 2 \in Nat /\ rto \div 2 <= m
      BY <1>2, <1>5 DEF m
    <3> QED
      BY <2>2, <3>1 DEF Backoff
  <2>3. CASE nodelay # 0 /\ nodelay # 1
    <3>1. rxRto \div 2 \in Nat /\ rxRto \div 2 <= m
      BY <1>2, <1>5
    <3> QED
      BY <2>3, <3>1 DEF Backoff
  <2> QED
    BY <2>1, <2>2, <2>3
<1> QED
  BY <1>2, <1>3, <1>7 DEF m

\* A timer that is set now.
LEMMA SetNow ==
    ASSUME TypeOK, NEW n \in Nat, n < Half
    PROVE  After(now, n) \in Times /\ Until(After(now, n)) = n
<1>1. now \in Times /\ Half \in Nat
  BY Halves DEF TypeOK
<1>2. Itimediff(now, now) = 0
  BY <1>1, NoDistance
<1>3. Itimediff(now, now) + n \in (-Half)..(Half - 1) /\ n \in Int
  BY <1>1, <1>2
<1>4. Itimediff(After(now, n), now) = Itimediff(now, now) + n
  BY <1>1, <1>3, TimerIsSet
<1> QED
  BY <1>1, <1>2, <1>3, <1>4, AfterIs DEF Until

\* What is due, seen from the timer.
LEMMA DueIs ==
    ASSUME TypeOK, NEW t \in Times, -Half < Until(t)
    PROVE  Itimediff(now, t) = -Until(t) /\ Until(t) \in Int
<1>1. now \in Times /\ Until(t) \in Int
  BY UntilIsInt DEF TypeOK
<1>2. Itimediff(t, now) # -Half
  BY <1>1, UntilIsInt DEF Until
<1> QED
  BY <1>1, <1>2, Opposite DEF Until

LEMMA SegDueIs ==
    ASSUME IInv, updated, NEW s \in DOMAIN sndBuf
    PROVE  Due(s) <=> Until(sndBuf[s].resendts) <= 0
<1>1. TypeOK
  BY DEF IInv
<1>2. sndBuf[s] \in Segment
  BY <1>1 DEF TypeOK
<1>3. sndBuf[s].resendts \in Times
  BY <1>2 DEF Segment
<1>4. /\ Until(sndBuf[s].resendts) \in Int /\ -Reserve < Until(sndBuf[s].resendts)
      /\ Half \in Nat /\ Reserve \in Nat /\ Reserve < Half
  <2>1. Half \in Nat /\ Reserve \in Nat /\ Reserve < Half
    BY <1>1, Room
  <2> QED
    BY <2>1, SegNear
<1>5. -Half < Until(sndBuf[s].resendts)
  BY <1>4
<1>6. Itimediff(now, sndBuf[s].resendts) = -Until(sndBuf[s].resendts)
  BY <1>1, <1>3, <1>5, DueIs
<1> QED
  BY <1>4, <1>6 DEF Due

\* A segment sent now is timed correctly.
LEMMA SentNow ==
    ASSUME TypeOK, NEW rto \in Nat \ {0}, NEW n \in 1..MaxXmit, rto <= MaxRtoAt[n],
           NEW t \in {rto, rto + rto \div 8},
           NEW seg, seg = [resendts |-> After(now, t), rto |-> rto, xmit |-> n, age |-> 0]
    PROVE  /\ seg \in Segment /\ seg.rto <= MaxRtoAt[seg.xmit]
           /\ Until(seg.resendts) = t /\ 0 < t
<1>1. MaxRtoAt[n] <= MaxRto /\ MaxRtoAt[n] \in Nat /\ MaxRto \in Nat
  BY MaxRtoIsMost, MaxRtoDoubles DEF TypeOK
<1>2. LongestRto < Half /\ LongestRto \in Nat /\ Half \in Nat
  BY Room
<1>3. t \in Nat \ {0} /\ t <= LongestRto
  BY <1>1 DEF LongestRto
<1>4. t < Half
  BY <1>2, <1>3
<1>5. After(now, t) \in Times /\ Until(After(now, t)) = t
  BY <1>3, <1>4, SetNow
<1> QED
  BY <1>3, <1>5 DEF Segment
\* What ikcp_flush may send beside what is due.
MaySend(new, skipped) ==
    /\ new \in SUBSET (Segs \ DOMAIN sndBuf) /\ skipped \in SUBSET DOMAIN sndBuf
    /\ \A s \in skipped : sndBuf[s].xmit < MaxXmit

\* No segment of snd_buf is due; their times are right, or off by jump.
AllAhead(buf) ==
    /\ buf \in [DOMAIN buf -> Segment] /\ DOMAIN buf \subseteq Segs
    /\ \A s \in DOMAIN buf :
          /\ buf[s].rto <= MaxRtoAt[buf[s].xmit]
          /\ Until(buf[s].resendts) > 0
          /\ \E o \in {0, jump}, t \in {buf[s].rto, buf[s].rto + buf[s].rto \div 8} :
                Until(buf[s].resendts) = t - buf[s].age - o

\* After a flush every time out lies ahead.
LEMMA ResendKeeps ==
    ASSUME IInv, NEW new, NEW skipped, MaySend(new, skipped),
           NEW buf, buf = Resend(new, skipped)
    PROVE  AllAhead(buf)
<1> DEFINE Timed(seg) ==
              /\ seg \in Segment
              /\ seg.rto <= MaxRtoAt[seg.xmit]
              /\ Until(seg.resendts) > 0
              /\ \E o \in {0, jump}, t \in {seg.rto, seg.rto + seg.rto \div 8} :
                    Until(seg.resendts) = t - seg.age - o
<1>0. /\ new \in SUBSET (Segs \ DOMAIN sndBuf) /\ skipped \in SUBSET DOMAIN sndBuf
      /\ \A s \in skipped : sndBuf[s].xmit < MaxXmit
  BY DEF MaySend
<1>1. TypeOK /\ Bounded
  BY DEF IInv
<1>2. MaxXmit \in Nat \ {0} /\ jump \in Int
  BY <1>1, ClockAssumption, JumpsBounded DEF TypeOK
<1>3. ASSUME NEW rto \in Nat \ {0}, NEW n \in 1..MaxXmit, rto <= MaxRtoAt[n],
             NEW t \in {rto, rto + rto \div 8},
             NEW seg, seg = [resendts |-> After(now, t), rto |-> rto, xmit |-> n, age |-> 0]
      PROVE  Timed(seg)
  <2>1. seg \in Segment /\ seg.rto <= MaxRtoAt[seg.xmit] /\ Until(seg.resendts) = t /\ 0 < t
    BY <1>1, <1>3, SentNow
  <2>2. t = t - seg.age - 0 /\ seg.rto = rto /\ t \in Int
    BY <1>3
  <2> QED
    BY <2>1, <2>2
<1>4. Timed(First)
  <2>1. rxRto \in Nat \ {0} /\ rxRto <= MaxRtoAt[1]
    BY <1>1, MaxRtoDoubles DEF TypeOK
  <2>2. rxRto + (IF nodelay = 0 THEN rxRto \div 8 ELSE 0) \in {rxRto, rxRto + rxRto \div 8}
    BY <2>1
  <2>3. 1 \in 1..MaxXmit
    BY <1>2
  <2> HIDE DEF Timed
  <2> QED
    BY <1>3, <2>1, <2>2, <2>3 DEF First
<1>5. ASSUME NEW s \in DOMAIN sndBuf, sndBuf[s].xmit < MaxXmit,
             NEW rto \in {sndBuf[s].rto, Backoff(sndBuf[s].rto)}
      PROVE  Timed(Again(sndBuf[s], rto))
  <2> DEFINE n == sndBuf[s].xmit
             r == sndBuf[s].rto
  <2>1. sndBuf[s] \in Segment /\ r <= MaxRtoAt[n]
    BY <1>1 DEF TypeOK, Bounded
  <2>2. n \in 1..MaxXmit /\ r \in Nat \ {0}
    BY <2>1 DEF Segment
  <2> HIDE DEF n, r
  <2>3. n < MaxXmit
    BY <1>5 DEF n
  <2>4. n + 1 \in 1..MaxXmit /\ n + 1 # 1 /\ (n + 1) - 1 = n
    BY <1>2, <2>2, <2>3
  <2>5. MaxRtoAt[n + 1] = 2 * MaxRtoAt[n] /\ MaxRtoAt[n] \in Nat
    BY <1>1, <2>2, <2>4, MaxRtoDoubles DEF TypeOK
  <2>6. r <= MaxRtoAt[n + 1]
    BY <2>1, <2>2, <2>5 DEF n, r
  <2>7. Backoff(r) \in Nat \ {0} /\ Backoff(r) <= MaxRtoAt[n + 1]
    BY <1>1, <2>1, <2>2, <2>3, BackoffDoubles DEF n, r
  <2>8. rto \in Nat \ {0} /\ rto <= MaxRtoAt[n + 1] /\ rto \in {rto, rto + rto \div 8}
    BY <2>2, <2>6, <2>7 DEF r
  <2> HIDE DEF Timed
  <2>9. Again(sndBuf[s], rto)
            = [resendts |-> After(now, rto), rto |-> rto, xmit |-> n + 1, age |-> 0]
    BY DEF Again, n
  <2> QED
    BY <1>3, <2>4, <2>8, <2>9
<1>6. ASSUME NEW s \in DOMAIN sndBuf, ~Due(s)
      PROVE  Timed(sndBuf[s])
  <2>1. updated /\ (SetSinceFlush \/ FlushedSinceSet)
    BY DEF IInv, NotStarted
  <2>2. sndBuf[s] \in Segment /\ sndBuf[s].rto <= MaxRtoAt[sndBuf[s].xmit]
    BY <1>1 DEF TypeOK, Bounded
  <2>3. Until(sndBuf[s].resendts) \in Int /\ Until(sndBuf[s].resendts) > 0
    BY <1>6, <2>1, SegDueIs, SegNear
  <2>4. \E o \in {0, jump}, t \in {sndBuf[s].rto, sndBuf[s].rto + sndBuf[s].rto \div 8} :
            Until(sndBuf[s].resendts) = t - sndBuf[s].age - o
    BY <2>1 DEF SetSinceFlush, FlushedSinceSet, TimersSet, SegSet
  <2> QED
    BY <2>2, <2>3, <2>4
<1>7. ASSUME NEW s \in DOMAIN sndBuf, Due(s)
      PROVE  sndBuf[s].xmit < MaxXmit
  <2>1. sndBuf[s] \in Segment /\ sndBuf[s].xmit # MaxXmit
    BY <1>1, <1>7 DEF TypeOK, Bounded, Exhausted
  <2>2. sndBuf[s].xmit \in 1..MaxXmit
    BY <2>1 DEF Segment
  <2> QED
    BY <1>2, <2>1, <2>2
<1> HIDE DEF Timed
<1>8. DOMAIN buf = DOMAIN sndBuf \cup new /\ DOMAIN buf \subseteq Segs
  BY <1>0, <1>1 DEF Resend, TypeOK
<1>9. ASSUME NEW s \in DOMAIN buf
      PROVE  Timed(buf[s])
  <2>1. CASE s \in new
    <3>1. buf[s] = First
      BY <1>8, <2>1 DEF Resend
    <3> QED
      BY <1>4, <3>1
  <2>2. CASE s \notin new /\ Due(s)
    <3>1. buf[s] = Again(sndBuf[s], Backoff(sndBuf[s].rto)) /\ s \in DOMAIN sndBuf
      BY <1>8, <2>2 DEF Resend
    <3> QED
      BY <1>5, <1>7, <2>2, <3>1
  <2>3. CASE s \notin new /\ ~Due(s) /\ s \in skipped
    <3>1. buf[s] = Again(sndBuf[s], sndBuf[s].rto) /\ s \in DOMAIN sndBuf
      BY <1>8, <2>3 DEF Resend
    <3> QED
      BY <1>0, <1>5, <2>3, <3>1
  <2>4. CASE s \notin new /\ ~Due(s) /\ s \notin skipped
    <3>1. buf[s] = sndBuf[s] /\ s \in DOMAIN sndBuf
      BY <1>8, <2>4 DEF Resend
    <3> QED
      BY <1>6, <2>4, <3>1
  <2> QED
    BY <2>1, <2>2, <2>3, <2>4
<1>10. \A s \in DOMAIN buf : buf[s] \in Segment
  BY <1>9 DEF Timed
<1>11. buf = [s \in DOMAIN buf |-> buf[s]]
  BY <1>8 DEF Resend
<1>12. buf \in [DOMAIN buf -> Segment]
  BY <1>10, <1>11
<1> QED
  BY <1>8, <1>9, <1>12 DEF Timed, AllAhead

\* The pause between probes stays within its limits.
LEMMA ProbeKeeps ==
    ASSUME IInv, Probe, UNCHANGED <<now, jump, closed>>, idle' = 0
    PROVE  /\ tsProbe' \in Times /\ probeWait' \in 0..ProbeLimit
           /\ armed' \in Nat /\ silent' \in Nat
           /\ probeWait' = 0 => armed' = 0 /\ silent' = 0
           /\ ProbeSet(0, 0)' \/ \E j \in {jump} : ProbeSet(j, 0)'
<1> DEFINE m == Min({SetBack, SlapLimit + Slack})
<1>1. TypeOK
  BY DEF IInv
<1>2. /\ probeWait \in Nat /\ probeWait <= ProbeLimit /\ armed \in Nat /\ tsProbe \in Times
      /\ ProbeInit \in Nat \ {0} /\ ProbeLimit \in Nat /\ ProbeInit <= ProbeLimit
      /\ ProbeLimit < Half /\ Half \in Nat /\ jump \in Int /\ closed \in BOOLEAN
      /\ silent \in Nat
  BY <1>1, Room, JumpsBounded DEF TypeOK
<1>6. Unnoticed(0)' = Longest + Slack + m /\ m \in Nat /\ Longest \in Nat /\ Slack \in Nat
  BY <1>1, Offsets, Room DEF Unnoticed, SetBack
<1> HIDE DEF m
<1>3. CASE ~closed
  <2>1. tsProbe' = 0 /\ probeWait' = 0 /\ armed' = 0 /\ silent' = 0
    BY <1>3 DEF Probe
  <2>2. 0 \in Times
    BY <1>1, Halves DEF TypeOK, Times
  <2> QED
    BY <1>2, <2>1, <2>2 DEF ProbeSet
\* A timer that is set runs for its pause.
<1>7. ASSUME NEW pause \in Nat \ {0}, pause <= ProbeLimit, SetProbe(pause),
             silent' \in Nat, silent' <= Longest + Slack + m
      PROVE  tsProbe' \in Times /\ ProbeSet(0, 0)'
  <2>1. probeWait' = pause /\ tsProbe' = After(now, pause) /\ armed' = 0
    BY <1>7 DEF SetProbe
  <2>2. After(now, pause) \in Times /\ Until(After(now, pause)) = pause
    <3>1. pause \in Nat /\ pause < Half
      BY <1>2, <1>7
    <3> QED
      BY <1>1, <3>1, SetNow
  <2>3. Itimediff(tsProbe', now') = pause
    BY <2>1, <2>2 DEF Until
  <2>4. silent' <= armed' + Unnoticed(0)'
    BY <1>6, <1>7, <2>1
  <2> QED
    BY <1>7, <2>1, <2>2, <2>3, <2>4 DEF ProbeSet, Until
<1>4. CASE closed /\ probeWait = 0
  <2>1. SetProbe(ProbeInit) /\ silent' = silent
    BY <1>4 DEF Probe
  <2>2. silent <= Longest + Slack + m
    <3>1. CASE updated
      <4>1. silent <= idle /\ idle \in Nat
        BY <1>1, <1>4 DEF IInv, TypeOK
      <4>2. idle <= Longest + Slack + m
        BY <3>1, FlushNear DEF m
      <4> QED
        BY <1>2, <1>6, <4>1, <4>2
    <3>2. CASE ~updated
      <4>1. silent = 0
        BY <3>2 DEF IInv, NotStarted
      <4> QED
        BY <1>6, <4>1
    <3> QED
      BY <3>1, <3>2
  <2>3. tsProbe' \in Times /\ ProbeSet(0, 0)'
    BY <1>2, <1>7, <2>1, <2>2
  <2> QED
    BY <1>2, <2>1, <2>3 DEF SetProbe
<1>8. CASE closed /\ probeWait # 0 /\ ProbeDue
  <2>1. SetProbe(Longer(probeWait)) /\ silent' = 0
    BY <1>8 DEF Probe, Ask
  <2>2. Longer(probeWait) \in Nat \ {0} /\ Longer(probeWait) <= ProbeLimit
    <3>1. probeWait + probeWait \div 2 \in Nat \ {0}
      BY <1>2, <1>8
    <3>2. Longer(probeWait) = IF probeWait + probeWait \div 2 <= ProbeLimit
                              THEN probeWait + probeWait \div 2 ELSE ProbeLimit
      BY <1>2, <3>1, MinOfTwo DEF Longer
    <3> QED
      BY <1>2, <3>1, <3>2
  <2>3. tsProbe' \in Times /\ ProbeSet(0, 0)'
    <3>1. silent' \in Nat /\ silent' <= Longest + Slack + m
      BY <1>6, <2>1
    <3> QED
      BY <1>7, <2>1, <2>2, <3>1
  <2> QED
    BY <1>2, <2>1, <2>2, <2>3 DEF SetProbe
<1>5. CASE closed /\ probeWait # 0 /\ ~ProbeDue
  <2>1. UNCHANGED <<tsProbe, probeWait, armed, silent>>
    BY <1>5 DEF Probe
  <2>2. updated /\ (SetSinceFlush \/ FlushedSinceSet)
    BY <1>5 DEF IInv, NotStarted
  <2>3. Until(tsProbe) \in Int /\ Until(tsProbe) > 0
    <3>1. Until(tsProbe) \in Int /\ -Reserve < Until(tsProbe)
      BY <1>5, <2>2, ProbeNear
    <3>2. Reserve \in Nat /\ Reserve < Half
      BY <1>1, Room
    <3>3. Itimediff(now, tsProbe) = -Until(tsProbe)
      BY <1>1, <1>2, <3>1, <3>2, DueIs
    <3> QED
      BY <1>5, <3>1, <3>3 DEF ProbeDue
  <2>4. \E o \in {0, jump} : Until(tsProbe) <= probeWait - armed - o
                             /\ silent <= armed + Unnoticed(o)
    BY <1>5, <2>2 DEF SetSinceFlush, FlushedSinceSet, TimersSet, ProbeSet
  <2>5. Itimediff(tsProbe', now') = Until(tsProbe)
    BY <2>1 DEF Until
  <2>6. PICK o \in {0, jump} : Until(tsProbe) <= probeWait - armed - o
                               /\ silent <= armed + Unnoticed(o)
    BY <2>4
  <2>7. Unnoticed(o)' = Unnoticed(o)
    BY DEF Unnoticed, SetBack
  <2>8. ProbeSet(o, 0)'
    BY <2>1, <2>3, <2>5, <2>6, <2>7 DEF ProbeSet, Until
  <2> QED
    BY <1>2, <1>5, <2>1, <2>6, <2>8
<1> QED
  BY <1>2, <1>3, <1>4, <1>5, <1>8

LEMMA BelievedIs ==
    ASSUME IInv, NEW due, due = IF updated THEN Believed(tsFlush) ELSE now
    PROVE  /\ due \in Times /\ Until(due) \in Int
           /\ -SlapLimit <= Until(due) /\ Until(due) <= SlapLimit
           /\ Itimediff(now, due) = -Until(due)
           /\ Until(due) > 0 => updated /\ due = tsFlush
<1>1. TypeOK
  BY DEF IInv
<1>2. /\ now \in Times /\ tsFlush \in Times /\ Half \in Nat /\ Reserve \in Nat
         /\ Reserve < Half
      /\ SlapLimit \in Nat
  BY <1>1, Room DEF TypeOK
<1>3. Until(now) = 0 /\ Itimediff(now, now) = 0
  BY <1>2, NoDistance DEF Until
<1>4. CASE due = now
  BY <1>2, <1>3, <1>4
<1>5. CASE due # now
  <2>1. updated /\ due = tsFlush /\ ~Unbelievable(Itimediff(now, tsFlush))
    BY <1>5 DEF Believed
  <2>2. Until(tsFlush) \in Int /\ -(Slack + Farthest) <= Until(tsFlush)
    BY <2>1, FlushNear
  <2>3. Slack + Farthest < Half /\ Slack \in Nat /\ Farthest \in Nat
    BY <1>1, Room
  <2>4. Itimediff(now, tsFlush) = -Until(tsFlush)
    BY <1>1, <1>2, <2>2, <2>3, DueIs
  <2>5. ~(-Until(tsFlush) >= SlapLimit) /\ ~(-Until(tsFlush) < -SlapLimit)
    BY <2>1, <2>4 DEF Unbelievable
  <2> QED
    BY <1>2, <2>1, <2>2, <2>4, <2>5
<1> QED
  BY <1>4, <1>5

\* The next flush is set within an interval.
LEMMA NextFlushIs ==
    ASSUME TypeOK, NEW due \in Times, Until(due) \in Int,
           -SlapLimit <= Until(due), Until(due) <= 0
    PROVE  /\ NextFlush(due) \in Times
           /\ Until(NextFlush(due)) \in Int
           /\ 0 < Until(NextFlush(due)) /\ Until(NextFlush(due)) <= interval
<1> DEFINE next == After(due, interval)
<1>1. /\ now \in Times /\ Half \in Nat /\ SlapLimit \in Nat /\ SlapLimit + Longest < Half
      /\ interval \in Nat \ {0} /\ interval <= Longest /\ Longest \in Nat
  <2>1. interval \in Nat \ {0} /\ interval <= Longest /\ Longest \in Nat
    BY IntervalsBounded DEF TypeOK
  <2> QED
    BY <2>1, Room DEF TypeOK
<1>2. next \in Times
  BY <1>1, AfterIs
<1>3. Until(next) = Until(due) + interval
  <2>1. Until(due) + interval \in (-Half)..(Half - 1) /\ interval \in Int
    BY <1>1
  <2> QED
    BY <1>1, <2>1, TimerIsSet DEF Until
<1>4. Itimediff(now, next) = -Until(next)
  <2>1. -Half < Until(next)
    BY <1>1, <1>3
  <2> QED
    BY <1>2, <2>1, DueIs
<1>5. After(now, interval) \in Times /\ Until(After(now, interval)) = interval
  <2>1. interval \in Nat /\ interval < Half
    BY <1>1
  <2> QED
    BY <2>1, SetNow
<1>6. NextFlush(due) = IF -Until(next) >= 0 THEN After(now, interval) ELSE next
  BY <1>4 DEF NextFlush
<1> HIDE DEF next
<1>7. CASE -Until(next) >= 0
  BY <1>1, <1>5, <1>6, <1>7
<1>8. CASE ~(-Until(next) >= 0)
  BY <1>1, <1>2, <1>3, <1>6, <1>8
<1> QED
  BY <1>7, <1>8

\* The call that ikcp_check asks for is no later than the next flush.
LEMMA NextCall ==
    ASSUME TypeOK, NEW f \in Times, -Half < Until(f),
           NEW buf, \A s \in DOMAIN buf : buf[s].resendts \in Times
    PROVE  /\ UntilNextCall(f, buf) \in Nat
           /\ Until(f) > 0 => UntilNextCall(f, buf) <= Until(f)
<1> DEFINE b == Itimediff(Believed(f), now)
           W == ({b} \cup {Itimediff(buf[s].resendts, now) : s \in DOMAIN buf}) \cup {interval}
<1>1. now \in Times /\ Half \in Nat \ {0} /\ interval \in Nat
  <2>1. interval \in Nat
    BY IntervalsBounded DEF TypeOK
  <2> QED
    BY <2>1, UntilIsInt DEF TypeOK
<1>2. Believed(f) \in {now, f} /\ Believed(f) \in Times
  BY <1>1 DEF Believed
<1>3. b \in {0, Until(f)}
  BY <1>1, <1>2, NoDistance DEF Until
<1>4. b \in Int /\ -Half <= b
  BY <1>2, UntilIsInt DEF Until
<1>5. \A s \in DOMAIN buf : Itimediff(buf[s].resendts, now) \in Int
      /\ -Half <= Itimediff(buf[s].resendts, now)
  BY UntilIsInt DEF Until
<1> HIDE DEF b
<1>6. W \in SUBSET Int /\ b \in W
  BY <1>1, <1>4, <1>5
<1>7. \A x \in W : -Half <= x
  BY <1>1, <1>4, <1>5
<1>8. UntilNextCall(f, buf) = Max({0, Min(W)})
  BY DEF UntilNextCall, b
<1> HIDE DEF W
<1>9. Min(W) \in Int /\ Min(W) <= b
  <2>1. -Half \in Int /\ W # {}
    BY <1>1, <1>6
  <2>2. Min(W) \in W /\ \A x \in W : Min(W) <= x
    BY <1>6, <1>7, <2>1, MinIs
  <2> QED
    BY <1>6, <2>2
<1>10. UntilNextCall(f, buf) = IF 0 <= Min(W) THEN Min(W) ELSE 0
  BY <1>8, <1>9, MaxOfTwo
<1>11. Until(f) \in Int
  BY UntilIsInt
<1> QED
  BY <1>3, <1>4, <1>9, <1>10, <1>11
------------------------------------------------------------------------------
(* The inductive invariant.                                                *)

LEMMA InitKeeps == Init => IInv
<1> SUFFICES ASSUME Init PROVE IInv
  OBVIOUS
<1>1. DOMAIN sndBuf = {} /\ sndBuf \in [{} -> Segment]
  BY DEF Init
<1>2. 0 \in Times
  BY Halves DEF Init, Times
<1>3. TypeOK
  <2>1. left \in Int /\ left >= -Slack
    BY ClockAssumption DEF Init
  <2>2. probeWait \in 0..ProbeLimit
    BY ClockAssumption DEF Init
  <2> QED
    BY <1>1, <1>2, <2>1, <2>2 DEF Init, TypeOK, Times
<1>4. NotStarted /\ Bounded /\ armed <= idle /\ silent <= idle /\ ~updated
  BY <1>1 DEF Init, NotStarted, Bounded, Exhausted
<1> QED
  BY <1>3, <1>4 DEF IInv

\* Who sets no timer keeps the phase.
LEMMA PhaseKept ==
    ASSUME IInv, updated, NEW a \in {0, 1},
           now' = After(now, a), idle' = idle + a, jump' = jump,
           DOMAIN sndBuf' \subseteq DOMAIN sndBuf,
           \A s \in DOMAIN sndBuf' :
               /\ sndBuf'[s].resendts = sndBuf[s].resendts
               /\ sndBuf'[s].rto = sndBuf[s].rto
               /\ sndBuf'[s].age = sndBuf[s].age + a,
           tsProbe' = tsProbe, probeWait' = probeWait,
           ClosedFor(a),
           tsFlush' = tsFlush, left' \in Int,
           left' <= left - a \/ (a = 0 /\ left' <= Until(tsFlush) /\ Until(tsFlush) <= SlapLimit)
    PROVE  SetSinceFlush' \/ FlushedSinceSet'
<1> DEFINE u == Until(tsFlush)
           v == Itimediff(tsFlush', now')
           m == Min({SetBack, SlapLimit + Slack})
<1>1. TypeOK /\ (SetSinceFlush \/ FlushedSinceSet)
  BY DEF IInv
<1>2. v = u - a
  <2>1. u \in Int /\ -(Slack + Farthest) <= u /\ u <= Longest + Farthest
    BY FlushNear
  <2>2. Slack \in Nat \ {0} /\ Farthest \in Nat /\ Longest \in Nat \ {0} /\ Half \in Nat
        /\ Slack + Farthest + Longest < Half
    BY <1>1, Room
  <2> HIDE DEF u
  <2>3. u - a \in (-Half)..(Half - 1) /\ a \in Int
    BY <2>1, <2>2
  <2> QED
    BY <1>1, <2>3, FlushMoves DEF Until, u
<1>3. u \in Int /\ left \in Int /\ -Slack <= left /\ idle \in Nat /\ jump \in Int
      /\ Longest \in Nat
      /\ m \in Nat /\ m \in {SetBack, SlapLimit + Slack}
         /\ SetBack = (IF jump < 0 THEN -jump ELSE 0)
      /\ Slack \in Nat /\ SlapLimit \in Nat
  <2>1. u \in Int
    BY FlushNear
  <2> HIDE DEF u
  <2> QED
    BY <1>1, <2>1, Room, Offsets DEF TypeOK
<1>4. m = Min({SetBack', SlapLimit + Slack})
  BY DEF SetBack
<1>5. PICK j \in Int : j = jump
  BY <1>3
<1> HIDE DEF u, v, m
<1>6. CASE SetSinceFlush
  <2>1. TimersSet({j}, j)'
    <3>1. TimersSet({j}, j)
      BY <1>5, <1>6 DEF SetSinceFlush
    <3>2. {j} \in SUBSET Int
      OBVIOUS
    <3> QED
      BY <3>1, <3>2, TimePasses
  <2>2. \/ left <= u + jump /\ idle + u + jump <= Longest
        \/ left <= u /\ idle + u <= Longest + m
    BY <1>6 DEF SetSinceFlush, FlushSet, FlushDelayed, u, m
  <2>3. \/ left' <= v + jump /\ idle' + v + jump <= Longest
        \/ left' <= v /\ idle' + v <= Longest + m
    <3>1. CASE left' <= left - a
      BY <1>2, <1>3, <2>2, <3>1
    <3>2. CASE a = 0 /\ left' <= u /\ u <= SlapLimit
      BY <1>2, <1>3, <2>2, <3>2
    <3> QED
      BY <3>1, <3>2 DEF u
  <2>4. FlushSet(j)' \/ FlushDelayed'
    BY <1>4, <1>5, <2>3 DEF FlushSet, FlushDelayed, Until, v
  <2> QED
    BY <1>5, <2>1, <2>4 DEF SetSinceFlush, FlushSet, TimersSet, SegSet, ProbeSet, Unnoticed, SetBack
<1>7. CASE FlushedSinceSet
  <2>1. TimersSet({0, j}, 0)'
    <3>1. TimersSet({0, j}, 0)
      BY <1>5, <1>7 DEF FlushedSinceSet
    <3>2. {0, j} \in SUBSET Int /\ 0 \in Int
      OBVIOUS
    <3> QED
      BY <3>1, <3>2, TimePasses
  <2>2. left <= u /\ idle + u <= Longest
    BY <1>3, <1>7 DEF FlushedSinceSet, FlushSet, u
  <2>3. v \in Int /\ left' <= v + 0 /\ idle' + v + 0 <= Longest
    <3>1. CASE left' <= left - a
      BY <1>2, <1>3, <2>2, <3>1
    <3>2. CASE a = 0 /\ left' <= u /\ u <= SlapLimit
      BY <1>2, <1>3, <2>2, <3>2
    <3> QED
      BY <3>1, <3>2 DEF u
  <2>4. FlushSet(0)'
    BY <2>3 DEF FlushSet, Until, v
  <2> QED
    BY <1>5, <2>1, <2>4 DEF FlushedSinceSet, FlushSet, TimersSet, SegSet, ProbeSet, Unnoticed, SetBack
<1> QED
  BY <1>1, <1>6, <1>7
LEMMA TickKeeps == IInv /\ Tick => IInv'
<1> SUFFICES ASSUME IInv, Tick PROVE IInv'
  OBVIOUS
<1>1. TypeOK /\ Bounded /\ updated /\ updated' /\ updated' \in BOOLEAN
  BY DEF IInv, Tick, TypeOK
<1>2. /\ DOMAIN sndBuf' = DOMAIN sndBuf /\ sndBuf' \in [DOMAIN sndBuf' -> Segment]
      /\ \A s \in DOMAIN sndBuf' :
            /\ sndBuf'[s].resendts = sndBuf[s].resendts
            /\ sndBuf'[s].rto = sndBuf[s].rto /\ sndBuf'[s].xmit = sndBuf[s].xmit
            /\ sndBuf'[s].age = sndBuf[s].age + 1
  <2>1. sndBuf' = [s \in DOMAIN sndBuf |-> [sndBuf[s] EXCEPT !.age = @ + 1]]
    BY DEF Tick, Aged
  <2>2. \A s \in DOMAIN sndBuf : sndBuf[s] \in Segment
    BY <1>1 DEF TypeOK
  <2>3. \A s \in DOMAIN sndBuf : LET seg == [sndBuf[s] EXCEPT !.age = @ + 1] IN
            /\ seg \in Segment
            /\ seg.resendts = sndBuf[s].resendts /\ seg.rto = sndBuf[s].rto
            /\ seg.xmit = sndBuf[s].xmit /\ seg.age = sndBuf[s].age + 1
    BY <2>2 DEF Segment
  <2>4. DOMAIN sndBuf' = DOMAIN sndBuf
    BY <2>1
  <2>5. \A s \in DOMAIN sndBuf' : sndBuf'[s] = [sndBuf[s] EXCEPT !.age = @ + 1]
    BY <2>1
  <2>6. sndBuf' = [s \in DOMAIN sndBuf' |-> sndBuf'[s]]
    BY <2>1
  <2>7. \A s \in DOMAIN sndBuf' : sndBuf'[s] \in Segment
    BY <2>3, <2>4, <2>5
  <2>8. sndBuf' \in [DOMAIN sndBuf' -> Segment]
    BY <2>6, <2>7
  <2> QED
    BY <2>3, <2>4, <2>5, <2>8
<1>3. /\ armed' \in Nat /\ silent' \in Nat /\ ClosedFor(1)
      /\ probeWait' = 0 => armed' <= idle' /\ silent' <= idle'
      /\ idle' = idle + 1 /\ idle' \in Nat
      /\ left' = left - 1 /\ left' \in Int /\ left' >= -Slack
  <2>1. armed \in Nat /\ idle \in Nat /\ left \in Int /\ left >= -Slack /\ Slack \in Nat
        /\ silent \in Nat /\ (probeWait = 0 => armed <= idle /\ silent <= idle)
    BY <1>1, ClockAssumption DEF TypeOK, IInv
  <2>2. left > -Slack /\ left' = left - 1 /\ idle' = idle + 1
        /\ armed' = (IF closed THEN armed + 1 ELSE 0) /\ probeWait' = probeWait
        /\ silent' = (IF closed THEN silent + 1 ELSE 0)
    BY DEF Tick
  <2> QED
    BY <2>1, <2>2 DEF ClosedFor
<1>4. now' = After(now, 1) /\ now' \in Times
  BY <1>1, AfterIs DEF Tick, TypeOK
<1>5. UNCHANGED <<interval, nodelay, rxRto, closed, tsFlush, tsProbe, probeWait, jump>>
  BY DEF Tick, settings
<1>6. TypeOK'
  BY <1>1, <1>2, <1>3, <1>4, <1>5 DEF TypeOK
<1>7. Bounded'
  BY <1>1, <1>2 DEF Tick, Bounded
<1>8. SetSinceFlush' \/ FlushedSinceSet'
  <2>1. left' <= left - 1
    BY <1>1, <1>3 DEF TypeOK
  <2> QED
    BY <1>1, <1>2, <1>3, <1>4, <1>5, <2>1, PhaseKept
<1> QED
  BY <1>1, <1>3, <1>6, <1>7, <1>8 DEF IInv

LEMMA InputKeeps == IInv /\ Input => IInv'
<1> SUFFICES ASSUME IInv, Input PROVE IInv'
  OBVIOUS
<1>1. TypeOK /\ Bounded
  BY DEF IInv
<1>2. UNCHANGED <<now, updated, interval, nodelay, tsFlush, tsProbe, probeWait, left, idle, jump>>
  BY DEF Input, settings
<1>3. PICK acked \in SUBSET DOMAIN sndBuf :
          /\ sndBuf' = [s \in DOMAIN sndBuf \ acked |-> sndBuf[s]]
          /\ rxRto' \in IF acked = {} THEN {rxRto} ELSE Rtos
  BY DEF Input
<1>4. /\ DOMAIN sndBuf' \subseteq DOMAIN sndBuf
      /\ \A s \in DOMAIN sndBuf' : sndBuf'[s] = sndBuf[s]
      /\ sndBuf' = [s \in DOMAIN sndBuf' |-> sndBuf'[s]]
  BY <1>3
<1>5. sndBuf' \in [DOMAIN sndBuf' -> Segment] /\ DOMAIN sndBuf' \subseteq Segs
  <2>1. \A s \in DOMAIN sndBuf' : sndBuf'[s] \in Segment
    BY <1>1, <1>4 DEF TypeOK
  <2> QED
    BY <1>1, <1>4, <2>1 DEF TypeOK
<1>6. armed' \in Nat /\ armed' <= armed /\ armed \in Nat
      /\ silent' \in Nat /\ silent' <= silent /\ silent \in Nat /\ ClosedFor(0)
      /\ closed' \in BOOLEAN /\ rxRto' \in Rtos
  <2>1. armed' = (IF closed THEN armed ELSE 0) /\ closed' \in BOOLEAN
        /\ silent' = (IF closed THEN silent ELSE 0)
    BY DEF Input
  <2>2. armed \in Nat /\ silent \in Nat /\ rxRto \in Rtos
    BY <1>1 DEF TypeOK
  <2> QED
    BY <1>3, <2>1, <2>2 DEF ClosedFor
<1>7. TypeOK'
  BY <1>1, <1>2, <1>5, <1>6 DEF TypeOK
<1>8. Bounded'
  BY <1>1, <1>2, <1>4 DEF Bounded, Exhausted, Due
<1>9. ~updated' => NotStarted'
  <2> SUFFICES ASSUME ~updated PROVE NotStarted'
    BY <1>2
  <2>1. NotStarted
    BY DEF IInv
  <2>2. armed' = 0 /\ silent' = 0
    BY <1>6, <2>1 DEF NotStarted
  <2> QED
    BY <1>2, <1>4, <2>1, <2>2 DEF NotStarted
<1>10. probeWait' = 0 => armed' <= idle' /\ silent' <= idle'
  BY <1>1, <1>2, <1>6 DEF IInv, TypeOK
<1>11. updated => SetSinceFlush' \/ FlushedSinceSet'
  <2>1. now' = After(now, 0) /\ idle' = idle + 0 /\ left' \in Int /\ left' <= left - 0
    <3>1. now \in Nat /\ now < ClockRange /\ ClockRange \in Nat
      BY <1>1, Halves DEF TypeOK, Times
    <3>2. After(now, 0) = now
      BY <3>1 DEF After
    <3> QED
      BY <1>1, <1>2, <1>6, <3>2 DEF TypeOK
  <2>2. \A s \in DOMAIN sndBuf' :
            /\ sndBuf'[s].resendts = sndBuf[s].resendts
            /\ sndBuf'[s].rto = sndBuf[s].rto
            /\ sndBuf'[s].age = sndBuf[s].age + 0
    <3>1. \A s \in DOMAIN sndBuf' : sndBuf[s] \in Segment
      BY <1>1, <1>4 DEF TypeOK
    <3>2. \A s \in DOMAIN sndBuf' : sndBuf[s].age \in Nat
      BY <3>1 DEF Segment
    <3> QED
      BY <1>4, <3>2
  <2> QED
    BY <1>2, <1>4, <1>6, <2>1, <2>2, PhaseKept
<1> QED
  BY <1>2, <1>7, <1>8, <1>9, <1>10, <1>11 DEF IInv

LEMMA ConfigureKeeps == IInv /\ (Configure \/ UNCHANGED vars) => IInv'
<1> SUFFICES ASSUME IInv, Configure \/ UNCHANGED vars PROVE IInv'
  OBVIOUS
<1>1. /\ UNCHANGED <<now, updated, rxRto, closed, tsFlush, sndBuf, tsProbe, probeWait,
                     left, idle, armed, silent, jump>>
      /\ interval' \in Intervals /\ nodelay' \in Nodelays
  BY DEF IInv, TypeOK, Configure, vars, settings, timers, caller
<1>2. TypeOK'
  BY <1>1 DEF IInv, TypeOK
<1>3. Bounded' /\ (~updated' => NotStarted') /\ (probeWait' = 0 => armed' <= idle' /\ silent' <= idle')
  BY <1>1 DEF IInv, Bounded, Exhausted, Due, NotStarted
<1>4. SetSinceFlush' = SetSinceFlush /\ FlushedSinceSet' = FlushedSinceSet
  BY <1>1 DEF SetSinceFlush, FlushedSinceSet, FlushSet, FlushDelayed, TimersSet, SegSet,
              ProbeSet, Unnoticed, Until, SetBack
<1> QED
  BY <1>1, <1>2, <1>3, <1>4 DEF IInv

\* A clock that is set puts every timer off by as much.
LEMMA SetClockKeeps == IInv /\ SetClock => IInv'
<1> SUFFICES ASSUME IInv, SetClock PROVE IInv'
  OBVIOUS
<1>1. TypeOK /\ Bounded /\ updated /\ jump = 0 /\ (SetSinceFlush \/ FlushedSinceSet)
  BY DEF IInv, SetClock
<1>2. /\ jump' \in Jumps /\ now' = After(now, jump') /\ ~Exhausted'
      /\ UNCHANGED <<updated, interval, nodelay, rxRto, closed, tsFlush, sndBuf, tsProbe,
                     probeWait, left, idle, armed, silent>>
  BY DEF SetClock, settings, timers
<1>3. PICK j \in Int : j = jump'
  BY <1>2, JumpsBounded
<1>0. -Farthest <= j /\ j <= Farthest
  BY <1>2, <1>3, JumpsBounded
<1>4. now' = After(now, j) /\ now' \in Times
  BY <1>1, <1>2, <1>3, AfterIs DEF TypeOK
<1>5. TypeOK'
  BY <1>1, <1>2, <1>4 DEF TypeOK
<1>6. Bounded'
  BY <1>1, <1>2 DEF Bounded
<1>7. /\ Half \in Nat /\ Farthest \in Nat /\ Slack \in Nat /\ Longest \in Nat
         /\ Reserve \in Nat
      /\ Reserve = Longest + Slack + Farthest /\ LongestRto \in Nat /\ ProbeLimit \in Nat
      /\ LongestRto + Reserve < Half /\ ProbeLimit + Reserve < Half
  BY <1>1, Room
<1>8. TimersSet({0}, 0)
  <2>1. CASE SetSinceFlush
    BY <1>1, <2>1 DEF SetSinceFlush, TimersSet
  <2>2. CASE FlushedSinceSet
    BY <1>1, <2>2 DEF FlushedSinceSet, TimersSet
  <2> QED
    BY <1>1, <2>1, <2>2
<1>9. ASSUME NEW s \in DOMAIN sndBuf'
      PROVE  SegSet(s, j, j)'
  <2>1. s \in DOMAIN sndBuf \cap DOMAIN sndBuf' /\ sndBuf[s] \in Segment
    BY <1>1, <1>2 DEF TypeOK
  <2>2. SegSet(s, 0, 0)
    BY <1>8, <2>1 DEF TimersSet
  <2>3. Until(sndBuf[s].resendts) - (0 + j) \in (-Half)..(Half - 1)
    <3> DEFINE u == Until(sndBuf[s].resendts)
    <3>1. u \in Int /\ -(Longest + Slack) < u /\ u <= LongestRto
      BY <1>1, <2>1, SegNear
    <3> HIDE DEF u
    <3>2. -Reserve < u - j /\ u - j <= LongestRto + Reserve
      BY <1>0, <1>7, <3>1
    <3>3. u - (0 + j) \in (-Half)..(Half - 1)
      BY <1>0, <1>7, <3>1, <3>2
    <3> QED
      BY <3>3 DEF u
  <2>4. sndBuf'[s].age = sndBuf[s].age + 0 /\ idle' = idle + 0 /\ 0 + j = j /\ 0 \in Nat
    BY <1>1, <1>2, <2>1 DEF Segment, TypeOK
  <2>5. SegSet(s, 0 + j, 0 + j)'
    <3>1. now' = After(now, 0 + j) /\ 0 \in Int /\ j \in Int
      BY <1>4
    <3>2. sndBuf'[s].resendts = sndBuf[s].resendts /\ sndBuf'[s].rto = sndBuf[s].rto
      BY <1>2
    <3> QED
      BY <1>1, <2>1, <2>2, <2>3, <2>4, <3>1, <3>2, SegMoves
  <2> QED
    BY <2>4, <2>5
<1>10. ProbeSet(j, j)'
  <2>1. ProbeSet(0, 0)
    BY <1>8 DEF TimersSet
  <2>2. probeWait # 0 => Until(tsProbe) - (0 + j) \in (-Half)..(Half - 1)
    <3> DEFINE u == Until(tsProbe)
    <3>1. probeWait # 0 => u \in Int /\ -(Longest + Slack) < u /\ u <= ProbeLimit
      BY <1>1, ProbeNear
    <3> HIDE DEF u
    <3>2. probeWait # 0 => u - (0 + j) \in (-Half)..(Half - 1)
      BY <1>0, <1>7, <3>1
    <3> QED
      BY <3>2 DEF u
  <2>3. idle' = idle + 0 /\ ClosedFor(0) /\ 0 + j = j /\ 0 \in Nat
    BY <1>1, <1>2 DEF TypeOK, ClosedFor
  <2>4. ProbeSet(0 + j, 0 + j)'
    <3>1. now' = After(now, 0 + j) /\ 0 \in Int /\ j \in Int
      BY <1>4
    <3>2. tsProbe' = tsProbe /\ probeWait' = probeWait /\ jump = 0
          /\ jump' \in Jumps \cup {0}
      BY <1>1, <1>2
    <3> QED
      BY <1>1, <2>1, <2>2, <2>3, <3>1, <3>2, ProbeMoves
  <2> QED
    BY <2>3, <2>4
<1>11. FlushSet(j)'
  <2> DEFINE u == Until(tsFlush)
             m == Min({SetBack, SlapLimit + Slack})
             v == Itimediff(tsFlush', now')
  <2>1. u \in Int /\ -(Slack + Farthest) <= u /\ u <= Longest
    BY <1>1, FlushNear
  <2>2. left \in Int /\ -Slack <= left /\ idle \in Nat /\ jump \in Int /\ m \in Nat
        /\ m <= SetBack
        /\ SetBack = 0
    BY <1>1, Offsets DEF TypeOK
  <2>3. \/ left <= u + jump /\ idle + u + jump <= Longest
        \/ left <= u /\ idle + u <= Longest + m
        \/ left <= u + 0 /\ idle + u + 0 <= Longest
    BY <1>1 DEF SetSinceFlush, FlushedSinceSet, FlushSet, FlushDelayed
  <2> HIDE DEF u, m
  <2>4. left <= u /\ idle + u <= Longest
    BY <1>1, <1>7, <2>1, <2>2, <2>3
  <2>5. v = u - j
    <3>1. -Reserve <= u - j /\ u - j <= Reserve
      BY <1>0, <1>7, <2>1, <2>2, <2>4
    <3>2. Reserve < Half
      BY <1>7
    <3>3. u - j \in (-Half)..(Half - 1)
      BY <1>0, <1>7, <2>1, <3>1, <3>2
    <3> QED
      BY <1>1, <1>2, <1>4, <3>3, FlushMoves DEF Until, u
  <2> HIDE DEF v
  <2>6. left' <= v + j /\ idle' + v + j <= Longest
    BY <1>2, <2>1, <2>2, <2>4, <2>5
  <2> QED
    BY <2>6 DEF FlushSet, Until, v
<1>12. SetSinceFlush'
  BY <1>3, <1>9, <1>10, <1>11 DEF SetSinceFlush, FlushSet, TimersSet, SegSet, ProbeSet, Unnoticed, SetBack
<1> QED
  BY <1>1, <1>2, <1>5, <1>6, <1>12 DEF IInv

\* ikcp_update, whether it flushes or not.
LEMMA UpdateKeeps == IInv /\ Update => IInv'
<1> SUFFICES ASSUME IInv, Update PROVE IInv'
  OBVIOUS
<1> DEFINE due == IF updated THEN Believed(tsFlush) ELSE now
<1>1. TypeOK /\ Bounded
  BY DEF IInv
<1>2. /\ updated' = TRUE
      /\ UNCHANGED <<now, interval, nodelay, rxRto, closed, jump>>
      /\ left' = UntilNextCall(tsFlush', sndBuf')
  BY DEF Update, settings
<1>3. /\ Itimediff(now, due) >= 0 => tsFlush' = NextFlush(due) /\ Flush
      /\ ~(Itimediff(now, due) >= 0) =>
             tsFlush' = due /\ UNCHANGED <<sndBuf, tsProbe, probeWait, idle, armed, silent>>
  BY DEF Update
<1>4. /\ due \in Times /\ Until(due) \in Int
      /\ -SlapLimit <= Until(due) /\ Until(due) <= SlapLimit
      /\ Itimediff(now, due) = -Until(due)
      /\ Until(due) > 0 => updated /\ due = tsFlush
  BY BelievedIs
<1>5. /\ Half \in Nat \ {0} /\ Slack \in Nat /\ Longest \in Nat /\ SlapLimit \in Nat
      /\ SlapLimit < Half /\ interval \in Nat \ {0} /\ interval <= Longest /\ jump \in Int
  <2>1. interval \in Nat \ {0} /\ interval <= Longest
    BY <1>1, IntervalsBounded DEF TypeOK
  <2> QED
    BY <1>1, <2>1, Room, Offsets
<1> HIDE DEF due
<1>6. CASE Until(due) <= 0
  <2>1. tsFlush' = NextFlush(due) /\ Flush
    BY <1>3, <1>4, <1>6
  <2>2. PICK new \in SUBSET (Segs \ DOMAIN sndBuf), skipped \in SUBSET DOMAIN sndBuf :
            /\ \A s \in skipped : sndBuf[s].xmit < MaxXmit
            /\ sndBuf' = Resend(new, skipped)
    BY <2>1 DEF Flush
  <2>3. /\ sndBuf' \in [DOMAIN sndBuf' -> Segment] /\ DOMAIN sndBuf' \subseteq Segs
        /\ \A s \in DOMAIN sndBuf' :
              /\ sndBuf'[s].rto <= MaxRtoAt[sndBuf'[s].xmit]
              /\ Itimediff(sndBuf'[s].resendts, now) > 0
              /\ \E o \in {0, jump}, t \in {sndBuf'[s].rto, sndBuf'[s].rto + sndBuf'[s].rto \div 8} :
                    Itimediff(sndBuf'[s].resendts, now) = t - sndBuf'[s].age - o
    <3>1. PICK buf : buf = Resend(new, skipped)
      OBVIOUS
    <3>2. AllAhead(buf)
      <4>1. MaySend(new, skipped)
        BY <2>2 DEF MaySend
      <4> QED
        BY <3>1, <4>1, ResendKeeps, Zenon
    <3>3. sndBuf' = buf
      BY <2>2, <3>1
    <3> QED
      BY <3>2, <3>3 DEF AllAhead, Until
  <2>4. idle' = 0 /\ Probe
    BY <2>1 DEF Flush
  <2>5. /\ tsProbe' \in Times /\ probeWait' \in 0..ProbeLimit
        /\ armed' \in Nat /\ silent' \in Nat
        /\ probeWait' = 0 => armed' = 0 /\ silent' = 0
        /\ ProbeSet(0, 0)' \/ \E j \in {jump} : ProbeSet(j, 0)'
    BY <1>2, <2>4, ProbeKeeps
  <2> DEFINE v == Itimediff(tsFlush', now)
  <2>6. tsFlush' \in Times /\ v \in Int /\ 0 < v /\ v <= interval
    BY <1>1, <1>4, <1>6, <2>1, NextFlushIs DEF Until
  <2>7. \A s \in DOMAIN sndBuf' : sndBuf'[s] \in Segment
    BY <2>3
  <2>8. \A s \in DOMAIN sndBuf' : sndBuf'[s].resendts \in Times
    BY <2>7 DEF Segment
  <2>9. left' \in Nat /\ left' <= v
    <3>1. -Half < v
      BY <1>5, <2>6
    <3> QED
      BY <1>1, <1>2, <2>6, <2>8, <3>1, NextCall DEF Until
  <2> HIDE DEF v
  <2>10. TypeOK'
    <3>1. left' \in Int /\ left' >= -Slack
      BY <1>5, <2>9
    <3> QED
      BY <1>1, <1>2, <2>3, <2>4, <2>5, <2>6, <3>1 DEF TypeOK
  <2>11. Bounded'
    <3>1. ASSUME NEW s \in DOMAIN sndBuf'
          PROVE  ~(Itimediff(now', sndBuf'[s].resendts) >= 0)
      <4> DEFINE t == sndBuf'[s].resendts
      <4>1. t \in Times /\ Until(t) > 0
        BY <2>3, <2>8 DEF Until
      <4> HIDE DEF t
      <4>2. Until(t) \in Int /\ -Half < Until(t)
        BY <1>1, <1>5, <4>1, UntilIsInt
      <4>3. Itimediff(now, t) = -Until(t)
        BY <1>1, <4>1, <4>2, DueIs
      <4>4. ~(Itimediff(now, t) >= 0)
        BY <4>1, <4>2, <4>3
      <4> QED
        BY <1>2, <4>4 DEF t
    <3> QED
      BY <2>3, <3>1 DEF Bounded, Exhausted, Due
  <2>12. FlushSet(0)'
    <3>1. left' <= v + 0 /\ idle' + v + 0 <= Longest
      BY <1>5, <2>4, <2>6, <2>9
    <3> QED
      BY <1>2, <3>1 DEF FlushSet, Until, v
  <2>13. PICK j \in Int : j = jump
    BY <1>5
  <2>14. ASSUME NEW s \in DOMAIN sndBuf'
         PROVE  \E o \in {0, j} : SegSet(s, o, 0)'
    <3> DEFINE w == Itimediff(sndBuf'[s].resendts, now')
    <3>1. w > 0
          /\ \E o \in {0, j}, t \in {sndBuf'[s].rto, sndBuf'[s].rto + sndBuf'[s].rto \div 8} :
                        w = t - sndBuf'[s].age - o
      BY <1>2, <2>3, <2>13
    <3>2. w \in Int
      BY <1>1, <1>2, <2>8, UntilIsInt DEF Until
    <3> HIDE DEF w
    <3>3. w + 0 + idle' > 0
      BY <2>4, <3>1, <3>2
    <3> QED
      BY <3>1, <3>3 DEF SegSet, Until, w
  <2>15. FlushedSinceSet'
    <3>1. \E o \in {0, j} : ProbeSet(o, 0)'
      BY <2>5, <2>13
    <3> QED
      BY <1>2, <2>12, <2>13, <2>14, <3>1
         DEF FlushedSinceSet, FlushSet, TimersSet, SegSet, ProbeSet, Unnoticed, SetBack
  <2>16. probeWait' = 0 => armed' <= idle' /\ silent' <= idle'
    BY <2>4, <2>5
  <2> QED
    BY <1>2, <2>10, <2>11, <2>15, <2>16 DEF IInv
<1>7. CASE Until(due) > 0
  <2>1. UNCHANGED <<tsFlush, sndBuf, tsProbe, probeWait, idle, armed, silent>>
        /\ updated
        /\ due = tsFlush
    BY <1>3, <1>4, <1>7
  <2>2. \A s \in DOMAIN sndBuf' : sndBuf'[s] \in Segment /\ sndBuf'[s] = sndBuf[s]
    BY <1>1, <2>1 DEF TypeOK
  <2>3. \A s \in DOMAIN sndBuf' : sndBuf'[s].resendts \in Times /\ sndBuf'[s].age \in Nat
    BY <2>2 DEF Segment
  <2>4. left' \in Nat /\ left' <= Until(tsFlush) /\ Until(tsFlush) <= SlapLimit
    <3>1. tsFlush' = tsFlush /\ tsFlush \in Times /\ -Half < Until(tsFlush)
          /\ Until(tsFlush) > 0
      BY <1>1, <1>4, <1>5, <1>7, <2>1
    <3>2. UntilNextCall(tsFlush, sndBuf') \in Nat
          /\ UntilNextCall(tsFlush, sndBuf') <= Until(tsFlush)
      BY <1>1, <2>3, <3>1, NextCall
    <3> QED
      BY <1>2, <1>4, <2>1, <3>1, <3>2
  <2>5. TypeOK'
    <3>1. left' \in Int /\ left' >= -Slack
      BY <1>5, <2>4
    <3> QED
      BY <1>1, <1>2, <2>1, <3>1 DEF TypeOK
  <2>6. Bounded' /\ (probeWait' = 0 => armed' <= idle' /\ silent' <= idle')
    BY <1>1, <1>2, <2>1 DEF IInv, Bounded, Exhausted, Due
  <2>7. SetSinceFlush' \/ FlushedSinceSet'
    <3>1. now' = After(now, 0) /\ idle' = idle + 0 /\ left' \in Int
          /\ ClosedFor(0)
      <4>1. now \in Nat /\ now < ClockRange /\ ClockRange \in Nat
        BY <1>1, Halves DEF TypeOK, Times
      <4>2. After(now, 0) = now
        BY <4>1 DEF After
      <4> QED
        BY <1>1, <1>2, <2>1, <2>4, <4>2 DEF TypeOK, ClosedFor
    <3>2. \A s \in DOMAIN sndBuf' :
              /\ sndBuf'[s].resendts = sndBuf[s].resendts
              /\ sndBuf'[s].rto = sndBuf[s].rto
              /\ sndBuf'[s].age = sndBuf[s].age + 0
      BY <2>2, <2>3
    <3> QED
      BY <1>2, <2>1, <2>4, <3>1, <3>2, PhaseKept
  <2> QED
    BY <1>2, <2>5, <2>6, <2>7 DEF IInv
<1> QED
  BY <1>4, <1>6, <1>7

\* All timers stay near the clock and are right but for the jump of a clock that was
\* set, from the first ikcp_update on.
THEOREM Invariance == Spec => []IInv
<1>1. IInv /\ [Next]_vars => IInv'
  BY TickKeeps, SetClockKeeps, UpdateKeeps, InputKeeps, ConfigureKeeps DEF Next
<1> QED
  BY <1>1, InitKeeps, PTL DEF Spec

------------------------------------------------------------------------------
(* What the timers promise.                                                *)

\* A caller that comes when ikcp_check says has a flush in every interval, but for
\* the ten seconds for which ikcp_update believes a ts_flush that a clock set back
\* has left ahead.
THEOREM FlushesOnTime == Spec => []FlushKeepsUp
<1>1. IInv => FlushKeepsUp
  <2> SUFFICES ASSUME IInv PROVE FlushKeepsUp
    OBVIOUS
  <2>1. CASE updated
    BY <2>1, FlushNear DEF FlushKeepsUp
  <2>2. CASE ~updated
    <3>1. idle = 0 /\ TypeOK
      BY <2>2 DEF IInv, NotStarted
    <3>2. Min({SetBack, SlapLimit + Slack}) \in Nat /\ Longest \in Nat /\ Slack \in Nat
      BY <3>1, Offsets, Room
    <3> QED
      BY <3>1, <3>2 DEF FlushKeepsUp
  <2> QED
    BY <2>1, <2>2
<1> QED
  BY <1>1, Invariance, PTL

\* Nor does following ikcp_check delay a retransmission: it comes with the first
\* flush after the time out, or later by as much as the clock was set back.
THEOREM ResendsInTime == Spec => []ResentInTime
<1>1. IInv => ResentInTime
  <2> SUFFICES ASSUME IInv, NEW s \in DOMAIN sndBuf
               PROVE  sndBuf[s].age <= sndBuf[s].rto + sndBuf[s].rto \div 8
                                       + Longest + Slack + SetBack
    BY DEF ResentInTime
  <2> DEFINE seg == sndBuf[s]
             u == Until(seg.resendts)
             m == Min({SetBack, SlapLimit + Slack})
  <2>1. TypeOK /\ updated /\ (SetSinceFlush \/ FlushedSinceSet)
    BY DEF IInv, NotStarted
  <2>2. seg \in Segment /\ idle \in Nat
    BY <2>1 DEF TypeOK
  <2>3. seg.resendts \in Times /\ seg.rto \in Nat /\ seg.age \in Nat
    BY <2>2 DEF Segment
  <2>4. u \in Int
    BY <2>1, <2>3, UntilIsInt
  <2>5. /\ Slack \in Nat /\ Longest \in Nat /\ m \in Nat /\ m <= SetBack /\ jump \in Int
        /\ SetBack = (IF jump < 0 THEN -jump ELSE 0)
    BY <2>1, Offsets, Room
  <2>6. PICK o \in {0, jump}, p \in {0, jump}, t \in {seg.rto, seg.rto + seg.rto \div 8} :
            /\ u = t - seg.age - o /\ u + p + idle > 0
            /\ (p = jump /\ o = jump) \/ (p = 0 /\ FlushedSinceSet)
    <3>1. CASE SetSinceFlush
      BY <3>1 DEF SetSinceFlush, TimersSet, SegSet
    <3>2. CASE FlushedSinceSet
      BY <3>2 DEF FlushedSinceSet, TimersSet, SegSet
    <3> QED
      BY <2>1, <3>1, <3>2
  <2>7. idle <= Longest + Slack + m /\ (FlushedSinceSet => idle <= Longest + Slack)
    BY <2>1, FlushNear
  <2>8. t \in Nat /\ t <= seg.rto + seg.rto \div 8 /\ seg.rto + seg.rto \div 8 \in Nat
    BY <2>3
  <2> HIDE DEF seg, u, m
  <2>9. seg.age <= t + Longest + Slack + SetBack
    BY <2>2, <2>3, <2>4, <2>5, <2>6, <2>7, <2>8
  <2> DEFINE most == seg.rto + seg.rto \div 8
  <2>10. most \in Nat /\ t <= most
    BY <2>8
  <2> HIDE DEF most
  <2>11. seg.age <= most + Longest + Slack + SetBack
    BY <2>3, <2>5, <2>8, <2>9, <2>10
  <2> QED
    BY <2>11 DEF seg, most
<1> QED
  BY <1>1, Invariance, PTL

\* As long as the peer's window is closed it is asked for it again and again.
THEOREM ProbesKeepComing == Spec => []ProbeKeepsAsking
<1>1. IInv => ProbeKeepsAsking
  <2> SUFFICES ASSUME IInv PROVE silent <= ProbeLimit + 2 * (Longest + Slack) + SetBack
    BY DEF ProbeKeepsAsking
  <2> DEFINE u == Until(tsProbe)
             m == Min({SetBack, SlapLimit + Slack})
  <2>1. TypeOK
    BY DEF IInv
  <2>2. /\ Slack \in Nat /\ Longest \in Nat /\ ProbeLimit \in Nat /\ m \in Nat
           /\ m <= SetBack
        /\ jump \in Int /\ SetBack = (IF jump < 0 THEN -jump ELSE 0)
        /\ idle \in Nat /\ armed \in Nat /\ silent \in Nat /\ probeWait \in Nat /\ probeWait <= ProbeLimit
    BY <2>1, Offsets, Room DEF TypeOK
  <2>3. CASE ~updated
    <3>1. silent = 0
      BY <2>3 DEF IInv, NotStarted
    <3> QED
      BY <2>2, <3>1
  <2>4. CASE updated
    <3>1. idle <= Longest + Slack + m /\ (FlushedSinceSet => idle <= Longest + Slack)
      BY <2>4, FlushNear
    <3>2. CASE probeWait = 0
      <4>1. silent <= idle
        BY <3>2 DEF IInv
      <4> HIDE DEF m
      <4> QED
        BY <2>2, <3>1, <4>1
    <3>3. CASE probeWait # 0
      <4>1. SetSinceFlush \/ FlushedSinceSet
        BY <2>4 DEF IInv
      <4>2. PICK o \in {0, jump}, p \in {0, jump} :
                /\ u <= probeWait - armed - o /\ u + p + idle > 0
                /\ silent <= armed + Unnoticed(o)
                /\ (p = jump /\ o = jump) \/ (p = 0 /\ FlushedSinceSet)
        <5>1. CASE SetSinceFlush
          BY <3>3, <5>1 DEF SetSinceFlush, TimersSet, ProbeSet
        <5>2. CASE FlushedSinceSet
          BY <3>3, <5>2 DEF FlushedSinceSet, TimersSet, ProbeSet
        <5> QED
          BY <4>1, <5>1, <5>2
      <4>3. u \in Int
        BY <2>1, UntilIsInt DEF TypeOK
      <4>4. Unnoticed(o) = Longest + Slack + (IF o = 0 THEN m ELSE 0)
        BY DEF Unnoticed
      <4> HIDE DEF u, m
      <4>5. jump >= 0 => m = 0
        BY <2>2
      <4> QED
        BY <2>2, <3>1, <4>2, <4>3, <4>4, <4>5
    <3> QED
      BY <3>2, <3>3
  <2> QED
    BY <2>3, <2>4
<1> QED
  BY <1>1, Invariance, PTL

\* Only a flush makes a time out longer, of a segment that is due: its time has
\* passed, or the rest of it when the clock was set ahead.
THEOREM NeverTooEarly == Spec => NoEarlyTimeout
<1> DEFINE A == \A s \in DOMAIN sndBuf \cap DOMAIN sndBuf' :
                    sndBuf'[s].rto > sndBuf[s].rto
                        => sndBuf[s].age + SetAhead >= sndBuf[s].rto
<1>1. IInv /\ [Next]_vars => A
  <2> SUFFICES ASSUME IInv, [Next]_vars,
                      NEW s \in DOMAIN sndBuf \cap DOMAIN sndBuf',
                      sndBuf'[s].rto > sndBuf[s].rto
               PROVE  sndBuf[s].age + SetAhead >= sndBuf[s].rto
    OBVIOUS
  <2> DEFINE seg == sndBuf[s]
             u == Until(seg.resendts)
  <2>1. TypeOK /\ updated /\ (SetSinceFlush \/ FlushedSinceSet)
    BY DEF IInv, NotStarted
  <2>2. seg \in Segment
    BY <2>1 DEF TypeOK
  <2>3. seg.resendts \in Times /\ seg.rto \in Nat /\ seg.age \in Nat
    BY <2>2 DEF Segment
  <2>4. sndBuf'[s].rto # seg.rto
    BY <2>3
  <2>5. Due(s)
    <3>1. CASE Tick
      <4>1. sndBuf'[s] = [seg EXCEPT !.age = @ + 1]
        BY <3>1 DEF Tick, Aged
      <4>2. sndBuf'[s].rto = seg.rto
        BY <2>2, <4>1 DEF Segment
      <4> QED
        BY <2>4, <4>2
    <3>2. CASE SetClock \/ Configure \/ UNCHANGED vars
      BY <2>4, <3>2 DEF SetClock, Configure, vars, timers
    <3>3. CASE Input
      BY <2>4, <3>3 DEF Input
    <3>4. CASE Update
      <4>1. CASE sndBuf' = sndBuf
        BY <2>4, <4>1
      <4>2. CASE Flush
        <5>1. PICK new \in SUBSET (Segs \ DOMAIN sndBuf), skipped \in SUBSET DOMAIN sndBuf :
                  sndBuf' = Resend(new, skipped)
          BY <4>2 DEF Flush
        <5>2. s \notin new
          OBVIOUS
        <5>3. CASE ~Due(s) /\ s \in skipped
          BY <2>4, <5>1, <5>2, <5>3 DEF Resend, Again
        <5>4. CASE ~Due(s) /\ s \notin skipped
          BY <2>4, <5>1, <5>2, <5>4 DEF Resend
        <5> QED
          BY <5>3, <5>4
      <4> QED
        BY <3>4, <4>1, <4>2 DEF Update
    <3> QED
      BY <3>1, <3>2, <3>3, <3>4 DEF Next
  <2>6. u <= 0 /\ u \in Int
    BY <2>1, <2>3, <2>5, SegDueIs, UntilIsInt
  <2>7. PICK o \in {0, jump}, t \in {seg.rto, seg.rto + seg.rto \div 8} : u = t - seg.age - o
    BY <2>1 DEF SetSinceFlush, FlushedSinceSet, TimersSet, SegSet
  <2>8. jump \in Int /\ SetAhead = (IF jump < 0 THEN 0 ELSE jump)
    BY <2>1, Offsets
  <2>9. t \in Nat /\ seg.rto <= t
    BY <2>3
  <2> HIDE DEF seg, u
  <2>10. seg.age + SetAhead >= seg.rto
    BY <2>3, <2>6, <2>7, <2>8, <2>9
  <2> QED
    BY <2>10 DEF seg
<1> QED
  BY <1>1, Invariance, PTL DEF Spec, NoEarlyTimeout
================================================================================
