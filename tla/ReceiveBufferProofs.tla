--------------------------- MODULE ReceiveBufferProofs ---------------------------
(***************************************************************************)
(* What ReceiveBuffer guarantees for every window, any number of nodes and *)
(* any range of sequence numbers: first what the macros of IQueue do to a  *)
(* list, then the walks over the lists, then the operations.               *)
(***************************************************************************)
EXTENDS ReceiveBuffer, Facts, FiniteSetTheorems

------------------------------------------------------------------------------
(* Lists.                                                                  *)

Places == Pool \cup Heads

\* n after the first p elements.
Insert(s, p, n) ==
    [i \in 1..(Len(s) + 1) |-> IF i <= p THEN s[i] ELSE IF i = p + 1 THEN n ELSE s[i - 1]]

LEMMA HeadsApart ==
    /\ Buf \in Heads /\ Que \in Heads /\ Buf # Que
    /\ Heads \cap Pool = {} /\ Null \notin Places /\ Null \notin Pool
  BY BufferAssumption DEF Heads, Places

LEMMA AtIs ==
    ASSUME NEW head \in Heads, NEW s \in Seq(Pool)
    PROVE  /\ Len(s) \in Nat
           /\ At(head, s, 0) = head /\ At(head, s, Len(s) + 1) = head
           /\ \A i \in 1..Len(s) : At(head, s, i) = s[i] /\ s[i] \in Pool /\ s[i] # head
           /\ \A i \in Int : At(head, s, i) \in Elements(s) \cup {head}
           /\ \A i \in Int : At(head, s, i) \in Places
           /\ Elements(s) \subseteq Pool
<1>1. Len(s) \in Nat /\ \A i \in 1..Len(s) : s[i] \in Pool
  BY ElementsOf
<1> QED
  BY <1>1, HeadsApart DEF At, Elements, Places

\* The links of the nodes of a list are all that matters to it.
LEMMA LinkedElsewhere ==
    ASSUME NEW r, NEW r2, NEW head \in Heads, NEW s \in Seq(Pool), Linked(r, head, s),
           \A x \in Elements(s) \cup {head} : r2.next[x] = r.next[x] /\ r2.prev[x] = r.prev[x]
    PROVE  Linked(r2, head, s)
<1>1. Len(s) \in Nat /\ \A i \in Int : At(head, s, i) \in Elements(s) \cup {head}
  BY AtIs
<1> QED
  BY <1>1 DEF Linked

\* iqueue_del on the first node of a list.
LEMMA FrontUnlinked ==
    ASSUME NEW r \in Rings, NEW head \in Heads, NEW s \in Seq(Pool), s # <<>>,
           Distinct(s), Linked(r, head, s), NEW u, u = Unlink(r, s[1])
    PROVE  /\ s[1] \in Pool /\ r.next[head] = s[1]
           /\ u \in Rings
           /\ u.next[s[1]] = Null /\ u.prev[s[1]] = Null
           /\ \A x \in Places : x \notin Elements(s) \cup {head} =>
                 u.next[x] = r.next[x] /\ u.prev[x] = r.prev[x]
           /\ Tail(s) \in Seq(Pool) /\ Distinct(Tail(s)) /\ Linked(u, head, Tail(s))
           /\ Elements(Tail(s)) = Elements(s) \ {s[1]}
<1> DEFINE n == s[1]
           t == Tail(s)
           behind == At(head, s, 2)
<1>1. /\ Len(s) \in Nat \ {0} /\ t \in Seq(Pool) /\ Len(t) = Len(s) - 1
      /\ \A i \in 1..Len(t) : i + 1 \in 1..Len(s) /\ t[i] = s[i + 1]
  BY TailKeeps, ElementsOf
<1>2. /\ At(head, s, 0) = head /\ At(head, s, Len(s) + 1) = head
      /\ \A i \in 1..Len(s) : At(head, s, i) = s[i] /\ s[i] \in Pool /\ s[i] # head
      /\ behind \in Elements(s) \cup {head} /\ behind \in Places
  BY AtIs
<1>3. 1 \in 1..Len(s) /\ n \in Pool /\ n # head /\ At(head, s, 1) = n /\ n \in Elements(s)
  BY <1>1, <1>2 DEF Elements
<1>4. r.next[head] = n /\ r.next[n] = behind /\ r.prev[n] = head
  <2>1. 0 \in 0..Len(s) /\ 1 \in 0..Len(s) /\ 0 + 1 = 1 /\ 1 + 1 = 2
    BY <1>1
  <2> QED
    BY <1>2, <1>3, <2>1 DEF Linked
<1>5. behind # n
  <2>1. CASE Len(s) = 1
    BY <1>2, <1>3, <2>1
  <2>2. CASE Len(s) # 1
    <3>1. 2 \in 1..Len(s)
      BY <1>1, <2>2
    <3> QED
      BY <1>2, <1>3, <3>1 DEF Distinct
  <2> QED
    BY <2>1, <2>2
<1>6. /\ head \in Places /\ n \in Places
      /\ r.next \in [Places -> Places \cup {Null}] /\ r.prev \in [Places -> Places \cup {Null}]
  BY <1>3 DEF Rings, Places
<1>7. u = [next |-> [r.next EXCEPT ![head] = behind, ![n] = Null],
           prev |-> [r.prev EXCEPT ![behind] = head, ![n] = Null]]
  BY <1>4 DEF Unlink
<1>8. u \in Rings
  BY <1>2, <1>3, <1>6, <1>7 DEF Rings, Places
<1>9. /\ u.next[n] = Null /\ u.prev[n] = Null
      /\ u.next[head] = behind /\ u.prev[behind] = head
      /\ \A x \in Places : x # head /\ x # n => u.next[x] = r.next[x]
      /\ \A x \in Places : x # behind /\ x # n => u.prev[x] = r.prev[x]
  BY <1>2, <1>3, <1>5, <1>6, <1>7
<1>10. \A x \in Places : x \notin Elements(s) \cup {head} =>
          u.next[x] = r.next[x] /\ u.prev[x] = r.prev[x]
  BY <1>2, <1>3, <1>9
<1>11. Distinct(t)
  <2> SUFFICES ASSUME NEW i \in 1..Len(t), NEW j \in 1..Len(t), t[i] = t[j] PROVE i = j
    BY DEF Distinct
  <2>1. i + 1 = j + 1
    BY <1>1 DEF Distinct
  <2> QED
    BY <2>1
<1>12. Elements(t) = Elements(s) \ {n}
  <2>1. ASSUME NEW i \in 1..Len(t) PROVE t[i] \in Elements(s) \ {n}
    <3>1. i + 1 \in 1..Len(s) /\ t[i] = s[i + 1] /\ i + 1 # 1
      BY <1>1
    <3> QED
      BY <1>3, <3>1 DEF Elements, Distinct
  <2>2. ASSUME NEW i \in 1..Len(s), s[i] # n PROVE s[i] \in Elements(t)
    <3>1. i - 1 \in 1..Len(t) /\ (i - 1) + 1 = i
      BY <1>1, <2>2
    <3>2. t[i - 1] = s[i]
      BY <1>1, <3>1
    <3> QED
      BY <3>1, <3>2 DEF Elements
  <2> QED
    BY <2>1, <2>2 DEF Elements
<1>13. Linked(u, head, t)
  <2> SUFFICES ASSUME NEW i \in 0..Len(t)
               PROVE  /\ u.next[At(head, t, i)] = At(head, t, i + 1)
                      /\ u.prev[At(head, t, i + 1)] = At(head, t, i)
    BY DEF Linked
  <2>1. At(head, t, i + 1) = At(head, s, i + 2)
    <3>1. CASE i = Len(t)
      <4>1. i + 1 \notin 1..Len(t) /\ i + 2 \notin 1..Len(s)
        BY <1>1, <3>1
      <4> QED
        BY <4>1 DEF At
    <3>2. CASE i # Len(t)
      <4>1. i + 1 \in 1..Len(t) /\ (i + 1) + 1 = i + 2 /\ i + 2 \in 1..Len(s)
        <5> HIDE DEF t
        <5> QED
          BY <1>1, <3>2
      <4> QED
        BY <1>1, <4>1 DEF At
    <3> QED
      BY <3>1, <3>2
  <2>2. CASE i = 0
    BY <1>9, <2>1, <2>2 DEF At
  <2>3. CASE i # 0
    <3>1. i \in 1..Len(t) /\ i + 1 \in 1..Len(s) /\ i + 1 \in 0..Len(s) /\ (i + 1) + 1 = i + 2
      BY <1>1, <2>3
    <3>2. At(head, t, i) = s[i + 1] /\ At(head, s, i + 1) = s[i + 1] /\ s[i + 1] \in Pool
      BY <1>1, <1>2, <3>1 DEF At
    <3>3. s[i + 1] # n /\ s[i + 1] # head /\ s[i + 1] \in Places
      BY <1>2, <1>3, <3>1, <2>3 DEF Distinct, Places
    <3>4. r.next[s[i + 1]] = At(head, s, i + 2) /\ r.prev[At(head, s, i + 2)] = s[i + 1]
      BY <3>1, <3>2 DEF Linked
    <3>5. At(head, s, i + 2) # n /\ At(head, s, i + 2) # behind /\ At(head, s, i + 2) \in Places
      <4>1. 2 \in 1..Len(s) /\ behind = s[2]
        BY <1>1, <1>2, <3>1, <2>3
      <4>2. CASE i + 2 \in 1..Len(s)
        BY <1>2, <1>3, <4>1, <4>2, <2>3 DEF Distinct, Places
      <4>3. CASE i + 2 \notin 1..Len(s)
        BY <1>2, <1>3, <1>6, <4>1, <4>3 DEF At
      <4> QED
        BY <4>2, <4>3
    <3> QED
      BY <1>9, <2>1, <3>2, <3>3, <3>4, <3>5
  <2> QED
    BY <2>2, <2>3
<1> QED
  BY <1>1, <1>3, <1>4, <1>8, <1>9, <1>10, <1>11, <1>12, <1>13

\* iqueue_add: a node not yet linked comes after the first p of a list.
LEMMA NodeLinked ==
    ASSUME NEW r \in Rings, NEW head \in Heads, NEW s \in Seq(Pool),
           Distinct(s), Linked(r, head, s),
           NEW p \in 0..Len(s), NEW n \in Pool, n \notin Elements(s),
           NEW u, u = AddAfter(r, n, At(head, s, p)), NEW t, t = Insert(s, p, n)
    PROVE  /\ u \in Rings
           /\ \A x \in Places : x \notin Elements(s) \cup {head, n} =>
                 u.next[x] = r.next[x] /\ u.prev[x] = r.prev[x]
           /\ t \in Seq(Pool) /\ Len(t) = Len(s) + 1
           /\ Distinct(t) /\ Linked(u, head, t)
           /\ Elements(t) = Elements(s) \cup {n}
<1> DEFINE at == At(head, s, p)
           follower == At(head, s, p + 1)
           m == Len(s)
<1>1. /\ m \in Nat /\ p \in Nat /\ p <= m
      /\ At(head, s, 0) = head /\ At(head, s, m + 1) = head
      /\ \A i \in 1..m : At(head, s, i) = s[i] /\ s[i] \in Pool /\ s[i] # head
      /\ \A i \in Int : At(head, s, i) \in Elements(s) \cup {head} /\ At(head, s, i) \in Places
  BY AtIs
<1>2. n # head /\ n \in Places /\ head \in Places
  BY HeadsApart DEF Places
<1>3. /\ at \in Elements(s) \cup {head} /\ at \in Places /\ at # n
      /\ follower \in Elements(s) \cup {head} /\ follower \in Places /\ follower # n
  BY <1>1, <1>2
<1>4. r.next[at] = follower
  BY <1>1 DEF Linked
<1>5. /\ r.next \in [Places -> Places \cup {Null}] /\ r.prev \in [Places -> Places \cup {Null}]
  BY DEF Rings, Places
<1>6. u = [next |-> [r.next EXCEPT ![n] = follower, ![at] = n],
           prev |-> [r.prev EXCEPT ![n] = at, ![follower] = n]]
  BY <1>4 DEF AddAfter
<1>7. u \in Rings
  BY <1>2, <1>3, <1>5, <1>6 DEF Rings, Places
<1>8. /\ u.next[n] = follower /\ u.prev[n] = at /\ u.next[at] = n /\ u.prev[follower] = n
      /\ \A x \in Places : x # at /\ x # n => u.next[x] = r.next[x]
      /\ \A x \in Places : x # follower /\ x # n => u.prev[x] = r.prev[x]
  BY <1>2, <1>3, <1>5, <1>6
<1>9. \A x \in Places : x \notin Elements(s) \cup {head, n} =>
          u.next[x] = r.next[x] /\ u.prev[x] = r.prev[x]
  BY <1>3, <1>8
<1> HIDE DEF at, follower
<1>10. /\ t \in [1..(m + 1) -> Pool]
       /\ \A i \in 1..p : t[i] = s[i]
       /\ t[p + 1] = n
       /\ \A i \in (p + 2)..(m + 1) : t[i] = s[i - 1]
  <2>1. ASSUME NEW i \in 1..(m + 1)
        PROVE  t[i] = (IF i <= p THEN s[i] ELSE IF i = p + 1 THEN n ELSE s[i - 1])
    BY DEF Insert
  <2>2. ASSUME NEW i \in 1..(m + 1)
        PROVE  t[i] \in Pool
    <3>1. i <= p => i \in 1..m
      BY <1>1
    <3>2. ~(i <= p) /\ i # p + 1 => i - 1 \in 1..m
      BY <1>1
    <3> QED
      BY <1>1, <2>1, <3>1, <3>2
  <2>3. t = [i \in 1..(m + 1) |-> t[i]]
    BY DEF Insert
  <2>4. t \in [1..(m + 1) -> Pool]
    BY <2>2, <2>3
  <2> QED
    BY <1>1, <2>1, <2>4
<1>11. t \in Seq(Pool) /\ Len(t) = m + 1
  <2>1. m + 1 \in Nat
    BY <1>1
  <2> QED
    BY <1>10, <2>1, FunctionIsSeq
<1>12. Elements(t) = Elements(s) \cup {n}
  <2>1. ASSUME NEW i \in 1..(m + 1) PROVE t[i] \in Elements(s) \cup {n}
    <3>1. CASE i \in 1..p
      BY <1>1, <1>10, <3>1 DEF Elements
    <3>2. CASE i = p + 1
      BY <1>10, <3>2
    <3>3. CASE i \in (p + 2)..(m + 1)
      <4>1. i - 1 \in 1..m
        BY <1>1, <3>3
      <4> QED
        BY <1>10, <3>3, <4>1 DEF Elements
    <3> QED
      BY <1>1, <3>1, <3>2, <3>3
  <2>2. ASSUME NEW i \in 1..m PROVE \E j \in 1..(m + 1) : t[j] = s[i]
    <3>1. CASE i <= p
      BY <1>1, <1>10, <3>1
    <3>2. CASE ~(i <= p)
      <4>1. i + 1 \in (p + 2)..(m + 1) /\ i + 1 \in 1..(m + 1) /\ (i + 1) - 1 = i
        BY <1>1, <3>2
      <4> QED
        BY <1>10, <4>1
    <3> QED
      BY <3>1, <3>2
  <2>3. p + 1 \in 1..(m + 1)
    BY <1>1
  <2>4. Elements(t) = {t[i] : i \in 1..(m + 1)}
    BY <1>11 DEF Elements
  <2>5. \A x \in Elements(s) \cup {n} : \E j \in 1..(m + 1) : t[j] = x
    BY <1>10, <2>2, <2>3 DEF Elements
  <2> QED
    BY <2>1, <2>4, <2>5
<1>13. Distinct(t)
  <2> SUFFICES ASSUME NEW i \in 1..(m + 1), NEW j \in 1..(m + 1), t[i] = t[j], i < j
               PROVE  FALSE
    BY <1>1, <1>11 DEF Distinct
  <2>1. \A k \in 1..m : s[k] # n
    BY DEF Elements
  <2>2. CASE j <= p
    <3>1. i \in 1..p /\ j \in 1..p /\ i \in 1..m /\ j \in 1..m
      BY <1>1, <2>2
    <3>2. s[i] = s[j] /\ i # j
      BY <1>10, <3>1
    <3> QED
      BY <3>1, <3>2 DEF Distinct
  <2>3. CASE j = p + 1
    <3>1. i \in 1..p /\ i \in 1..m
      BY <1>1, <2>3
    <3> QED
      BY <1>10, <2>1, <2>3, <3>1
  <2>4. CASE j \in (p + 2)..(m + 1)
    <3>1. j - 1 \in 1..m /\ t[j] = s[j - 1]
      BY <1>1, <1>10, <2>4
    <3>2. CASE i <= p
      <4>1. i \in 1..p /\ i \in 1..m /\ i # j - 1
        BY <1>1, <2>4, <3>2
      <4>2. s[i] = s[j - 1]
        BY <1>10, <3>1, <4>1
      <4> QED
        BY <3>1, <4>1, <4>2 DEF Distinct
    <3>3. CASE i = p + 1
      BY <1>10, <2>1, <3>1, <3>3
    <3>4. CASE i > p + 1
      <4>1. i \in (p + 2)..(m + 1) /\ i - 1 \in 1..m /\ i - 1 # j - 1
        BY <1>1, <2>4, <3>4
      <4>2. s[i - 1] = s[j - 1]
        BY <1>10, <3>1, <4>1
      <4> QED
        BY <3>1, <4>1, <4>2 DEF Distinct
    <3> QED
      BY <1>1, <3>2, <3>3, <3>4
  <2> QED
    BY <1>1, <2>2, <2>3, <2>4
<1>14. /\ \A i \in 0..p : At(head, t, i) = At(head, s, i)
       /\ At(head, t, p + 1) = n
       /\ \A i \in (p + 2)..(m + 2) : At(head, t, i) = At(head, s, i - 1)
  <2>1. ASSUME NEW i \in 0..p PROVE At(head, t, i) = At(head, s, i)
    <3>1. (i \in 1..(m + 1) <=> i \in 1..m) /\ (i \in 1..m <=> i \in 1..p)
      BY <1>1
    <3> QED
      BY <1>10, <1>11, <3>1 DEF At
  <2>2. At(head, t, p + 1) = n
    BY <1>1, <1>10, <1>11 DEF At
  <2>3. ASSUME NEW i \in (p + 2)..(m + 2) PROVE At(head, t, i) = At(head, s, i - 1)
    <3>1. (i \in 1..(m + 1) <=> i - 1 \in 1..m) /\ (i - 1 \in 1..m => i \in (p + 2)..(m + 1))
      BY <1>1
    <3> QED
      BY <1>10, <1>11, <3>1 DEF At
  <2> QED
    BY <2>1, <2>2, <2>3
<1>15. \A i, j \in 0..m : At(head, s, i) = At(head, s, j) => i = j
  <2> SUFFICES ASSUME NEW i \in 0..m, NEW j \in 0..m, At(head, s, i) = At(head, s, j)
               PROVE  i = j
    OBVIOUS
  <2>1. (i = 0 \/ i \in 1..m) /\ (j = 0 \/ j \in 1..m)
    BY <1>1
  <2> QED
    BY <1>1, <2>1 DEF Distinct
<1>16. \A i, j \in 1..(m + 1) : At(head, s, i) = At(head, s, j) => i = j
  <2> SUFFICES ASSUME NEW i \in 1..(m + 1), NEW j \in 1..(m + 1),
                      At(head, s, i) = At(head, s, j)
               PROVE  i = j
    OBVIOUS
  <2>1. (i = m + 1 \/ i \in 1..m) /\ (j = m + 1 \/ j \in 1..m)
    BY <1>1
  <2> QED
    BY <1>1, <2>1 DEF Distinct
<1>17. Linked(u, head, t)
  <2> SUFFICES ASSUME NEW i \in 0..(m + 1)
               PROVE  /\ u.next[At(head, t, i)] = At(head, t, i + 1)
                      /\ u.prev[At(head, t, i + 1)] = At(head, t, i)
    BY <1>11 DEF Linked
  <2>1. CASE i < p
    <3>1. i \in 0..p /\ i + 1 \in 0..p /\ i \in 0..m /\ p \in 0..m /\ i # p
          /\ i + 1 \in 1..(m + 1) /\ p + 1 \in 1..(m + 1) /\ i + 1 # p + 1
          /\ i \in Int /\ i + 1 \in Int
      BY <1>1, <2>1
    <3>2. At(head, s, i) # at /\ At(head, s, i) # n /\ At(head, s, i) \in Places
      BY <1>1, <1>2, <1>15, <3>1 DEF at
    <3>3. At(head, s, i + 1) # follower /\ At(head, s, i + 1) # n /\ At(head, s, i + 1) \in Places
      BY <1>1, <1>2, <1>16, <3>1 DEF follower
    <3>4. r.next[At(head, s, i)] = At(head, s, i + 1) /\ r.prev[At(head, s, i + 1)] = At(head, s, i)
      BY <3>1 DEF Linked
    <3> QED
      BY <1>8, <1>14, <3>1, <3>2, <3>3, <3>4
  <2>2. CASE i = p
    <3>1. At(head, t, i) = at /\ At(head, t, i + 1) = n
      BY <1>1, <1>14, <2>2 DEF at
    <3> QED
      BY <1>8, <3>1
  <2>3. CASE i = p + 1
    <3>1. p + 2 \in (p + 2)..(m + 2) /\ (p + 2) - 1 = p + 1 /\ i + 1 = p + 2
      BY <1>1, <2>3
    <3>2. At(head, t, i) = n /\ At(head, t, i + 1) = follower
      BY <1>14, <2>3, <3>1 DEF follower
    <3> QED
      BY <1>8, <3>2
  <2>4. CASE i > p + 1
    <3>1. i \in (p + 2)..(m + 2) /\ i + 1 \in (p + 2)..(m + 2) /\ (i + 1) - 1 = i
          /\ i - 1 \in 0..m /\ p \in 0..m /\ i - 1 # p /\ (i - 1) + 1 = i
          /\ i \in 1..(m + 1) /\ p + 1 \in 1..(m + 1) /\ i # p + 1
          /\ i \in Int /\ i - 1 \in Int
      BY <1>1, <2>4
    <3>2. At(head, s, i - 1) # at /\ At(head, s, i - 1) # n /\ At(head, s, i - 1) \in Places
      BY <1>1, <1>2, <1>15, <3>1 DEF at
    <3>3. At(head, s, i) # follower /\ At(head, s, i) # n /\ At(head, s, i) \in Places
      BY <1>1, <1>2, <1>16, <3>1 DEF follower
    <3>4. r.next[At(head, s, i - 1)] = At(head, s, i) /\ r.prev[At(head, s, i)] = At(head, s, i - 1)
      BY <3>1 DEF Linked
    <3>5. At(head, t, i) = At(head, s, i - 1) /\ At(head, t, i + 1) = At(head, s, i)
      BY <1>14, <3>1
    <3> QED
      BY <1>8, <3>2, <3>3, <3>4, <3>5
  <2> QED
    BY <1>1, <2>1, <2>2, <2>3, <2>4
<1> QED
  BY <1>7, <1>9, <1>11, <1>12, <1>13, <1>17

------------------------------------------------------------------------------
(* Both lists.                                                             *)

LEMMA HeldLists ==
    ASSUME NEW r, NEW b, NEW q, Holds(r, b, q)
    PROVE  /\ b \in Seq(Pool) /\ q \in Seq(Pool) /\ Distinct(b) /\ Distinct(q)
           /\ Linked(r, Buf, b) /\ Linked(r, Que, q)
           /\ Elements(b) \cap Elements(q) = {} /\ Elements(b) \subseteq Pool
           /\ Elements(q) \subseteq Pool
           /\ \A n \in Pool \ (Elements(b) \cup Elements(q)) :
                 r.next[n] = Null /\ r.prev[n] = Null
           /\ Buf \in Heads /\ Que \in Heads /\ Buf # Que /\ Heads \cap Pool = {}
           /\ Pool \subseteq Places /\ Heads \subseteq Places
<1>1. b \in Seq(Pool) /\ q \in Seq(Pool)
  BY DEF Holds
<1> QED
  BY <1>1, AtIs, HeadsApart DEF Holds, Places

\* The first segment of rcv_buf is taken off.
LEMMA BufShrinks ==
    ASSUME NEW r \in Rings, NEW b, NEW q, Holds(r, b, q), b # <<>>,
           NEW u, u = Unlink(r, b[1])
    PROVE  /\ r.next[Buf] = b[1] /\ b[1] \in Elements(b)
           /\ u \in Rings /\ Holds(u, Tail(b), q)
           /\ Elements(Tail(b)) = Elements(b) \ {b[1]}
<1>1. /\ b \in Seq(Pool) /\ q \in Seq(Pool) /\ Distinct(b) /\ Distinct(q)
      /\ Linked(r, Buf, b) /\ Linked(r, Que, q)
      /\ Elements(b) \cap Elements(q) = {} /\ Elements(b) \subseteq Pool
      /\ Elements(q) \subseteq Pool
      /\ \A n \in Pool \ (Elements(b) \cup Elements(q)) :
            r.next[n] = Null /\ r.prev[n] = Null
      /\ Buf \in Heads /\ Que \in Heads /\ Buf # Que /\ Heads \cap Pool = {}
      /\ Pool \subseteq Places /\ Heads \subseteq Places
  BY HeldLists
<1>2. /\ b[1] \in Pool /\ r.next[Buf] = b[1]
      /\ u \in Rings
      /\ u.next[b[1]] = Null /\ u.prev[b[1]] = Null
      /\ \A x \in Places : x \notin Elements(b) \cup {Buf} =>
            u.next[x] = r.next[x] /\ u.prev[x] = r.prev[x]
      /\ Tail(b) \in Seq(Pool) /\ Distinct(Tail(b)) /\ Linked(u, Buf, Tail(b))
      /\ Elements(Tail(b)) = Elements(b) \ {b[1]}
  BY <1>1, FrontUnlinked
<1>3. \A x \in Elements(q) \cup {Que} : u.next[x] = r.next[x] /\ u.prev[x] = r.prev[x]
  BY <1>1, <1>2
<1>4. Linked(u, Que, q)
  <2>1. Que \in Heads /\ q \in Seq(Pool) /\ Linked(r, Que, q)
    BY <1>1
  <2> QED
    BY <1>3, <2>1, LinkedElsewhere
<1>5. \A n \in Pool \ (Elements(Tail(b)) \cup Elements(q)) :
          u.next[n] = Null /\ u.prev[n] = Null
  BY <1>1, <1>2
<1>6. b[1] \in Elements(b)
  BY <1>1, TailKeeps, ElementsOf DEF Elements
<1> QED
  BY <1>1, <1>2, <1>4, <1>5, <1>6 DEF Holds

LEMMA QueShrinks ==
    ASSUME NEW r \in Rings, NEW b, NEW q, Holds(r, b, q), q # <<>>,
           NEW u, u = Unlink(r, q[1])
    PROVE  /\ r.next[Que] = q[1]
           /\ u \in Rings /\ Holds(u, b, Tail(q))
           /\ Elements(Tail(q)) = Elements(q) \ {q[1]}
<1>1. /\ b \in Seq(Pool) /\ q \in Seq(Pool) /\ Distinct(b) /\ Distinct(q)
      /\ Linked(r, Buf, b) /\ Linked(r, Que, q)
      /\ Elements(b) \cap Elements(q) = {} /\ Elements(b) \subseteq Pool
      /\ Elements(q) \subseteq Pool
      /\ \A n \in Pool \ (Elements(b) \cup Elements(q)) :
            r.next[n] = Null /\ r.prev[n] = Null
      /\ Buf \in Heads /\ Que \in Heads /\ Buf # Que /\ Heads \cap Pool = {}
      /\ Pool \subseteq Places /\ Heads \subseteq Places
  BY HeldLists
<1>2. /\ q[1] \in Pool /\ r.next[Que] = q[1]
      /\ u \in Rings
      /\ u.next[q[1]] = Null /\ u.prev[q[1]] = Null
      /\ \A x \in Places : x \notin Elements(q) \cup {Que} =>
            u.next[x] = r.next[x] /\ u.prev[x] = r.prev[x]
      /\ Tail(q) \in Seq(Pool) /\ Distinct(Tail(q)) /\ Linked(u, Que, Tail(q))
      /\ Elements(Tail(q)) = Elements(q) \ {q[1]}
  BY <1>1, FrontUnlinked
<1>3. \A x \in Elements(b) \cup {Buf} : u.next[x] = r.next[x] /\ u.prev[x] = r.prev[x]
  BY <1>1, <1>2
<1>4. Linked(u, Buf, b)
  <2>1. Buf \in Heads /\ b \in Seq(Pool) /\ Linked(r, Buf, b)
    BY <1>1
  <2> QED
    BY <1>3, <2>1, LinkedElsewhere
<1>5. \A n \in Pool \ (Elements(b) \cup Elements(Tail(q))) :
          u.next[n] = Null /\ u.prev[n] = Null
  BY <1>1, <1>2
<1> QED
  BY <1>1, <1>2, <1>4, <1>5 DEF Holds

\* A new node comes into rcv_buf after its first p nodes.
LEMMA BufGrows ==
    ASSUME NEW r \in Rings, NEW b, NEW q, Holds(r, b, q), NEW p \in 0..Len(b),
           NEW n \in Pool, n \notin Elements(b) \cup Elements(q),
           NEW u, u = AddAfter(Single(r, n), n, At(Buf, b, p))
    PROVE  /\ u \in Rings /\ Holds(u, Insert(b, p, n), q)
           /\ Len(Insert(b, p, n)) = Len(b) + 1
           /\ Elements(Insert(b, p, n)) = Elements(b) \cup {n}
<1> DEFINE v == Single(r, n)
           t == Insert(b, p, n)
<1>1. /\ b \in Seq(Pool) /\ q \in Seq(Pool) /\ Distinct(b) /\ Distinct(q)
      /\ Linked(r, Buf, b) /\ Linked(r, Que, q)
      /\ Elements(b) \cap Elements(q) = {} /\ Elements(b) \subseteq Pool
      /\ Elements(q) \subseteq Pool
      /\ \A x \in Pool \ (Elements(b) \cup Elements(q)) :
            r.next[x] = Null /\ r.prev[x] = Null
      /\ Buf \in Heads /\ Que \in Heads /\ Buf # Que /\ Heads \cap Pool = {}
      /\ Pool \subseteq Places /\ Heads \subseteq Places
  BY HeldLists
<1>2. v \in Rings /\ \A x \in Places : x # n => v.next[x] = r.next[x] /\ v.prev[x] = r.prev[x]
  BY <1>1 DEF Single, Rings, Places
<1>3. Linked(v, Buf, b) /\ Linked(v, Que, q)
  <2>1. \A x \in Elements(b) \cup {Buf} : v.next[x] = r.next[x] /\ v.prev[x] = r.prev[x]
    BY <1>1, <1>2
  <2>2. \A x \in Elements(q) \cup {Que} : v.next[x] = r.next[x] /\ v.prev[x] = r.prev[x]
    BY <1>1, <1>2
  <2> HIDE DEF v
  <2> QED
    BY <1>1, <2>1, <2>2, LinkedElsewhere
<1> HIDE DEF v
<1>4. u = AddAfter(v, n, At(Buf, b, p))
  BY DEF v
<1>5. /\ u \in Rings
      /\ \A x \in Places : x \notin Elements(b) \cup {Buf, n} =>
            u.next[x] = v.next[x] /\ u.prev[x] = v.prev[x]
      /\ t \in Seq(Pool) /\ Len(t) = Len(b) + 1
      /\ Distinct(t) /\ Linked(u, Buf, t)
      /\ Elements(t) = Elements(b) \cup {n}
  BY <1>1, <1>2, <1>3, <1>4, NodeLinked
<1> HIDE DEF t
<1>6. \A x \in Elements(q) \cup {Que} : u.next[x] = v.next[x] /\ u.prev[x] = v.prev[x]
  BY <1>1, <1>5
<1>7. Linked(u, Que, q)
  BY <1>1, <1>3, <1>6, LinkedElsewhere
<1>8. \A x \in Pool \ (Elements(t) \cup Elements(q)) : u.next[x] = Null /\ u.prev[x] = Null
  BY <1>1, <1>2, <1>5
<1>9. Holds(u, t, q)
  BY <1>1, <1>5, <1>7, <1>8 DEF Holds
<1> QED
  BY <1>5, <1>9 DEF t

LEMMA InsertLast ==
    ASSUME NEW s \in Seq(Pool), NEW n \in Pool
    PROVE  Insert(s, Len(s), n) = Append(s, n)
<1>1. Len(s) \in Nat /\ DOMAIN s = 1..Len(s)
  BY ElementsOf
<1>2. /\ Append(s, n) \in Seq(Pool) /\ Len(Append(s, n)) = Len(s) + 1
      /\ \A i \in 1..Len(s) : Append(s, n)[i] = s[i]
      /\ Append(s, n)[Len(s) + 1] = n
  BY <1>1, AppendAdds, AppendProperties
<1> DEFINE a == Append(s, n)
<1>3. a = [i \in 1..(Len(s) + 1) |-> a[i]]
  BY <1>2, LenProperties
<1> HIDE DEF a
<1>4. \A i \in 1..(Len(s) + 1) :
          a[i] = IF i <= Len(s) THEN s[i] ELSE IF i = Len(s) + 1 THEN n ELSE s[i - 1]
  BY <1>1, <1>2 DEF a
<1>5. a = Insert(s, Len(s), n)
  BY <1>3, <1>4 DEF Insert
<1> QED
  BY <1>5 DEF a

\* The first segment of rcv_buf goes to the tail of rcv_queue.
LEMMA FrontMoves ==
    ASSUME NEW r \in Rings, NEW b, NEW q, Holds(r, b, q), b # <<>>,
           NEW u, u = AddTail(Unlink(r, b[1]), b[1], Que)
    PROVE  /\ u \in Rings /\ Holds(u, Tail(b), Append(q, b[1])) /\ r.next[Buf] = b[1]
           /\ Elements(Tail(b)) \cup Elements(Append(q, b[1])) = Elements(b) \cup Elements(q)
<1> DEFINE v == Unlink(r, b[1])
           n == b[1]
           t == Append(q, n)
           c == Tail(b)
<1>1. /\ r.next[Buf] = n /\ v \in Rings /\ Holds(v, c, q) /\ n \in Elements(b)
      /\ Elements(c) = Elements(b) \ {n}
  BY BufShrinks
<1>2. /\ Elements(b) \cap Elements(q) = {} /\ Elements(b) \subseteq Pool
  BY HeldLists
<1> HIDE DEF v, c, n
<1>3. /\ c \in Seq(Pool) /\ q \in Seq(Pool) /\ Distinct(c) /\ Distinct(q)
      /\ Linked(v, Buf, c) /\ Linked(v, Que, q)
      /\ Elements(c) \cap Elements(q) = {} /\ Elements(c) \subseteq Pool
      /\ Elements(q) \subseteq Pool
      /\ \A x \in Pool \ (Elements(c) \cup Elements(q)) :
            v.next[x] = Null /\ v.prev[x] = Null
      /\ Buf \in Heads /\ Que \in Heads /\ Buf # Que /\ Heads \cap Pool = {}
      /\ Pool \subseteq Places /\ Heads \subseteq Places
  BY <1>1, HeldLists
<1>4. n \in Pool /\ n \notin Elements(q) /\ n \notin Elements(c)
  BY <1>1, <1>2
<1>5. Len(q) \in Nat /\ Len(q) \in 0..Len(q) /\ At(Que, q, Len(q) + 1) = Que
  BY <1>3, AtIs
<1>6. v.prev[Que] = At(Que, q, Len(q)) /\ v.next[At(Que, q, Len(q))] = Que
  BY <1>3, <1>5 DEF Linked
<1>7. u = AddAfter(v, n, At(Que, q, Len(q)))
  BY <1>6 DEF AddTail, AddAfter, v, n
<1>8. t = Insert(q, Len(q), n)
  BY <1>3, <1>4, InsertLast
<1>9. /\ u \in Rings
      /\ \A x \in Places : x \notin Elements(q) \cup {Que, n} =>
            u.next[x] = v.next[x] /\ u.prev[x] = v.prev[x]
      /\ t \in Seq(Pool) /\ Len(t) = Len(q) + 1
      /\ Distinct(t) /\ Linked(u, Que, t)
      /\ Elements(t) = Elements(q) \cup {n}
  <2> HIDE DEF t
  <2>1. v \in Rings /\ Que \in Heads /\ q \in Seq(Pool) /\ Distinct(q) /\ Linked(v, Que, q)
        /\ n \in Pool /\ n \notin Elements(q) /\ Len(q) \in 0..Len(q)
    BY <1>1, <1>3, <1>4, <1>5
  <2> QED
    BY <1>7, <1>8, <2>1, NodeLinked
<1> HIDE DEF t
<1>10. \A x \in Elements(c) \cup {Buf} : u.next[x] = v.next[x] /\ u.prev[x] = v.prev[x]
  BY <1>3, <1>4, <1>9
<1>11. Linked(u, Buf, c)
  <2>1. Buf \in Heads /\ c \in Seq(Pool) /\ Linked(v, Buf, c)
    BY <1>3
  <2> QED
    BY <1>10, <2>1, LinkedElsewhere
<1>12. \A x \in Pool \ (Elements(c) \cup Elements(t)) : u.next[x] = Null /\ u.prev[x] = Null
  BY <1>3, <1>9
<1>13. Holds(u, c, t)
  BY <1>3, <1>4, <1>9, <1>11, <1>12 DEF Holds
<1>14. Elements(c) \cup Elements(t) = Elements(b) \cup Elements(q)
  BY <1>1, <1>9
<1> QED
  BY <1>1, <1>9, <1>13, <1>14 DEF c, t, n

------------------------------------------------------------------------------
(* The walk over a list.                                                   *)

LEMMA ShortList ==
    ASSUME NEW s \in Seq(Pool), Distinct(s)
    PROVE  Len(s) \in Nat /\ Len(s) <= Cardinality(Pool) /\ Cardinality(Pool) \in Nat
<1>1. Len(s) \in Nat /\ DOMAIN s = 1..Len(s) /\ s \in [1..Len(s) -> Pool]
  BY LenProperties, ElementsOf
<1>2. s \in Injection(1..Len(s), Pool)
  BY <1>1 DEF Injection, IsInjective, Distinct
<1>3. Cardinality(1..Len(s)) <= Cardinality(Pool)
  BY <1>2, BufferAssumption, FS_Injection
<1>4. Cardinality(1..Len(s)) = Len(s)
  BY <1>1, FS_Interval
<1>5. Cardinality(Pool) \in Nat
  BY BufferAssumption, FS_CardinalityType
<1> QED
  BY <1>1, <1>3, <1>4, <1>5

LEMMA MorePlaces == Cardinality(Places) \in Nat /\ Cardinality(Places) > Cardinality(Pool)
<1>1. IsFiniteSet(Pool) /\ Buf \notin Pool /\ Que \notin Pool \cup {Buf}
  BY BufferAssumption
<1>2. /\ IsFiniteSet(Pool \cup {Buf})
      /\ Cardinality(Pool \cup {Buf}) = Cardinality(Pool) + 1
  BY <1>1, FS_AddElement
<1>3. /\ IsFiniteSet((Pool \cup {Buf}) \cup {Que})
      /\ Cardinality((Pool \cup {Buf}) \cup {Que}) = Cardinality(Pool \cup {Buf}) + 1
  BY <1>1, <1>2, FS_AddElement
<1>4. Places = (Pool \cup {Buf}) \cup {Que} /\ Cardinality(Pool) \in Nat
  BY <1>1, FS_CardinalityType DEF Places, Heads
<1> QED
  BY <1>2, <1>3, <1>4

\* Nodes finds the list.
LEMMA NodesAre ==
    ASSUME NEW r \in Rings, NEW head \in Heads, NEW s \in Seq(Pool), Distinct(s),
           Linked(r, head, s)
    PROVE  Nodes(r, head) = s
<1> DEFINE most == Cardinality(DOMAIN r.next)
           S == Places \cup {Null}
           step == [y \in S |-> IF y = Null THEN Null ELSE r.next[y]]
           R == [k \in 0..most |-> S]
<1>1. DOMAIN r.next = Places /\ r.next \in [Places -> S]
  BY DEF Rings, Places
<1>2. most \in Nat /\ Len(s) \in Nat /\ Len(s) < most
  BY <1>1, ShortList, MorePlaces
<1> HIDE DEF most
<1>3. R \in [0..most -> SUBSET S] /\ head \in R[0]
  BY <1>2 DEF Places
<1>4. Stays(step, most, R)
  BY <1>1, <1>2 DEF Stays
<1>5. PICK f \in [0..most -> S] : Follows(f, head, step, most, R)
  <2> HIDE DEF R, step, S
  <2> QED
    BY <1>2, <1>3, <1>4, Recursion
<1> DEFINE Eq(g) == g = [k \in 0..most |->
                            IF k = 0 THEN head
                            ELSE IF g[k - 1] = Null THEN Null ELSE r.next[g[k - 1]]]
           walk == CHOOSE g : Eq(g)
<1>6. Eq(f)
  <2>1. \A k \in 0..most : k # 0 => k \in 1..most
    BY <1>2
  <2>2. ASSUME NEW k \in 0..most
        PROVE f[k] = IF k = 0 THEN head
                     ELSE IF f[k - 1] = Null THEN Null ELSE r.next[f[k - 1]]
    <3>1. CASE k = 0
      BY <1>5, <3>1 DEF Follows
    <3>2. CASE k # 0
      <4>1. k \in 1..most /\ k - 1 \in 0..most
        BY <1>2, <2>1, <3>2
      <4>2. f[k] = step[f[k - 1]] /\ f[k - 1] \in S
        <5> HIDE DEF R, step
        <5>1. f[k] = step[f[k - 1]]
          BY <1>5, <4>1 DEF Follows
        <5> QED
          BY <4>1, <5>1
      <4> QED
        BY <3>2, <4>1, <4>2
    <3> QED
      BY <3>1, <3>2
  <2> QED
    BY <2>2
<1>7. Eq(walk)
  <2> HIDE DEF Eq
  <2> QED
    BY <1>6
<1> HIDE DEF walk
<1>8. \A i \in 0..most :
          walk[i] = IF i = 0 THEN head
                    ELSE IF walk[i - 1] = Null THEN Null ELSE r.next[walk[i - 1]]
  BY <1>7
<1>9. \A i \in 0..(Len(s) + 1) : walk[i] = At(head, s, i)
  <2> DEFINE T == {i \in Nat : walk[i] = At(head, s, i)}
  <2>1. 0 \in T
    BY <1>2, <1>8, AtIs
  <2>2. ASSUME NEW i \in 1..(Len(s) + 1), i - 1 \in T PROVE i \in T
    <3>1. i \in 0..most /\ i # 0 /\ i - 1 \in 0..Len(s) /\ (i - 1) + 1 = i /\ i - 1 \in Int
          /\ i \in Nat
      BY <1>2
    <3>2. walk[i - 1] = At(head, s, i - 1) /\ At(head, s, i - 1) \in Places
      BY <2>2, <3>1, AtIs
    <3>3. walk[i - 1] # Null
      BY <3>2, HeadsApart
    <3>4. walk[i] = r.next[At(head, s, i - 1)]
      BY <1>8, <3>1, <3>2, <3>3
    <3>5. r.next[At(head, s, i - 1)] = At(head, s, i)
      BY <3>1 DEF Linked
    <3> QED
      BY <3>1, <3>4, <3>5
  <2>3. 0..(Len(s) + 1) \subseteq T
    <3> HIDE DEF T
    <3>1. Len(s) + 1 \in Nat
      BY <1>2
    <3> QED
      BY <2>1, <2>2, <3>1, InductionUpTo
  <2> QED
    BY <2>3
<1> DEFINE Ends(k) == /\ walk[k + 1] \in {head, Null} \/ k = most
                      /\ \A i \in 1..k : walk[i] \notin {head, Null}
           count == CHOOSE k \in 0..most : Ends(k)
<1>10. \A i \in 1..Len(s) : walk[i] = s[i] /\ s[i] \notin {head, Null}
  <2>1. \A i \in 1..Len(s) : i \in 0..(Len(s) + 1)
    BY <1>2
  <2> QED
    BY <1>9, <2>1, AtIs, HeadsApart
<1>11. walk[Len(s) + 1] = head
  BY <1>2, <1>9, AtIs
<1>12. count = Len(s)
  <2>1. Len(s) \in 0..most /\ Ends(Len(s))
    BY <1>2, <1>10, <1>11
  <2>2. ASSUME NEW k \in 0..most, Ends(k) PROVE k = Len(s)
    <3>1. CASE k < Len(s)
      <4>1. k + 1 \in 1..Len(s) /\ k # most
        BY <1>2, <3>1
      <4> QED
        BY <1>10, <2>2, <4>1
    <3>2. CASE k > Len(s)
      <4>1. Len(s) + 1 \in 1..k
        BY <1>2, <3>2
      <4> QED
        BY <1>11, <2>2, <4>1
    <3> QED
      BY <1>2, <3>1, <3>2
  <2> HIDE DEF Ends
  <2> QED
    BY <2>1, <2>2
<1>13. Nodes(r, head) = [k \in 1..count |-> walk[k]]
  BY DEF Nodes, walk, most
<1>14. s = [k \in 1..Len(s) |-> s[k]]
  BY LenProperties
<1> HIDE DEF count
<1> QED
  BY <1>10, <1>12, <1>13, <1>14

------------------------------------------------------------------------------
(* A list without its first nodes, and a list with them added.             *)

Rest(s, j) == [i \in 1..(Len(s) - j) |-> s[i + j]]

Joined(s, t, j) ==
    [i \in 1..(Len(s) + j) |-> IF i <= Len(s) THEN s[i] ELSE t[i - Len(s)]]

LEMMA RestIs ==
    ASSUME NEW S, NEW s \in Seq(S), NEW j \in 0..Len(s), NEW t, t = Rest(s, j)
    PROVE  /\ t \in Seq(S) /\ Len(t) = Len(s) - j /\ Len(t) \in Nat /\ Len(s) \in Nat
           /\ \A i \in 1..Len(t) : i + j \in 1..Len(s) /\ t[i] = s[i + j]
<1>1. Len(s) \in Nat /\ \A i \in 1..Len(s) : s[i] \in S
  BY ElementsOf
<1>2. Len(s) - j \in Nat /\ \A i \in 1..(Len(s) - j) : i + j \in 1..Len(s)
  BY <1>1
<1>3. t \in [1..(Len(s) - j) -> S]
  BY <1>1, <1>2 DEF Rest
<1> DEFINE n == Len(s) - j
<1> HIDE DEF n
<1>4. t \in Seq(S) /\ Len(t) = n
  BY <1>2, <1>3, FunctionIsSeq DEF n
<1> QED
  BY <1>1, <1>2, <1>4 DEF Rest, n

LEMMA RestOfNone ==
    ASSUME NEW S, NEW s \in Seq(S)
    PROVE  Rest(s, 0) = s
<1> DEFINE t == Rest(s, 0)
<1>1. Len(s) \in Nat /\ 0 \in 0..Len(s)
  BY ElementsOf
<1>2. t \in Seq(S) /\ Len(t) = Len(s) /\ \A i \in 1..Len(t) : t[i] = s[i]
  BY <1>1, RestIs
<1> QED
  BY <1>2, SeqEqual

LEMMA RestStep ==
    ASSUME NEW S, NEW s \in Seq(S), NEW j \in 0..(Len(s) - 1)
    PROVE  /\ Rest(s, j) # <<>> /\ Rest(s, j)[1] = s[j + 1]
           /\ Tail(Rest(s, j)) = Rest(s, j + 1)
<1> DEFINE t == Rest(s, j)
           u == Rest(s, j + 1)
           v == Tail(t)
<1>1. Len(s) \in Nat /\ j \in 0..Len(s) /\ j + 1 \in 0..Len(s)
  BY ElementsOf
<1>2. /\ t \in Seq(S) /\ Len(t) = Len(s) - j
      /\ \A i \in 1..Len(t) : i + j \in 1..Len(s) /\ t[i] = s[i + j]
  BY <1>1, RestIs
<1>3. /\ u \in Seq(S) /\ Len(u) = Len(s) - (j + 1)
      /\ \A i \in 1..Len(u) : u[i] = s[i + (j + 1)]
  BY <1>1, RestIs
<1> HIDE DEF t, u
<1>4. Len(t) \in Nat \ {0} /\ 1 \in 1..Len(t) /\ t # <<>>
  BY <1>1, <1>2, EmptySeq
<1>5. /\ v \in Seq(S) /\ Len(v) = Len(t) - 1
      /\ \A i \in DOMAIN v : i + 1 \in DOMAIN t /\ v[i] = t[i + 1]
  BY <1>2, <1>4, TailKeeps
<1>6. DOMAIN v = 1..Len(v) /\ DOMAIN t = 1..Len(t)
  BY <1>2, <1>5, ElementsOf
<1> HIDE DEF v
<1>7. Len(u) = Len(v) /\ \A i \in 1..Len(u) : u[i] = v[i]
  <2>1. Len(u) = Len(v)
    BY <1>1, <1>2, <1>3, <1>5
  <2>2. ASSUME NEW i \in 1..Len(u) PROVE u[i] = v[i]
    <3>1. i \in DOMAIN v /\ i + 1 \in 1..Len(t) /\ (i + 1) + j = i + (j + 1)
      BY <1>1, <1>2, <1>3, <1>5, <1>6, <2>1
    <3> QED
      BY <1>2, <1>3, <1>5, <3>1
  <2> QED
    BY <2>1, <2>2
<1>8. u = v
  BY <1>3, <1>5, <1>7, SeqEqual
<1>9. t[1] = s[j + 1]
  BY <1>1, <1>2, <1>4
<1> QED
  BY <1>4, <1>8, <1>9 DEF t, u, v

Joins(u, s, t, j) ==
    /\ \A i \in 1..Len(s) : u[i] = s[i]
    /\ \A i \in 1..j : i \in 1..Len(t) /\ u[Len(s) + i] = t[i]

LEMMA JoinedIs ==
    ASSUME NEW S, NEW s \in Seq(S), NEW t \in Seq(S), NEW j \in 0..Len(t),
           NEW u, u = Joined(s, t, j)
    PROVE  /\ u \in Seq(S) /\ Len(u) = Len(s) + j /\ Len(s) \in Nat
           /\ Joins(u, s, t, j)
<1>1. /\ Len(s) \in Nat /\ \A i \in 1..Len(s) : s[i] \in S
      /\ Len(t) \in Nat /\ \A i \in 1..Len(t) : t[i] \in S
  BY ElementsOf
<1> DEFINE n == Len(s) + j
<1>2. /\ n \in Nat /\ \A i \in 1..j : i \in 1..Len(t)
      /\ \A i \in 1..n : ~(i <= Len(s)) => i - Len(s) \in 1..Len(t)
      /\ \A i \in 1..n : i <= Len(s) => i \in 1..Len(s)
      /\ \A i \in 1..Len(s) : i \in 1..n /\ i <= Len(s)
      /\ \A i \in 1..j : Len(s) + i \in 1..n /\ ~(Len(s) + i <= Len(s)) /\ (Len(s) + i) - Len(s) = i
  BY <1>1
<1>3. u \in [1..n -> S]
  BY <1>1, <1>2 DEF Joined
<1>4. u = [i \in 1..n |-> IF i <= Len(s) THEN s[i] ELSE t[i - Len(s)]]
  BY DEF Joined
<1> HIDE DEF n
<1>5. u \in Seq(S) /\ Len(u) = n
  BY <1>2, <1>3, FunctionIsSeq
<1> QED
  BY <1>1, <1>2, <1>4, <1>5 DEF n, Joins

LEMMA JoinedToNone ==
    ASSUME NEW S, NEW s \in Seq(S), NEW t \in Seq(S)
    PROVE  Joined(s, t, 0) = s
<1> DEFINE u == Joined(s, t, 0)
<1>1. 0 \in 0..Len(t)
  BY ElementsOf
<1>2. /\ u \in Seq(S) /\ Len(u) = Len(s) + 0 /\ Len(s) \in Nat
      /\ Joins(u, s, t, 0)
  BY <1>1, JoinedIs
<1> HIDE DEF u
<1>3. Len(u) = Len(s)
  BY <1>2
<1>4. u = s
  BY <1>2, <1>3, SeqEqual DEF Joins
<1> QED
  BY <1>4 DEF u

LEMMA OneMoreJoined ==
    ASSUME NEW S, NEW s \in Seq(S), NEW t \in Seq(S), NEW j \in 0..Len(t),
           NEW k \in 1..Len(t), k = j + 1, NEW x \in S, x = t[k]
    PROVE  Append(Joined(s, t, j), x) = Joined(s, t, k)
<1> DEFINE u == Joined(s, t, j)
           v == Joined(s, t, k)
           w == Append(u, x)
<1>0. u = Joined(s, t, j) /\ v = Joined(s, t, k)
  OBVIOUS
<1> HIDE DEF u, v
<1>1. k \in 0..Len(t) /\ j \in Nat /\ k \in Nat
  BY ElementsOf
<1>2. u \in Seq(S) /\ Len(u) = Len(s) + j /\ Len(s) \in Nat
  BY <1>0, JoinedIs
<1>3. Joins(u, s, t, j)
  BY <1>0, JoinedIs
<1>4. (\A i \in 1..Len(s) : u[i] = s[i]) /\ \A i \in 1..j : u[Len(s) + i] = t[i]
  BY <1>3 DEF Joins
<1>5. v \in Seq(S) /\ Len(v) = Len(s) + k
  BY <1>0, <1>1, JoinedIs
<1>6. Joins(v, s, t, k)
  BY <1>0, <1>1, JoinedIs
<1>7. (\A i \in 1..Len(s) : v[i] = s[i]) /\ \A i \in 1..k : v[Len(s) + i] = t[i]
  BY <1>6 DEF Joins
<1>8. /\ w \in Seq(S) /\ Len(w) = Len(u) + 1
      /\ \A i \in 1..Len(u) : w[i] = u[i]
      /\ w[Len(u) + 1] = x
  <2>1. u \in Seq(S) /\ x \in S
    BY <1>2
  <2> QED
    BY ONLY <2>1, AppendProperties
<1> HIDE DEF w
<1>9. Len(v) = Len(w)
  BY <1>1, <1>2, <1>5, <1>8
<1>10. ASSUME NEW i \in 1..Len(v) PROVE v[i] = w[i]
  <2>1. CASE i \in 1..Len(s)
    <3>1. i \in 1..Len(u)
      BY <1>1, <1>2, <2>1
    <3> QED
      BY <1>4, <1>7, <1>8, <2>1, <3>1
  <2>2. CASE i = Len(u) + 1
    <3>1. i = Len(s) + k /\ k \in 1..k
      BY <1>1, <1>2, <2>2
    <3> QED
      BY <1>7, <1>8, <2>2, <3>1
  <2>3. CASE ~(i \in 1..Len(s)) /\ i # Len(u) + 1
    <3> DEFINE h == i - Len(s)
    <3>1. h \in 1..j /\ h \in 1..k /\ i = Len(s) + h /\ i \in 1..Len(u)
      BY <1>1, <1>2, <1>5, <2>3
    <3> HIDE DEF h
    <3> QED
      BY <1>4, <1>7, <1>8, <3>1
  <2> QED
    BY <2>1, <2>2, <2>3
<1>11. v = w
  BY <1>5, <1>8, <1>9, <1>10, SeqEqual
<1> QED
  BY <1>11 DEF u, v, w

LEMMA JoinedStep ==
    ASSUME NEW S, NEW s \in Seq(S), NEW t \in Seq(S), NEW j \in 0..(Len(t) - 1)
    PROVE  Append(Joined(s, t, j), t[j + 1]) = Joined(s, t, j + 1)
<1> DEFINE k == j + 1
           x == t[k]
<1>1. j \in 0..Len(t) /\ k \in 1..Len(t) /\ k = j + 1 /\ x \in S
  BY ElementsOf
<1> HIDE DEF k
<1>2. x = t[k]
  OBVIOUS
<1> HIDE DEF x
<1>3. Append(Joined(s, t, j), x) = Joined(s, t, k)
  BY <1>1, <1>2, OneMoreJoined
<1> QED
  BY <1>3 DEF k, x

------------------------------------------------------------------------------
(* Sequence numbers.                                                       *)

Half == SnRange \div 2

LEMMA Ranges ==
    ASSUME NEW w \in Windows
    PROVE  /\ MaxWindow \in Nat \ {0} /\ w \in 1..MaxWindow
           /\ Half \in Nat \ {0} /\ SnRange \in Nat \ {0} /\ SnRange = Half + Half
           /\ MaxAge \in Nat /\ MaxWindow + MaxAge < Half
<1>1. /\ Windows \in SUBSET Int /\ SnRange \in Nat /\ MaxAge \in Nat /\ SnRange = Half + Half
      /\ SnRange \in Int /\ \A x \in Windows : x \in Nat \ {0} /\ x <= SnRange
      /\ MaxWindow + MaxAge < Half
  BY BufferAssumption DEF Half
<1>2. MaxWindow \in Windows /\ \A x \in Windows : x <= MaxWindow
  BY <1>1, MaxIs, Zenon DEF MaxWindow
<1>3. Half \in Int
  BY <1>1 DEF Half
<1> QED
  BY <1>1, <1>2, <1>3

\* _itimediff finds the distance of two numbers from their sn.
LEMMA SnDistance ==
    ASSUME NEW n \in Nat, NEW m \in Nat, NEW w \in Nat, NEW c \in Windows,
           n - (m + w) \in (-Half)..(Half - 1), NEW y, y = (m % SnRange) + w
    PROVE  Itimediff(n % SnRange, y) = n - (m + w)
<1>1. Half \in Nat \ {0} /\ SnRange \in Nat \ {0} /\ SnRange = Half + Half
  BY Ranges
<1>0. n \in Int /\ m \in Int
  OBVIOUS
<1>2. PICK p \in Int : n % SnRange \in 0..(SnRange - 1) /\ n = (n % SnRange) + p * SnRange
  BY <1>0, <1>1, Remainder
<1>3. PICK q \in Int : m % SnRange \in 0..(SnRange - 1) /\ m = (m % SnRange) + q * SnRange
  BY <1>0, <1>1, Remainder
<1> DEFINE x == n % SnRange
           z == m % SnRange
           k == q - p
           a == x - y
           d == n - (m + w)
<1>4. x \in Int /\ z \in Int /\ y = z + w /\ n = x + p * SnRange /\ m = z + q * SnRange
  BY <1>1, <1>2, <1>3
<1>5. k \in Int /\ k * SnRange = q * SnRange - p * SnRange
      /\ q * SnRange \in Int /\ p * SnRange \in Int
  BY <1>1
<1> HIDE DEF x, z, k
<1>6. a \in Int /\ a = d + k * SnRange /\ d \in (-Half)..(Half - 1)
  BY <1>1, <1>4, <1>5
<1> HIDE DEF a, d
<1>7. Signed(a, SnRange, Half) = d
  BY <1>1, <1>5, <1>6, SignedRemainder
<1> QED
  BY <1>7 DEF Itimediff, Half, a, d, x, Signed

LEMMA SameSn ==
    ASSUME NEW n \in Nat, NEW m \in Nat, NEW c \in Windows, n % SnRange = m % SnRange,
           n - m \in (-Half)..Half
    PROVE  n = m
<1>1. Half \in Nat \ {0} /\ SnRange \in Nat \ {0} /\ SnRange = Half + Half
  BY Ranges
<1>0. n \in Int /\ m \in Int
  OBVIOUS
<1>2. PICK p \in Int : n % SnRange \in 0..(SnRange - 1) /\ n = (n % SnRange) + p * SnRange
  BY <1>0, <1>1, Remainder
<1>3. PICK q \in Int : m = (m % SnRange) + q * SnRange
  BY <1>0, <1>1, Remainder
<1> DEFINE k == p - q
<1>4. k \in Int /\ k * SnRange = p * SnRange - q * SnRange
      /\ q * SnRange \in Int /\ p * SnRange \in Int
  BY <1>1
<1> HIDE DEF k
<1>5. k * SnRange = n - m
  BY <1>1, <1>2, <1>3, <1>4
<1>6. k = 0
  BY <1>1, <1>4, <1>5, NoMultiple
<1> QED
  BY <1>1, <1>5, <1>6

------------------------------------------------------------------------------
(* The place of a segment in rcv_buf.                                      *)

\* b holds ascending numbers within the largest window.
Sorted(numbers, b, from) ==
    /\ \A i \in 1..Len(b) : numbers[b[i]] \in from..(from + MaxWindow - 1)
    /\ \A i, j \in 1..Len(b) : i < j => numbers[b[i]] < numbers[b[j]]

LEMMA PlaceIs ==
    ASSUME NEW b \in Seq(Pool), Distinct(b), Linked(ring, Buf, b), ring \in Rings,
           rcvWnd \in Windows, base \in Nat, Sorted(number, b, base),
           NEW n \in base..(base + MaxWindow - 1)
    PROVE  \E p \in 0..Len(b) :
              /\ Place(n % SnRange) = At(Buf, b, p)
              /\ \A i \in 1..p : number[b[i]] <= n
              /\ \A i \in (p + 1)..Len(b) : number[b[i]] > n
              /\ Repeats(Place(n % SnRange), n % SnRange) <=> p # 0 /\ number[b[p]] = n
<1> DEFINE sn == n % SnRange
           m == Len(b)
           most == Cardinality(Pool)
<1>1. /\ MaxWindow \in Nat /\ Half \in Nat /\ SnRange = Half + Half
      /\ MaxWindow < Half /\ n \in Nat
  BY Ranges
<1>2. /\ m \in Nat /\ m <= most /\ most \in Nat
      /\ At(Buf, b, 0) = Buf /\ At(Buf, b, m + 1) = Buf
      /\ \A i \in 1..m : At(Buf, b, i) = b[i] /\ b[i] \in Pool /\ b[i] # Buf
      /\ \A i \in Int : At(Buf, b, i) \in Places
  BY AtIs, HeadsApart, ShortList
<1>3. \A i \in 1..m : number[b[i]] \in base..(base + MaxWindow - 1) /\ number[b[i]] \in Nat
  BY <1>1 DEF Sorted
<1>4. ASSUME NEW i \in 1..m
      PROVE  /\ Stops(b[i], sn) <=> number[b[i]] <= n
             /\ Sn(b[i]) = sn <=> number[b[i]] = n
  <2>1. number[b[i]] \in Nat /\ n - number[b[i]] \in (-Half)..(Half - 1)
        /\ n - number[b[i]] \in (-Half)..Half
    BY <1>1, <1>3
  <2>2. Sn(b[i]) = sn <=> number[b[i]] = n
    BY <2>1, <1>1, SameSn DEF Sn
  <2>3. Itimediff(sn, Sn(b[i])) = n - number[b[i]]
    <3>1. 0 \in Nat /\ n - (number[b[i]] + 0) = n - number[b[i]]
          /\ number[b[i]] % SnRange = (number[b[i]] % SnRange) + 0
      BY <1>1, <2>1, Ranges
    <3> DEFINE k == number[b[i]]
               y == k % SnRange
    <3>2. /\ n \in Nat /\ rcvWnd \in Windows /\ k \in Nat /\ 0 \in Nat
          /\ n - (k + 0) \in (-Half)..(Half - 1) /\ y = (k % SnRange) + 0
      BY <1>1, <2>1, <3>1
    <3> HIDE DEF k, y
    <3>3. Itimediff(n % SnRange, y) = n - (k + 0)
      BY <3>2, SnDistance
    <3> QED
      BY <3>1, <3>3 DEF Sn, k, y
  <2> QED
    BY <1>1, <1>2, <2>1, <2>2, <2>3 DEF Stops
<1> HIDE DEF sn, most
<1> DEFINE T == {i \in 0..m : i = 0 \/ number[b[i]] <= n}
<1>5. Max(T) \in T /\ \A i \in T : i <= Max(T)
  <2>1. T \in SUBSET Int /\ 0 \in T /\ m \in Int /\ \A i \in T : i <= m
    BY <1>2
  <2> HIDE DEF T
  <2> QED
    BY <2>1, MaxIs
<1> DEFINE p == Max(T)
<1>6. p \in 0..m /\ (p = 0 \/ number[b[p]] <= n)
  BY <1>5
<1>7. \A i \in (p + 1)..m : number[b[i]] > n
  <2> HIDE DEF p
  <2> SUFFICES ASSUME NEW i \in (p + 1)..m PROVE number[b[i]] > n
    OBVIOUS
  <2>1. i \in 1..m /\ i \in 0..m /\ ~(i <= p)
    BY <1>2, <1>6
  <2>2. i \notin T
    BY <1>5, <2>1 DEF p
  <2> QED
    BY <1>1, <1>3, <2>1, <2>2
<1> HIDE DEF p, T
<1>8. \A i \in 1..p : number[b[i]] <= n
  <2> SUFFICES ASSUME NEW i \in 1..p PROVE number[b[i]] <= n
    OBVIOUS
  <2>1. i \in 1..m /\ p \in 1..m /\ number[b[p]] <= n /\ (i = p \/ i < p)
    BY <1>2, <1>6
  <2>2. i < p => number[b[i]] < number[b[p]]
    BY <2>1 DEF Sorted
  <2> QED
    BY <1>1, <1>3, <2>1, <2>2
<1> DEFINE V(k) == At(Buf, b, IF k <= m - p THEN m - k ELSE p)
           Eq(f) == f = [k \in 0..most |->
                            IF k = 0 THEN ring.prev[Buf]
                            ELSE IF Stops(f[k - 1], sn) THEN f[k - 1]
                            ELSE ring.prev[f[k - 1]]]
           walk == CHOOSE f : Eq(f)
<1>9. ring.prev[Buf] = V(0)
  <2>1. ring.prev[At(Buf, b, m + 1)] = At(Buf, b, m)
    BY <1>2 DEF Linked
  <2>2. 0 <= m - p /\ m - 0 = m
    BY <1>2, <1>6
  <2> QED
    BY <1>2, <2>1, <2>2
<1>10. ASSUME NEW k \in 1..most
       PROVE  V(k) = IF Stops(V(k - 1), sn) THEN V(k - 1) ELSE ring.prev[V(k - 1)]
  <2>1. CASE k - 1 < m - p
    <3> DEFINE i == m - (k - 1)
    <3>1. i \in 1..m /\ i - 1 = m - k /\ i - 1 \in 0..m /\ (i - 1) + 1 = i /\ i \in (p + 1)..m
          /\ k <= m - p /\ k - 1 <= m - p
      BY <1>2, <1>6, <2>1
    <3> HIDE DEF i
    <3>2. V(k - 1) = b[i] /\ V(k) = At(Buf, b, i - 1)
      BY <1>2, <3>1 DEF i
    <3>3. ~Stops(b[i], sn)
      <4>1. number[b[i]] > n
        BY <1>7, <3>1
      <4> QED
        BY <1>1, <1>3, <1>4, <3>1, <4>1
    <3>4. ring.prev[At(Buf, b, i)] = At(Buf, b, i - 1)
      BY <3>1 DEF Linked
    <3> QED
      BY <1>2, <3>1, <3>2, <3>3, <3>4
  <2>2. CASE ~(k - 1 < m - p)
    <3>1. V(k - 1) = At(Buf, b, p)
      <4>1. k - 1 <= m - p => m - (k - 1) = p
        BY <1>2, <1>6, <2>2
      <4> QED
        BY <4>1
    <3>2. ~(k <= m - p)
      BY <1>2, <1>6, <2>2
    <3>3. V(k) = At(Buf, b, p)
      BY <3>2
    <3>4. Stops(At(Buf, b, p), sn)
      <4>1. CASE p = 0
        BY <1>2, <4>1 DEF Stops
      <4>2. CASE p # 0
        <5>1. p \in 1..m
          BY <1>2, <1>6, <4>2
        <5> QED
          BY <1>2, <1>4, <1>6, <4>2, <5>1
      <4> QED
        BY <4>1, <4>2
    <3> QED
      BY <3>1, <3>3, <3>4
  <2> QED
    BY <2>1, <2>2
<1> HIDE DEF V
<1>11. Eq([k \in 0..most |-> V(k)])
  <2>1. ASSUME NEW k \in 0..most, k # 0
        PROVE  k \in 1..most /\ k - 1 \in 0..most
    BY <1>2, <2>1
  <2> DEFINE f == [k \in 0..most |-> V(k)]
  <2>2. ASSUME NEW k \in 0..most
        PROVE  V(k) = IF k = 0 THEN ring.prev[Buf]
                      ELSE IF Stops(f[k - 1], sn) THEN f[k - 1] ELSE ring.prev[f[k - 1]]
    <3>1. CASE k = 0
      BY <1>9, <3>1
    <3>2. CASE k # 0
      <4>1. f[k - 1] = V(k - 1)
        BY <2>1, <3>2
      <4> HIDE DEF f
      <4> QED
        BY <1>10, <2>1, <3>2, <4>1
    <3> QED
      BY <3>1, <3>2
  <2> QED
    BY <2>2
<1>12. Eq(walk)
  <2> HIDE DEF Eq
  <2> QED
    BY <1>11
<1> HIDE DEF walk
<1>13. \A k \in 0..most : walk[k] = V(k)
  <2> DEFINE U == {k \in 0..most : walk[k] = V(k)}
  <2>1. 0 \in U
    BY <1>2, <1>9, <1>12
  <2>2. ASSUME NEW k \in 1..most, k - 1 \in U PROVE k \in U
    <3>1. k \in 0..most /\ k # 0
      BY <1>2
    <3>2. walk[k] = IF Stops(walk[k - 1], sn) THEN walk[k - 1] ELSE ring.prev[walk[k - 1]]
      BY <1>12, <3>1
    <3>3. walk[k - 1] = V(k - 1)
      BY <2>2
    <3> QED
      BY <1>10, <3>1, <3>2, <3>3
  <2>3. 0..most \subseteq U
    <3> HIDE DEF U
    <3> QED
      BY <1>2, <2>1, <2>2, InductionUpTo
  <2> QED
    BY <2>3
<1>14. Place(sn) = At(Buf, b, p)
  <2>1. Place(sn) = walk[most]
    BY DEF Place, walk, most
  <2>2. most \in 0..most /\ (most <= m - p => m - most = p)
    BY <1>2, <1>6
  <2>3. V(most) = At(Buf, b, p)
    BY <2>2 DEF V
  <2> QED
    BY <1>13, <2>1, <2>2, <2>3
<1>15. Repeats(Place(sn), sn) <=> p # 0 /\ number[b[p]] = n
  <2>1. CASE p = 0
    BY <1>2, <1>14, <2>1 DEF Repeats
  <2>2. CASE p # 0
    <3>1. p \in 1..m
      BY <1>2, <1>6, <2>2
    <3> QED
      BY <1>2, <1>4, <1>14, <2>2, <3>1 DEF Repeats
  <2> QED
    BY <2>1, <2>2
<1> QED
  BY <1>6, <1>7, <1>8, <1>14, <1>15 DEF sn

------------------------------------------------------------------------------
(* What moves from rcv_buf to rcv_queue.                                   *)

Moves == [ring : Rings, buf : Int, que : Nat, nxt : Nat]

\* After the first j segments of b have moved.
Passed(m, numbers, b, q, from, j) ==
    /\ m \in Moves
    /\ Holds(m.ring, Rest(b, j), Joined(q, b, j))
    /\ Elements(Rest(b, j)) \cup Elements(Joined(q, b, j)) = Elements(b) \cup Elements(q)
    /\ m.buf = Len(b) - j /\ m.que = Len(q) + j /\ m.nxt = (from + j) % SnRange
    /\ \A i \in 1..j : numbers[b[i]] = from + i - 1
    /\ j > 0 => Len(q) + j <= rcvWnd

\* Nothing more moves: the next number is missing, or rcv_queue is full.
Halts(numbers, b, q, from, j) ==
    \/ j = Len(b)
    \/ numbers[b[j + 1]] # from + j
    \/ Len(q) + j >= rcvWnd

Numbers(numbers, b) == numbers \in [DOMAIN numbers -> Nat] /\ Elements(b) \subseteq DOMAIN numbers

LEMMA EmptyOrNot ==
    ASSUME NEW r, NEW head \in Heads, NEW s \in Seq(Pool), Linked(r, head, s)
    PROVE  IsEmptyRing(r, head) <=> s = <<>>
<1>1. /\ Len(s) \in Nat /\ At(head, s, 0) = head /\ At(head, s, Len(s) + 1) = head
      /\ \A i \in 1..Len(s) : At(head, s, i) = s[i] /\ s[i] # head
  BY AtIs
<1>2. r.next[head] = At(head, s, 1)
  <2>1. 0 \in 0..Len(s) /\ 0 + 1 = 1
    BY <1>1
  <2> QED
    BY <1>1, <2>1 DEF Linked
<1>3. CASE s = <<>>
  <2>1. Len(s) = 0
    BY <1>3
  <2> QED
    BY <1>1, <1>2, <1>3, <2>1 DEF IsEmptyRing
<1>4. CASE s # <<>>
  <2>1. 1 \in 1..Len(s)
    BY <1>1, <1>4, EmptySeq
  <2> QED
    BY <1>1, <1>2, <1>4, <2>1 DEF IsEmptyRing
<1> QED
  BY <1>3, <1>4

\* One round of the loop moves the next segment, or nothing.
LEMMA OneMoves ==
    ASSUME NEW numbers, NEW b \in Seq(Pool), NEW q \in Seq(Pool), NEW from \in Nat,
           NEW j \in 0..Len(b), NEW m, Passed(m, numbers, b, q, from, j),
           Numbers(numbers, b), Sorted(numbers, b, from), rcvWnd \in Windows,
           NEW sns, sns = [n \in DOMAIN numbers |-> numbers[n] % SnRange],
           NEW o, o = MoveOne(m, sns)
    PROVE  /\ Halts(numbers, b, q, from, j) => o = m
           /\ ~Halts(numbers, b, q, from, j) =>
                 j + 1 \in 0..Len(b) /\ Passed(o, numbers, b, q, from, j + 1)
<1> DEFINE c == Rest(b, j)
           p == Joined(q, b, j)
<1>1. /\ m \in Moves /\ Holds(m.ring, c, p)
      /\ Elements(c) \cup Elements(p) = Elements(b) \cup Elements(q)
      /\ m.buf = Len(b) - j /\ m.que = Len(q) + j /\ m.nxt = (from + j) % SnRange
      /\ \A i \in 1..j : numbers[b[i]] = from + i - 1
      /\ j > 0 => Len(q) + j <= rcvWnd
  BY DEF Passed
<1>2. m.ring \in Rings /\ Len(b) \in Nat /\ Len(q) \in Nat /\ j \in Nat
      /\ \A i \in 1..Len(b) : b[i] \in Elements(b)
  BY <1>1, LenProperties DEF Moves, Elements
<1>3. IsEmptyRing(m.ring, Buf) <=> c = <<>>
  <2> HIDE DEF c, p
  <2>1. c \in Seq(Pool) /\ Linked(m.ring, Buf, c) /\ Buf \in Heads
    BY <1>1, HeldLists
  <2> QED
    BY <2>1, EmptyOrNot
<1>4. c = <<>> <=> j = Len(b)
  <2>1. c \in Seq(Pool) /\ Len(c) = Len(b) - j
    <3>1. c = Rest(b, j)
      OBVIOUS
    <3> HIDE DEF c
    <3> QED
      BY <3>1, RestIs
  <2> HIDE DEF c
  <2> QED
    BY <1>2, <2>1, EmptySeq
<1>5. CASE j = Len(b)
  BY <1>3, <1>4, <1>5 DEF MoveOne, Halts
<1>6. CASE j # Len(b)
  <2>1. j \in 0..(Len(b) - 1) /\ j + 1 \in 1..Len(b) /\ j + 1 \in 0..Len(b)
    BY <1>2, <1>6
  <2> DEFINE n == b[j + 1]
  <2>2. c # <<>> /\ c[1] = n /\ Tail(c) = Rest(b, j + 1) /\ Append(p, n) = Joined(q, b, j + 1)
    BY <2>1, RestStep, JoinedStep
  <2>3. n \in DOMAIN numbers /\ numbers[n] \in from..(from + MaxWindow - 1)
        /\ numbers[n] \in Nat
    BY <1>2, <2>1 DEF Numbers, Sorted
  <2> HIDE DEF n, c, p
  <2> DEFINE r == m.ring
             v == AddTail(Unlink(r, n), n, Que)
  <2>4. /\ v \in Rings /\ Holds(v, Tail(c), Append(p, n)) /\ r.next[Buf] = n
        /\ Elements(Tail(c)) \cup Elements(Append(p, n)) = Elements(c) \cup Elements(p)
    <3>1. r \in Rings /\ Holds(r, c, p) /\ v = AddTail(Unlink(r, c[1]), c[1], Que) /\ c # <<>>
      BY <1>1, <1>2, <2>2
    <3> HIDE DEF r, v
    <3>2. /\ v \in Rings /\ Holds(v, Tail(c), Append(p, c[1])) /\ r.next[Buf] = c[1]
          /\ Elements(Tail(c)) \cup Elements(Append(p, c[1])) = Elements(c) \cup Elements(p)
      BY <3>1, FrontMoves
    <3> QED
      BY <2>2, <3>2
  <2>5. sns[n] = m.nxt <=> numbers[n] = from + j
    <3>1. /\ MaxWindow \in Nat /\ rcvWnd \in 1..MaxWindow /\ Half \in Nat /\ MaxWindow < Half
          /\ SnRange \in Nat
      BY Ranges
    <3>2. from + j \in Nat /\ numbers[n] - (from + j) \in (-Half)..Half
      <4>1. j <= MaxWindow
        BY <1>1, <1>2, <3>1
      <4> DEFINE y == numbers[n]
      <4>2. y \in from..(from + MaxWindow - 1)
        BY <2>3
      <4> HIDE DEF y
      <4>3. from + j \in Nat /\ y - (from + j) \in (-Half)..Half
        BY <1>2, <3>1, <4>1, <4>2
      <4> QED
        BY <4>3 DEF y
    <3>3. sns[n] = numbers[n] % SnRange
      BY <2>3
    <3> QED
      BY <1>1, <2>3, <3>2, <3>3, SameSn
  <2>6. MoveOne(m, sns) =
            IF numbers[n] = from + j /\ Len(q) + j < rcvWnd
            THEN [Counted(m) EXCEPT !.ring = v] ELSE m
    BY <1>1, <1>3, <2>2, <2>4, <2>5 DEF MoveOne, Counted, Moves
  <2>7. rcvWnd \in Nat /\ SnRange \in Nat \ {0}
    BY Ranges
  <2>8. Halts(numbers, b, q, from, j) <=> ~(numbers[n] = from + j /\ Len(q) + j < rcvWnd)
    BY <1>2, <1>6, <2>7 DEF Halts, n
  <2>9. ASSUME numbers[n] = from + j, Len(q) + j < rcvWnd
        PROVE  Passed(o, numbers, b, q, from, j + 1)
    <3>1. o = [ring |-> v, buf |-> m.buf - 1, que |-> m.que + 1, nxt |-> (m.nxt + 1) % SnRange]
      BY <1>1, <2>6, <2>9 DEF Counted, Moves
    <3>2. (m.nxt + 1) % SnRange = (from + (j + 1)) % SnRange
      <4> DEFINE a == from + j
      <4>1. a \in Int /\ a + 1 = from + (j + 1) /\ m.nxt = a % SnRange
        BY <1>1, <1>2
      <4> HIDE DEF a
      <4> QED
        BY <2>7, <4>1, RemainderGoesOn
    <3>3. m.buf \in Int /\ m.que \in Nat /\ m.nxt \in Nat /\ (m.nxt + 1) % SnRange \in Nat
      <4>1. m.buf \in Int /\ m.que \in Nat /\ m.nxt \in Nat
        BY <1>1 DEF Moves
      <4> DEFINE x == m.nxt + 1
      <4>2. x \in Int
        BY <4>1
      <4> HIDE DEF x
      <4>3. x % SnRange \in 0..(SnRange - 1)
        BY <2>7, <4>2, Remainder
      <4> QED
        BY <2>7, <4>1, <4>3 DEF x
    <3>4. o \in Moves /\ o.ring = v /\ o.buf = Len(b) - (j + 1) /\ o.que = Len(q) + (j + 1)
          /\ o.nxt = (from + (j + 1)) % SnRange
      <4>1. o \in Moves
        <5>1. m.buf - 1 \in Int /\ m.que + 1 \in Nat
          BY <3>3
        <5> QED
          BY ONLY <2>4, <3>1, <3>3, <5>1 DEF Moves
      <4>2. o.buf = Len(b) - (j + 1) /\ o.que = Len(q) + (j + 1)
        BY <1>1, <1>2, <3>1, <3>3
      <4> QED
        BY <3>1, <3>2, <4>1, <4>2
    <3>5. \A i \in 1..(j + 1) : numbers[b[i]] = from + i - 1
      <4>1. \A i \in 1..(j + 1) : i = j + 1 \/ i \in 1..j
        BY <1>2
      <4>2. numbers[b[j + 1]] = from + (j + 1) - 1
        BY <1>2, <2>9 DEF n
      <4> QED
        BY <1>1, <4>1, <4>2
    <3>6. Len(q) + (j + 1) <= rcvWnd
      BY <1>2, <2>7, <2>9
    <3> QED
      BY <1>1, <2>2, <2>4, <3>4, <3>5, <3>6 DEF Passed
  <2> QED
    BY <2>1, <2>6, <2>8, <2>9
<1> QED
  BY <1>5, <1>6
\* Where the loop ends.
LEMMA MovedIs ==
    ASSUME NEW links \in Rings, NEW numbers, NEW b, NEW q, Holds(links, b, q),
           NEW from \in Nat, rcvNxt = from % SnRange, rcvWnd \in Windows,
           Numbers(numbers, b), Sorted(numbers, b, from),
           NEW buf, buf = Len(b), NEW que, que = Len(q)
    PROVE  \E j \in 0..Len(b) :
              /\ Passed(Moved(links, numbers, buf, que), numbers, b, q, from, j)
              /\ Halts(numbers, b, q, from, j)
<1> DEFINE most == Cardinality(Pool)
           sns == [n \in DOMAIN numbers |-> numbers[n] % SnRange]
           init == [ring |-> links, buf |-> buf, que |-> que, nxt |-> rcvNxt]
           step == [m \in Moves |-> MoveOne(m, sns)]
           Reached(m, k) == \E j \in 0..Len(b) :
                          /\ Passed(m, numbers, b, q, from, j)
                          /\ j = k \/ Halts(numbers, b, q, from, j)
           R == [k \in 0..most |-> {m \in Moves : Reached(m, k)}]
<1>1. /\ b \in Seq(Pool) /\ q \in Seq(Pool) /\ most \in Nat
      /\ Len(b) \in Nat /\ Len(b) <= most /\ Len(q) \in Nat
  BY HeldLists, ShortList, LenProperties
<1>2. init \in Moves /\ Passed(init, numbers, b, q, from, 0)
  <2>1. rcvNxt \in Nat
    BY Ranges
  <2>2. init \in Moves /\ init.ring = links /\ init.buf = Len(b) - 0 /\ init.que = Len(q) + 0
        /\ init.nxt = (from + 0) % SnRange
    BY <1>1, <2>1 DEF Moves
  <2>3. Rest(b, 0) = b /\ Joined(q, b, 0) = q
    BY <1>1, RestOfNone, JoinedToNone
  <2> HIDE DEF init
  <2> QED
    BY <2>2, <2>3 DEF Passed
<1> HIDE DEF sns, init, most
<1>3. R \in [0..most -> SUBSET Moves] /\ init \in R[0]
  <2>1. 0 \in 0..Len(b) /\ 0 \in 0..most
    BY <1>1
  <2> QED
    BY <1>2, <2>1
<1>4. ASSUME NEW k \in 1..most, NEW m \in R[k - 1] PROVE MoveOne(m, sns) \in R[k]
  <2>1. k \in 0..most /\ k - 1 \in 0..most
    BY <1>1
  <2>2. PICK j \in 0..Len(b) : /\ Passed(m, numbers, b, q, from, j)
                               /\ j = k - 1 \/ Halts(numbers, b, q, from, j)
    BY <2>1
  <2> DEFINE o == MoveOne(m, sns)
  <2>3. /\ Halts(numbers, b, q, from, j) => o = m
        /\ ~Halts(numbers, b, q, from, j) =>
              j + 1 \in 0..Len(b) /\ Passed(o, numbers, b, q, from, j + 1)
    <3>1. sns = [n \in DOMAIN numbers |-> numbers[n] % SnRange] /\ o = MoveOne(m, sns)
      BY DEF sns
    <3> HIDE DEF o
    <3> QED
      BY <1>1, <2>2, <3>1, OneMoves
  <2> HIDE DEF o
  <2>4. Reached(o, k)
    <3>1. CASE Halts(numbers, b, q, from, j)
      BY <2>2, <2>3, <3>1
    <3>2. CASE ~Halts(numbers, b, q, from, j)
      <4>1. j + 1 = k
        BY <2>2, <3>2
      <4> QED
        BY <2>3, <3>2, <4>1
    <3> QED
      BY <3>1, <3>2
  <2>5. o \in Moves
    BY <2>4 DEF Passed
  <2> QED
    BY <2>1, <2>4, <2>5 DEF o
<1> HIDE DEF Reached
<1>5. Stays(step, most, R)
  <2>1. ASSUME NEW k \in 1..most, NEW m \in R[k - 1] PROVE step[m] \in R[k]
    <3>1. m \in Moves
      BY <1>1
    <3> HIDE DEF R
    <3> QED
      BY <1>4, <3>1
  <2> HIDE DEF R, step
  <2> QED
    BY <2>1 DEF Stays
<1>6. PICK f \in [0..most -> Moves] : Follows(f, init, step, most, R)
  <2> HIDE DEF R, step
  <2> QED
    BY <1>1, <1>3, <1>5, Recursion
<1> DEFINE Eq(g) == g = [k \in 0..most |-> IF k = 0 THEN init ELSE MoveOne(g[k - 1], sns)]
           moved == CHOOSE g : Eq(g)
<1>7. Eq(f)
  <2>1. ASSUME NEW k \in 0..most
        PROVE f[k] = IF k = 0 THEN init ELSE MoveOne(f[k - 1], sns)
    <3>1. CASE k = 0
      BY <1>6, <3>1 DEF Follows
    <3>2. CASE k # 0
      <4>1. k \in 1..most /\ k - 1 \in 0..most /\ f[k - 1] \in Moves
        BY <1>1, <3>2
      <4>2. f[k] = step[f[k - 1]]
        <5> HIDE DEF R, step
        <5> QED
          BY <1>6, <4>1 DEF Follows
      <4> QED
        BY <3>2, <4>1, <4>2
    <3> QED
      BY <3>1, <3>2
  <2> QED
    BY <2>1
<1>8. Eq(moved)
  <2> HIDE DEF Eq
  <2> QED
    BY <1>7
<1> HIDE DEF moved, step
<1>9. 0..most \subseteq {k \in 0..most : moved[k] \in R[k]}
  <2> DEFINE T == {k \in 0..most : moved[k] \in R[k]}
  <2>1. 0 \in T
    <3>1. moved[0] = init /\ 0 \in 0..most
      BY <1>1, <1>8
    <3> HIDE DEF R
    <3> QED
      BY <1>3, <3>1
  <2>2. ASSUME NEW k \in 1..most, k - 1 \in T PROVE k \in T
    <3>1. k \in 0..most /\ k # 0
      BY <1>1
    <3>2. moved[k] = MoveOne(moved[k - 1], sns)
      BY <1>8, <3>1
    <3> HIDE DEF R
    <3>3. moved[k - 1] \in R[k - 1]
      BY <2>2
    <3> QED
      BY <1>4, <3>1, <3>2, <3>3
  <2> HIDE DEF T
  <2>3. 0..most \subseteq T
    BY <1>1, <2>1, <2>2, InductionUpTo
  <2> QED
    BY <2>3 DEF T
<1>10. moved[most] \in R[most] /\ most \in 0..most
  <2> HIDE DEF R
  <2>1. most \in 0..most
    BY <1>1
  <2> QED
    BY <1>9, <2>1
<1>11. Reached(moved[most], most)
  BY <1>10
<1>12. Moved(links, numbers, buf, que) = moved[most]
  BY DEF Moved, moved, most, sns, init
<1>13. PICK j \in 0..Len(b) :
          /\ Passed(moved[most], numbers, b, q, from, j)
          /\ j = most \/ Halts(numbers, b, q, from, j)
  BY <1>11 DEF Reached
<1>14. Halts(numbers, b, q, from, j)
  <2>1. j = most => j = Len(b)
    BY <1>1
  <2> QED
    BY <1>13, <2>1 DEF Halts
<1> QED
  BY <1>12, <1>13, <1>14

------------------------------------------------------------------------------
(* What is dropped from a list.                                            *)

LEMMA RestElements ==
    ASSUME NEW S, NEW s \in Seq(S), Distinct(s), NEW k \in 0..Len(s)
    PROVE  Elements(Rest(s, k)) = Elements(s) \ {s[i] : i \in 1..k}
<1> DEFINE t == Rest(s, k)
<1>1. t = Rest(s, k)
  OBVIOUS
<1> HIDE DEF t
<1>2. /\ Len(t) = Len(s) - k /\ Len(s) \in Nat
      /\ \A i \in 1..Len(t) : i + k \in 1..Len(s) /\ t[i] = s[i + k]
  BY <1>1, RestIs
<1>3. ASSUME NEW i \in 1..Len(t) PROVE t[i] \in Elements(s) \ {s[h] : h \in 1..k}
  <2>1. i + k \in 1..Len(s) /\ t[i] = s[i + k] /\ \A h \in 1..k : h \in 1..Len(s) /\ h # i + k
    BY <1>2
  <2> QED
    BY <2>1 DEF Distinct, Elements
<1>4. ASSUME NEW i \in 1..Len(s), s[i] \notin {s[h] : h \in 1..k} PROVE s[i] \in Elements(t)
  <2>1. i - k \in 1..Len(t) /\ (i - k) + k = i
    BY <1>2, <1>4
  <2>2. t[i - k] = s[i]
    BY <1>2, <2>1
  <2> QED
    BY <2>1, <2>2 DEF Elements
<1> DEFINE front == {s[i] : i \in 1..k}
<1>5. Elements(t) \subseteq Elements(s) \ front
  <2> DEFINE E == Elements(s) \ front
  <2>1. \A i \in 1..Len(t) : t[i] \in E
    BY <1>3
  <2> HIDE DEF E
  <2>2. Elements(t) \subseteq E
    BY <2>1 DEF Elements
  <2> QED
    BY <2>2 DEF E
<1>6. Elements(s) \ front \subseteq Elements(t)
  <2> DEFINE E == Elements(t)
  <2>1. \A i \in 1..Len(s) : s[i] \notin front => s[i] \in E
    BY <1>4
  <2> HIDE DEF E, front
  <2>2. Elements(s) \ front \subseteq E
    BY <2>1 DEF Elements
  <2> QED
    BY <2>2 DEF E
<1> QED
  BY <1>1, <1>5, <1>6

\* After the first k nodes of one of the lists are taken off.
Dropped(r, head, b, q, k) ==
    IF head = Buf THEN Holds(r, Rest(b, k), q) ELSE Holds(r, b, Rest(q, k))

Dropping(head, b, q) == IF head = Buf THEN b ELSE q

LEMMA OneDropped ==
    ASSUME NEW head \in Heads, NEW b \in Seq(Pool), NEW q \in Seq(Pool),
           NEW k \in 0..(Len(Dropping(head, b, q)) - 1),
           NEW r \in Rings, Dropped(r, head, b, q, k), NEW u, u = Unlink(r, r.next[head])
    PROVE  u \in Rings /\ Dropped(u, head, b, q, k + 1)
<1>1. CASE head = Buf
  <2> DEFINE c == Rest(b, k)
  <2>1. c # <<>> /\ Tail(c) = Rest(b, k + 1)
    BY <1>1, RestStep DEF Dropping
  <2>2. Holds(r, c, q)
    BY <1>1 DEF Dropped
  <2> HIDE DEF c
  <2> DEFINE v == Unlink(r, c[1])
  <2>3. v = Unlink(r, c[1])
    OBVIOUS
  <2> HIDE DEF v
  <2>4. r.next[Buf] = c[1] /\ v \in Rings /\ Holds(v, Tail(c), q)
    BY <2>1, <2>2, <2>3, BufShrinks
  <2> QED
    BY <1>1, <2>1, <2>3, <2>4 DEF Dropped
<1>2. CASE head # Buf
  <2>0. head = Que
    BY <1>2 DEF Heads
  <2> DEFINE c == Rest(q, k)
  <2>1. c # <<>> /\ Tail(c) = Rest(q, k + 1)
    BY <1>2, RestStep DEF Dropping
  <2>2. Holds(r, b, c)
    BY <1>2 DEF Dropped
  <2> HIDE DEF c
  <2> DEFINE v == Unlink(r, c[1])
  <2>3. v = Unlink(r, c[1])
    OBVIOUS
  <2> HIDE DEF v
  <2>4. r.next[Que] = c[1] /\ v \in Rings /\ Holds(v, b, Tail(c))
    BY <2>1, <2>2, <2>3, QueShrinks
  <2> QED
    BY <1>2, <2>0, <2>1, <2>3, <2>4 DEF Dropped
<1> QED
  BY <1>1, <1>2

LEMMA FrontDropped ==
    ASSUME NEW head \in Heads, NEW links \in Rings, NEW b, NEW q, Holds(links, b, q),
           NEW count \in 0..Len(Dropping(head, b, q))
    PROVE  /\ DropFront(links, head, count) \in Rings
           /\ Dropped(DropFront(links, head, count), head, b, q, count)
<1> DEFINE step == [r \in Rings |-> Unlink(r, r.next[head])]
           R == [k \in 0..count |-> {r \in Rings : Dropped(r, head, b, q, k)}]
           list == Dropping(head, b, q)
<1>1. /\ b \in Seq(Pool) /\ q \in Seq(Pool) /\ Len(list) \in Nat /\ count \in Nat
      /\ Len(b) \in Nat /\ Len(q) \in Nat
  <2>1. b \in Seq(Pool) /\ q \in Seq(Pool)
    BY HeldLists
  <2>2. Len(b) \in Nat /\ Len(q) \in Nat
    BY <2>1, LenProperties
  <2> QED
    BY <2>1, <2>2 DEF Dropping
<1>2. R \in [0..count -> SUBSET Rings] /\ links \in R[0]
  <2>1. Rest(b, 0) = b /\ Rest(q, 0) = q
    BY <1>1, RestOfNone
  <2>2. 0 \in 0..count /\ Dropped(links, head, b, q, 0)
    BY <1>1, <2>1 DEF Dropped
  <2> QED
    BY <2>2
<1>3. ASSUME NEW k \in 1..count, NEW r \in R[k - 1] PROVE Unlink(r, r.next[head]) \in R[k]
  <2>1. k \in 0..count /\ k - 1 \in 0..count /\ k - 1 \in 0..(Len(list) - 1)
    BY <1>1
  <2>2. r \in Rings /\ Dropped(r, head, b, q, k - 1)
    BY <2>1
  <2> DEFINE h == k - 1
             u == Unlink(r, r.next[head])
  <2>3. h \in 0..(Len(Dropping(head, b, q)) - 1) /\ Dropped(r, head, b, q, h) /\ h + 1 = k
    BY <2>1, <2>2
  <2>4. u = Unlink(r, r.next[head])
    OBVIOUS
  <2> HIDE DEF h, u
  <2>5. u \in Rings /\ Dropped(u, head, b, q, h + 1)
    BY <1>1, <2>2, <2>3, <2>4, OneDropped
  <2> QED
    BY <2>1, <2>3, <2>4, <2>5
<1>4. Stays(step, count, R)
  <2>1. ASSUME NEW k \in 1..count, NEW r \in R[k - 1] PROVE step[r] \in R[k]
    <3>1. r \in Rings
      BY <1>1
    <3> HIDE DEF R
    <3> QED
      BY <1>3, <3>1
  <2> HIDE DEF R, step
  <2> QED
    BY <2>1 DEF Stays
<1>5. PICK f \in [0..count -> Rings] : Follows(f, links, step, count, R)
  <2> HIDE DEF R, step
  <2> QED
    BY <1>1, <1>2, <1>4, Recursion
<1> DEFINE Eq(g) == g = [k \in 0..count |-> IF k = 0 THEN links
                                            ELSE Unlink(g[k - 1], g[k - 1].next[head])]
           dropped == CHOOSE g : Eq(g)
<1>6. Eq(f)
  <2>1. ASSUME NEW k \in 0..count
        PROVE f[k] = IF k = 0 THEN links ELSE Unlink(f[k - 1], f[k - 1].next[head])
    <3>1. CASE k = 0
      BY <1>5, <3>1 DEF Follows
    <3>2. CASE k # 0
      <4>1. k \in 1..count /\ k - 1 \in 0..count /\ f[k - 1] \in Rings
        BY <1>1, <3>2
      <4>2. f[k] = step[f[k - 1]]
        <5> HIDE DEF R, step
        <5> QED
          BY <1>5, <4>1 DEF Follows
      <4> QED
        BY <3>2, <4>1, <4>2
    <3> QED
      BY <3>1, <3>2
  <2> QED
    BY <2>1
<1>7. Eq(dropped)
  <2> HIDE DEF Eq
  <2> QED
    BY <1>6
<1> HIDE DEF dropped, step
<1>8. 0..count \subseteq {k \in 0..count : dropped[k] \in R[k]}
  <2> DEFINE T == {k \in 0..count : dropped[k] \in R[k]}
  <2>1. 0 \in T
    <3>1. dropped[0] = links /\ 0 \in 0..count
      BY <1>1, <1>7
    <3> HIDE DEF R
    <3> QED
      BY <1>2, <3>1
  <2>2. ASSUME NEW k \in 1..count, k - 1 \in T PROVE k \in T
    <3>1. k \in 0..count /\ k # 0
      BY <1>1
    <3>2. dropped[k] = Unlink(dropped[k - 1], dropped[k - 1].next[head])
      BY <1>7, <3>1
    <3> HIDE DEF R
    <3>3. dropped[k - 1] \in R[k - 1]
      BY <2>2
    <3> QED
      BY <1>3, <3>1, <3>2, <3>3
  <2> HIDE DEF T
  <2>3. 0..count \subseteq T
    BY <1>1, <2>1, <2>2, InductionUpTo
  <2> QED
    BY <2>3 DEF T
<1>9. dropped[count] \in R[count] /\ count \in 0..count
  <2> HIDE DEF R
  <2>1. count \in 0..count
    BY <1>1
  <2> QED
    BY <1>8, <2>1
<1>10. DropFront(links, head, count) = dropped[count]
  BY DEF DropFront, dropped
<1> QED
  BY <1>9, <1>10

------------------------------------------------------------------------------
(* The invariant, said of the two lists.                                   *)

Queued(numbers, q, from) == \A i \in 1..Len(q) : numbers[q[i]] = from - Len(q) + i - 1

Sound(r, numbers, nxt, wnd, buf, que, from, b, q) ==
    /\ r \in Rings /\ Holds(r, b, q)
    /\ numbers \in [Elements(b) \cup Elements(q) -> Nat]
    /\ wnd \in Windows /\ from \in Nat /\ nxt = from % SnRange
    /\ buf = Len(b) /\ que = Len(q)
    /\ Sorted(numbers, b, from) /\ Queued(numbers, q, from)

LEMMA SoundNow ==
    ASSUME IInv
    PROVE  Sound(ring, number, rcvNxt, rcvWnd, nrcvBuf, nrcvQue, base, BufNodes, QueNodes)
<1> DEFINE b == BufNodes
           q == QueNodes
           held == [i \in 1..Len(b) |-> number[b[i]]]
<1>1. /\ ring \in Rings /\ Holds(ring, b, q) /\ rcvWnd \in Windows /\ base \in Nat
      /\ number \in [InUse -> Nat] /\ InUse = Elements(b) \cup Elements(q)
      /\ nrcvBuf = Len(b) /\ nrcvQue = Len(q)
  BY DEF IInv, TypeOK, Lists
<1>2. /\ rcvNxt = base % SnRange
      /\ \A i \in 1..Len(held) : held[i] \in base..(base + MaxWindow - 1)
      /\ \A i, j \in 1..Len(held) : i < j => held[i] < held[j]
  BY DEF IInv, BufSorted
<1>3. Queued(number, q, base)
  BY DEF IInv, Waiting, Queued
<1> HIDE DEF b, q
<1>4. Len(held) = Len(b)
  BY <1>1, HeldLists, LenProperties
<1>5. Sorted(number, b, base)
  BY <1>2, <1>4 DEF Sorted
<1>6. number \in [Elements(b) \cup Elements(q) -> Nat]
  BY <1>1
<1>7. Sound(ring, number, rcvNxt, rcvWnd, nrcvBuf, nrcvQue, base, b, q)
  BY <1>1, <1>2, <1>3, <1>5, <1>6 DEF Sound
<1> QED
  BY <1>7 DEF b, q

LEMMA SoundParts ==
    ASSUME NEW r, NEW numbers, NEW nxt, NEW wnd, NEW buf, NEW que, NEW from, NEW b, NEW q,
           Sound(r, numbers, nxt, wnd, buf, que, from, b, q)
    PROVE  /\ Nodes(r, Buf) = b /\ Nodes(r, Que) = q
           /\ b \in Seq(Pool) /\ q \in Seq(Pool) /\ Len(b) \in Nat /\ Len(q) \in Nat
           /\ DOMAIN numbers = Elements(b) \cup Elements(q) /\ numbers \in [DOMAIN numbers -> Nat]
           /\ Elements(b) \cup Elements(q) \subseteq Pool
           /\ Numbers(numbers, b) /\ nxt \in Nat
<1>1. /\ r \in Rings /\ Holds(r, b, q) /\ numbers \in [Elements(b) \cup Elements(q) -> Nat]
      /\ wnd \in Windows /\ from \in Nat /\ nxt = from % SnRange
  BY DEF Sound
<1>2. /\ b \in Seq(Pool) /\ q \in Seq(Pool) /\ Distinct(b) /\ Distinct(q)
      /\ Linked(r, Buf, b) /\ Linked(r, Que, q)
      /\ Elements(b) \subseteq Pool /\ Elements(q) \subseteq Pool
      /\ Buf \in Heads /\ Que \in Heads
  BY <1>1, HeldLists
<1>3. Nodes(r, Buf) = b /\ Nodes(r, Que) = q
  BY <1>1, <1>2, NodesAre
<1>4. DOMAIN numbers = Elements(b) \cup Elements(q) /\ numbers \in [DOMAIN numbers -> Nat]
  BY <1>1
<1>5. nxt \in Nat
  BY <1>1, Ranges
<1>6. Len(b) \in Nat /\ Len(q) \in Nat
  BY <1>2, LenProperties
<1> QED
  BY <1>2, <1>3, <1>4, <1>5, <1>6 DEF Numbers

LEMMA SoundNext ==
    ASSUME NEW b, NEW q,
           Sound(ring', number', rcvNxt', rcvWnd', nrcvBuf', nrcvQue', base', b, q)
    PROVE  IInv' /\ BufNodes' = b /\ QueNodes' = q
<1>1. /\ Nodes(ring', Buf) = b /\ Nodes(ring', Que) = q
      /\ b \in Seq(Pool) /\ q \in Seq(Pool) /\ Len(b) \in Nat /\ Len(q) \in Nat
      /\ DOMAIN number' = Elements(b) \cup Elements(q) /\ number' \in [DOMAIN number' -> Nat]
      /\ Elements(b) \cup Elements(q) \subseteq Pool /\ rcvNxt' \in Nat
  <2> DEFINE r == ring'
             numbers == number'
             nxt == rcvNxt'
             wnd == rcvWnd'
             buf == nrcvBuf'
             que == nrcvQue'
             from == base'
  <2>1. Sound(r, numbers, nxt, wnd, buf, que, from, b, q)
    OBVIOUS
  <2> HIDE DEF r, numbers, nxt, wnd, buf, que, from
  <2>2. /\ Nodes(r, Buf) = b /\ Nodes(r, Que) = q
        /\ b \in Seq(Pool) /\ q \in Seq(Pool) /\ Len(b) \in Nat /\ Len(q) \in Nat
        /\ DOMAIN numbers = Elements(b) \cup Elements(q) /\ numbers \in [DOMAIN numbers -> Nat]
        /\ Elements(b) \cup Elements(q) \subseteq Pool /\ nxt \in Nat
    BY <2>1, SoundParts
  <2> QED
    BY <2>2 DEF r, numbers, nxt
<1>2. /\ ring' \in Rings /\ Holds(ring', b, q)
      /\ rcvWnd' \in Windows /\ base' \in Nat /\ rcvNxt' = base' % SnRange
      /\ nrcvBuf' = Len(b) /\ nrcvQue' = Len(q)
      /\ Sorted(number', b, base') /\ Queued(number', q, base')
  BY DEF Sound
<1>3. BufNodes' = b /\ QueNodes' = q
  BY <1>1 DEF BufNodes, QueNodes
<1>4. TypeOK'
  BY <1>1, <1>2 DEF TypeOK, InUse
<1>5. Lists'
  BY <1>1, <1>2, <1>3 DEF Lists, InUse
<1>6. BufSorted'
  <2> DEFINE held == [i \in 1..Len(b) |-> (number')[b[i]]]
  <2>1. Len(held) = Len(b)
    BY <1>1
  <2>2. /\ \A i \in 1..Len(held) : held[i] \in base'..(base' + MaxWindow - 1)
        /\ \A i, j \in 1..Len(held) : i < j => held[i] < held[j]
    BY <1>2, <2>1 DEF Sorted
  <2> QED
    BY <1>2, <1>3, <2>2 DEF BufSorted
<1>7. Waiting'
  BY <1>2, <1>3 DEF Waiting, Queued
<1> QED
  BY <1>3, <1>4, <1>5, <1>6, <1>7 DEF IInv

\* The rest of a sorted list follows what was taken from its front.
LEMMA RestSorted ==
    ASSUME NEW numbers, NEW b \in Seq(Pool), NEW from \in Nat, NEW j \in 0..Len(b),
           NEW w \in Windows, Sorted(numbers, b, from), \A i \in 1..j : numbers[b[i]] = from + i - 1
    PROVE  Sorted(numbers, Rest(b, j), from + j)
<1> DEFINE c == Rest(b, j)
<1>0. c = Rest(b, j)
  OBVIOUS
<1> HIDE DEF c
<1>1. /\ Len(c) = Len(b) - j /\ Len(b) \in Nat /\ Len(c) \in Nat
      /\ \A i \in 1..Len(c) : i + j \in 1..Len(b) /\ c[i] = b[i + j]
  BY <1>0, RestIs
<1>2. MaxWindow \in Int
  BY Ranges
<1>3. ASSUME NEW i \in 1..Len(c) PROVE numbers[c[i]] \in (from + j)..((from + j) + MaxWindow - 1)
  <2>1. i + j \in 1..Len(b) /\ c[i] = b[i + j]
    BY <1>1
  <2>2. numbers[b[i + j]] \in from..(from + MaxWindow - 1)
    BY <2>1 DEF Sorted
  <2>3. CASE j = 0
    BY <1>2, <2>1, <2>2, <2>3
  <2>4. CASE j # 0
    <3>1. j \in 1..j /\ j \in 1..Len(b) /\ j < i + j
      BY <1>1, <2>4
    <3>2. numbers[b[j]] = from + j - 1 /\ numbers[b[j]] < numbers[b[i + j]]
      BY <2>1, <3>1 DEF Sorted
    <3> QED
      BY <1>2, <2>1, <2>2, <3>2
  <2> QED
    BY <2>3, <2>4
<1>4. ASSUME NEW i \in 1..Len(c), NEW h \in 1..Len(c), i < h PROVE numbers[c[i]] < numbers[c[h]]
  <2>1. i + j \in 1..Len(b) /\ c[i] = b[i + j] /\ h + j \in 1..Len(b) /\ c[h] = b[h + j]
        /\ i + j < h + j
    BY <1>1, <1>4
  <2> QED
    BY <2>1 DEF Sorted
<1> QED
  BY <1>0, <1>3, <1>4 DEF Sorted
LEMMA JoinedQueued ==
    ASSUME NEW numbers, NEW b \in Seq(Pool), NEW q \in Seq(Pool), NEW from \in Nat,
           NEW j \in 0..Len(b), Queued(numbers, q, from),
           \A i \in 1..j : numbers[b[i]] = from + i - 1
    PROVE  Queued(numbers, Joined(q, b, j), from + j)
<1> DEFINE p == Joined(q, b, j)
<1>0. p = Joined(q, b, j)
  OBVIOUS
<1> HIDE DEF p
<1>1. Len(p) = Len(q) + j /\ Len(q) \in Nat /\ Joins(p, q, b, j) /\ j \in Nat
  <2>1. /\ p \in Seq(Pool) /\ Len(p) = Len(q) + j /\ Len(q) \in Nat
        /\ Joins(p, q, b, j)
    BY ONLY <1>0, b \in Seq(Pool), q \in Seq(Pool), j \in 0..Len(b), JoinedIs
  <2> QED
    BY <2>1
<1>2. ASSUME NEW i \in 1..Len(p) PROVE numbers[p[i]] = (from + j) - Len(p) + i - 1
  <2>1. CASE i \in 1..Len(q)
    BY <1>1, <2>1 DEF Joins, Queued
  <2>2. CASE i \notin 1..Len(q)
    <3> DEFINE h == i - Len(q)
    <3>1. h \in 1..j /\ i = Len(q) + h
      BY <1>1, <2>2
    <3> HIDE DEF h
    <3>2. p[i] = b[h]
      BY <1>1, <3>1 DEF Joins
    <3> QED
      BY <1>1, <3>1, <3>2
  <2> QED
    BY <2>1, <2>2
<1> QED
  BY <1>0, <1>2 DEF Queued

\* What MoveAvailable does to the two lists.
Goes(numbers, b, q, j) ==
    /\ IInv' /\ BufNodes' = Rest(b, j) /\ QueNodes' = Joined(q, b, j)
    /\ number' = numbers /\ base' = base + j
    /\ \A i \in 1..j : numbers[b[i]] = base + i - 1
    /\ j > 0 => Len(q) + j <= rcvWnd
    /\ Halts(numbers, b, q, base, j)

LEMMA MoveKeeps ==
    ASSUME NEW links, NEW numbers, NEW buf, NEW que, NEW b, NEW q,
           Sound(links, numbers, rcvNxt, rcvWnd, buf, que, base, b, q),
           MoveAvailable(links, numbers, buf, que), rcvWnd' = rcvWnd
    PROVE  \E j \in 0..Len(b) : Goes(numbers, b, q, j)
<1>1. /\ links \in Rings /\ Holds(links, b, q)
      /\ numbers \in [Elements(b) \cup Elements(q) -> Nat]
      /\ rcvWnd \in Windows /\ base \in Nat /\ rcvNxt = base % SnRange
      /\ buf = Len(b) /\ que = Len(q)
      /\ Sorted(numbers, b, base) /\ Queued(numbers, q, base)
  BY DEF Sound
<1>2. b \in Seq(Pool) /\ q \in Seq(Pool) /\ Len(b) \in Nat /\ Len(q) \in Nat /\ Numbers(numbers, b)
  BY SoundParts
<1> DEFINE m == Moved(links, numbers, buf, que)
<1>3. PICK j \in 0..Len(b) : /\ Passed(m, numbers, b, q, base, j)
                             /\ Halts(numbers, b, q, base, j)
  BY <1>1, <1>2, MovedIs
<1>4. /\ ring' = m.ring /\ number' = numbers
      /\ nrcvBuf' = m.buf /\ nrcvQue' = m.que /\ rcvNxt' = m.nxt
      /\ base' = base + (m.que - que)
  BY DEF MoveAvailable
<1> HIDE DEF m
<1> DEFINE c == Rest(b, j)
           p == Joined(q, b, j)
<1>5. /\ m \in Moves /\ Holds(m.ring, c, p)
      /\ Elements(c) \cup Elements(p) = Elements(b) \cup Elements(q)
      /\ m.buf = Len(b) - j /\ m.que = Len(q) + j /\ m.nxt = (base + j) % SnRange
      /\ \A i \in 1..j : numbers[b[i]] = base + i - 1
      /\ j > 0 => Len(q) + j <= rcvWnd
  BY <1>3 DEF Passed
<1>6. Len(c) = Len(b) - j /\ Len(p) = Len(q) + j
  <2>1. c = Rest(b, j) /\ p = Joined(q, b, j)
    OBVIOUS
  <2> HIDE DEF c, p
  <2> QED
    <3>1. Len(c) = Len(b) - j
      BY ONLY <1>2, <2>1, j \in 0..Len(b), RestIs
    <3>2. p \in Seq(Pool) /\ Len(p) = Len(q) + j
      BY ONLY <1>2, <2>1, j \in 0..Len(b), JoinedIs
    <3> QED
      BY <3>1, <3>2
<1>7. base' = base + j /\ base + j \in Nat
  BY <1>1, <1>2, <1>4, <1>5
<1>8. Sorted(numbers, c, base + j) /\ Queued(numbers, p, base + j)
  BY <1>1, <1>2, <1>5, RestSorted, JoinedQueued
<1> HIDE DEF c, p
<1>9. Sound(ring', number', rcvNxt', rcvWnd', nrcvBuf', nrcvQue', base', c, p)
  BY <1>1, <1>4, <1>5, <1>6, <1>7, <1>8 DEF Sound, Moves
<1>10. IInv' /\ BufNodes' = c /\ QueNodes' = p
  BY <1>9, SoundNext
<1> QED
  BY <1>3, <1>4, <1>5, <1>7, <1>10 DEF Goes, c, p

------------------------------------------------------------------------------
(* The numbers in the lists: Reorder's held and ready.                     *)

Kept(numbers, b) == {numbers[b[i]] : i \in 1..Len(b)}

Values(numbers, q) == [i \in 1..Len(q) |-> numbers[q[i]]]

\* Reorder's Advance, said of the states before and after it.
Advances(kept, stay, window, following, following2, held2, ready2) ==
    \E n \in 0..Cardinality(kept) :
        /\ following..(following + n - 1) \subseteq kept
        /\ n > 0 => Len(stay) + n <= window
        /\ following + n \in kept => Len(stay) + n >= window
        /\ following2 = following + n
        /\ held2 = kept \ (following..(following + n - 1))
        /\ ready2 = stay \o [i \in 1..n |-> following + i - 1]

Advanced(kept, stay) ==
    Advances(kept, stay, rcvWnd, base, base', Kept(number', BufNodes'), Values(number', QueNodes'))

LEMMA AdvancesWhere ==
    ASSUME NEW kept, NEW stay, NEW window, NEW following, NEW following2, NEW held2, NEW ready2,
           NEW n \in 0..Cardinality(kept),
           following..(following + n - 1) \subseteq kept,
           n > 0 => Len(stay) + n <= window,
           following + n \in kept => Len(stay) + n >= window,
           following2 = following + n,
           held2 = kept \ (following..(following + n - 1)),
           ready2 = stay \o [i \in 1..n |-> following + i - 1]
    PROVE  Advances(kept, stay, window, following, following2, held2, ready2)
  BY Zenon DEF Advances

\* What MoveAvailable does is what Reorder calls Advance.
LEMMA GoesAdvances ==
    ASSUME NEW numbers, NEW b \in Seq(Pool), NEW q \in Seq(Pool), NEW j \in 0..Len(b),
           base \in Nat, rcvWnd \in Windows, Sorted(numbers, b, base), Goes(numbers, b, q, j)
    PROVE  Advanced(Kept(numbers, b), Values(numbers, q))
<1> DEFINE kept == Kept(numbers, b)
           stay == Values(numbers, q)
           run == base..(base + j - 1)
           c == Rest(b, j)
           p == Joined(q, b, j)
<1>1. /\ BufNodes' = c /\ QueNodes' = p /\ number' = numbers /\ base' = base + j
      /\ \A i \in 1..j : numbers[b[i]] = base + i - 1
      /\ j > 0 => Len(q) + j <= rcvWnd
      /\ Halts(numbers, b, q, base, j)
  BY DEF Goes
<1>2. MaxWindow \in Nat /\ rcvWnd \in Nat /\ Len(b) \in Nat /\ Len(q) \in Nat /\ j \in Nat
  BY Ranges, LenProperties
<1>3. /\ \A i \in 1..Len(b) : numbers[b[i]] \in base..(base + MaxWindow - 1)
      /\ \A i, h \in 1..Len(b) : i < h => numbers[b[i]] < numbers[b[h]]
  BY DEF Sorted
<1>4. /\ Len(c) = Len(b) - j
      /\ \A i \in 1..Len(c) : i + j \in 1..Len(b) /\ c[i] = b[i + j]
  <2>1. c = Rest(b, j)
    OBVIOUS
  <2> HIDE DEF c
  <2> QED
    BY ONLY <2>1, b \in Seq(Pool), j \in 0..Len(b), RestIs
<1>5. Len(p) = Len(q) + j /\ Joins(p, q, b, j)
  <2>1. p = Joined(q, b, j)
    OBVIOUS
  <2> HIDE DEF p
  <2>2. p \in Seq(Pool) /\ Len(p) = Len(q) + j /\ Joins(p, q, b, j)
    BY ONLY <2>1, b \in Seq(Pool), q \in Seq(Pool), j \in 0..Len(b), JoinedIs
  <2> QED
    BY <2>2
<1> HIDE DEF c, p
<1>6. run \subseteq kept
  <2> SUFFICES ASSUME NEW x \in run PROVE x \in kept
    OBVIOUS
  <2> DEFINE i == x - base + 1
  <2>1. i \in 1..j /\ i \in 1..Len(b) /\ base + i - 1 = x
    BY <1>2
  <2> HIDE DEF i
  <2>2. numbers[b[i]] = x
    BY <1>1, <2>1
  <2> QED
    BY <2>1, <2>2 DEF Kept
<1>7. j \in 0..Cardinality(kept)
  <2>1. kept \subseteq base..(base + MaxWindow - 1)
    BY <1>3 DEF Kept
  <2>2. IsFiniteSet(base..(base + MaxWindow - 1))
    BY <1>2, FS_Interval
  <2>3. IsFiniteSet(kept)
    BY <2>1, <2>2, FS_Subset
  <2>4. Cardinality(run) <= Cardinality(kept)
    BY <1>6, <2>3, FS_Subset
  <2>5. Cardinality(run) = j
    <3>1. base \in Int /\ base + j - 1 \in Int
      BY <1>2
    <3>2. Cardinality(run) = IF base > base + j - 1 THEN 0 ELSE (base + j - 1) - base + 1
      BY <3>1, FS_Interval
    <3> HIDE DEF run
    <3> QED
      BY <1>2, <3>2
  <2>6. Cardinality(kept) \in Nat
    BY <2>3, FS_CardinalityType
  <2> QED
    BY <1>2, <2>4, <2>5, <2>6
<1>8. Len(stay) = Len(q)
  BY <1>2 DEF Values
<1>9. j > 0 => Len(stay) + j <= rcvWnd
  BY <1>1, <1>8
<1>10. base + j \in kept => Len(stay) + j >= rcvWnd
  <2> SUFFICES ASSUME NEW i \in 1..Len(b), numbers[b[i]] = base + j
               PROVE  Len(q) + j >= rcvWnd
    BY <1>8 DEF Kept
  <2>1. i > j
    <3> SUFFICES ASSUME i \in 1..j PROVE FALSE
      BY <1>2
    <3> QED
      BY <1>1, <1>2
  <2>2. j + 1 \in 1..Len(b) /\ j # Len(b)
    BY <1>2, <2>1
  <2>3. numbers[b[j + 1]] <= base + j /\ numbers[b[j + 1]] \in Int
    <3>1. i = j + 1 \/ j + 1 < i
      BY <1>2, <2>1
    <3> QED
      BY <1>2, <1>3, <2>2, <3>1
  <2>4. numbers[b[j + 1]] >= base + j
    <3>1. CASE j = 0
      BY <1>2, <1>3, <2>2, <3>1
    <3>2. CASE j # 0
      <4>1. j \in 1..j /\ j \in 1..Len(b) /\ j < j + 1
        BY <1>2, <3>2
      <4>2. numbers[b[j]] = base + j - 1 /\ numbers[b[j]] < numbers[b[j + 1]]
        BY <1>1, <1>3, <2>2, <4>1
      <4> QED
        BY <1>2, <2>3, <4>2
    <3> QED
      BY <3>1, <3>2
  <2>5. numbers[b[j + 1]] = base + j
    BY <1>2, <2>3, <2>4
  <2> QED
    BY <1>1, <2>2, <2>5 DEF Halts
<1>11. Kept(numbers, c) = kept \ run
  <2>1. ASSUME NEW i \in 1..Len(c) PROVE numbers[c[i]] \in kept \ run
    <3>1. i + j \in 1..Len(b) /\ c[i] = b[i + j]
      BY <1>4
    <3>2. numbers[b[i + j]] > base + j - 1
      <4>1. CASE j = 0
        BY <1>2, <1>3, <3>1, <4>1
      <4>2. CASE j # 0
        <5>1. j \in 1..j /\ j \in 1..Len(b) /\ j < i + j
          BY <1>2, <3>1, <4>2
        <5>2. numbers[b[j]] = base + j - 1 /\ numbers[b[j]] < numbers[b[i + j]]
          BY <1>1, <1>3, <3>1, <5>1
        <5> QED
          BY <5>2
      <4> QED
        BY <4>1, <4>2
    <3> QED
      BY <1>2, <1>3, <3>1, <3>2 DEF Kept
  <2>2. ASSUME NEW i \in 1..Len(b), numbers[b[i]] \notin run
        PROVE  numbers[b[i]] \in Kept(numbers, c)
    <3>1. ~(i \in 1..j)
      <4> SUFFICES ASSUME i \in 1..j PROVE FALSE
        OBVIOUS
      <4>1. numbers[b[i]] = base + i - 1
        BY <1>1
      <4> QED
        BY <1>2, <2>2, <4>1
    <3>2. i - j \in 1..Len(c) /\ (i - j) + j = i
      BY <1>2, <1>4, <3>1
    <3>3. c[i - j] = b[i]
      BY <1>4, <3>2
    <3> QED
      BY <3>2, <3>3 DEF Kept
  <2> HIDE DEF run
  <2> QED
    BY <2>1, <2>2 DEF Kept
<1>12. Values(numbers, p) = stay \o [i \in 1..j |-> base + i - 1]
  <2> DEFINE more == [i \in 1..j |-> base + i - 1]
             x == Values(numbers, p)
             y == stay \o more
  <2>1. Len(more) = j /\ Len(x) = Len(q) + j
    BY <1>2, <1>5 DEF Values
  <2>2. /\ stay = [i \in 1..Len(stay) |-> stay[i]]
        /\ more = [i \in 1..Len(more) |-> more[i]]
    BY <1>8, <2>1 DEF Values
  <2>3. y = [i \in 1..(Len(q) + j) |-> IF i <= Len(q) THEN stay[i] ELSE more[i - Len(q)]]
    <3> DEFINE S == {stay[i] : i \in 1..Len(stay)} \cup Int
    <3>1. stay \in Seq(S) /\ more \in Seq(S)
      <4> HIDE DEF stay
      <4>1. stay \in [1..Len(stay) -> S] /\ more \in [1..j -> S]
        BY <1>2, <2>2
      <4> HIDE DEF S, more
      <4> QED
        BY <1>2, <1>8, <4>1
    <3> HIDE DEF S, stay, more
    <3>2. /\ y \in Seq(S) /\ Len(y) = Len(stay) + Len(more)
          /\ \A i \in 1..Len(stay) : y[i] = stay[i]
          /\ \A i \in 1..Len(more) : y[Len(stay) + i] = more[i]
      BY ONLY <3>1, ConcatProperties
    <3> HIDE DEF y
    <3>3. ASSUME NEW i \in 1..(Len(q) + j)
          PROVE  y[i] = IF i <= Len(q) THEN stay[i] ELSE more[i - Len(q)]
      <4>1. CASE i <= Len(q)
        BY <1>2, <1>8, <3>2, <4>1
      <4>2. CASE ~(i <= Len(q))
        <5>1. i - Len(q) \in 1..Len(more) /\ Len(stay) + (i - Len(q)) = i
          BY <1>2, <1>8, <2>1, <4>2
        <5> QED
          BY <3>2, <4>2, <5>1
      <4> QED
        BY <4>1, <4>2
    <3>4. y = [i \in 1..(Len(q) + j) |-> y[i]]
      BY <1>8, <2>1, <3>2
    <3> QED
      BY <3>3, <3>4
  <2>4. ASSUME NEW i \in 1..(Len(q) + j)
        PROVE  numbers[p[i]] = IF i <= Len(q) THEN stay[i] ELSE more[i - Len(q)]
    <3>1. CASE i <= Len(q)
      <4>1. i \in 1..Len(q)
        BY <1>2, <3>1
      <4>2. p[i] = q[i]
        BY <1>5, <4>1 DEF Joins
      <4> QED
        BY <3>1, <4>1, <4>2 DEF Values
    <3>2. CASE ~(i <= Len(q))
      <4> DEFINE h == i - Len(q)
      <4>1. h \in 1..j /\ i = Len(q) + h
        BY <1>2, <3>2
      <4>2. more[h] = base + h - 1
        BY <4>1
      <4> HIDE DEF h, more
      <4>3. p[i] = b[h] /\ numbers[b[h]] = base + h - 1
        BY <1>1, <1>5, <4>1 DEF Joins
      <4> QED
        BY <3>2, <4>2, <4>3 DEF h
    <3> QED
      BY <3>1, <3>2
  <2>5. x = [i \in 1..(Len(q) + j) |-> numbers[p[i]]]
    BY <1>5 DEF Values
  <2> HIDE DEF x, y, more
  <2>6. x = y
    BY <2>3, <2>4, <2>5
  <2> QED
    BY <2>6 DEF x, y, more
<1>13. /\ Values(number', QueNodes') = stay \o [i \in 1..j |-> base + i - 1]
       /\ Kept(number', BufNodes') = kept \ run
       /\ base' = base + j
  BY <1>1, <1>11, <1>12
<1> HIDE DEF kept, stay
<1>14. Advanced(kept, stay)
  <2> DEFINE held2 == Kept(number', BufNodes')
             ready2 == Values(number', QueNodes')
  <2>1. /\ ready2 = stay \o [i \in 1..j |-> base + i - 1]
        /\ held2 = kept \ (base..(base + j - 1))
        /\ base..(base + j - 1) \subseteq kept
    BY <1>6, <1>13
  <2> HIDE DEF held2, ready2
  <2>2. Advances(kept, stay, rcvWnd, base, base', held2, ready2)
    BY <1>7, <1>9, <1>10, <1>13, <2>1, AdvancesWhere
  <2> QED
    BY <2>2 DEF Advanced, held2, ready2
<1> QED
  BY <1>14 DEF kept, stay

------------------------------------------------------------------------------
(* ikcp_parse_data.                                                        *)

\* The test on sn accepts just the numbers inside the window.
LEMMA InWindowIs ==
    ASSUME base \in Nat, rcvWnd \in Windows, rcvNxt = base % SnRange,
           NEW n \in Nat, n \in (base - MaxAge)..(base + MaxWindow)
    PROVE  InWindow(n % SnRange) <=> n \in base..(base + rcvWnd - 1)
<1>1. /\ MaxWindow \in Nat \ {0} /\ rcvWnd \in 1..MaxWindow /\ Half \in Nat \ {0}
      /\ MaxAge \in Nat /\ MaxWindow + MaxAge < Half /\ rcvWnd \in Nat
  BY Ranges
<1> DEFINE x == n % SnRange
           y == rcvNxt + rcvWnd
           z == 0
<1>2. n - (base + rcvWnd) \in (-Half)..(Half - 1) /\ n - (base + 0) \in (-Half)..(Half - 1)
  BY <1>1
<1>3. y = (base % SnRange) + rcvWnd /\ rcvNxt = (base % SnRange) + z /\ z \in Nat
      /\ n - (base + z) \in (-Half)..(Half - 1)
  <2>1. base % SnRange \in Nat
    BY Ranges
  <2> QED
    BY <1>2, <2>1
<1> HIDE DEF y, z
<1>4. Itimediff(n % SnRange, y) = n - (base + rcvWnd)
  BY <1>1, <1>2, <1>3, SnDistance
<1>5. Itimediff(n % SnRange, rcvNxt) = n - (base + z)
  BY <1>3, SnDistance
<1>6. InWindow(n % SnRange) <=> n - (base + rcvWnd) < 0 /\ n - (base + 0) >= 0
  BY <1>4, <1>5 DEF InWindow, y, z
<1> QED
  BY <1>1, <1>6

\* n belongs after the first p of b.
Fits(numbers, b, p, n) ==
    /\ \A i \in 1..p : numbers[b[i]] < n
    /\ \A i \in (p + 1)..Len(b) : numbers[b[i]] > n

With(more, numbers, b, node, n) == more[node] = n /\ \A x \in Elements(b) : more[x] = numbers[x]

Added(more, numbers, n) == more = numbers \cup {n}

\* A new number among sorted ones.
LEMMA Inserted ==
    ASSUME NEW numbers, NEW b \in Seq(Pool), NEW p \in 0..Len(b), NEW node \in Pool,
           node \notin Elements(b), NEW from \in Nat, Sorted(numbers, b, from),
           MaxWindow \in Nat, NEW n \in from..(from + MaxWindow - 1),
           Fits(numbers, b, p, n), NEW more, With(more, numbers, b, node, n),
           NEW t, t = Insert(b, p, node), Len(t) = Len(b) + 1
    PROVE  Sorted(more, t, from) /\ Added(Kept(more, t), Kept(numbers, b), n)
<1>1. Len(b) \in Nat /\ MaxWindow \in Nat /\ p \in Nat /\ p <= Len(b)
  BY LenProperties
<1>2. /\ \A i \in 1..Len(b) : numbers[b[i]] \in from..(from + MaxWindow - 1)
      /\ \A i, h \in 1..Len(b) : i < h => numbers[b[i]] < numbers[b[h]]
  BY DEF Sorted
<1>3. \A i \in 1..Len(b) : more[b[i]] = numbers[b[i]]
  BY DEF Elements, With
<1>4. /\ more[node] = n
      /\ \A i \in 1..p : numbers[b[i]] < n
      /\ \A i \in (p + 1)..Len(b) : numbers[b[i]] > n
  BY DEF With, Fits
<1>5. /\ \A i \in 1..p : i \in 1..Len(b) /\ more[t[i]] = numbers[b[i]]
      /\ p + 1 \in 1..Len(t) /\ more[t[p + 1]] = n
      /\ \A i \in (p + 2)..Len(t) : i - 1 \in 1..Len(b) /\ i - 1 \in (p + 1)..Len(b)
                                    /\ more[t[i]] = numbers[b[i - 1]]
      /\ \A i \in 1..Len(t) : i \in 1..p \/ i = p + 1 \/ i \in (p + 2)..Len(t)
  <2>1. ASSUME NEW i \in 1..(Len(b) + 1)
        PROVE  t[i] = IF i <= p THEN b[i] ELSE IF i = p + 1 THEN node ELSE b[i - 1]
    BY DEF Insert
  <2>2. ASSUME NEW i \in 1..p PROVE i \in 1..Len(b) /\ more[t[i]] = numbers[b[i]]
    <3>1. i \in 1..Len(b) /\ i \in 1..(Len(b) + 1) /\ i <= p
      BY <1>1
    <3> QED
      BY <1>3, <2>1, <3>1
  <2>3. p + 1 \in 1..Len(t) /\ more[t[p + 1]] = n
    <3>1. p + 1 \in 1..(Len(b) + 1) /\ ~(p + 1 <= p)
      BY <1>1
    <3> QED
      BY <1>4, <2>1, <3>1
  <2>4. ASSUME NEW i \in (p + 2)..Len(t)
        PROVE  i - 1 \in 1..Len(b) /\ i - 1 \in (p + 1)..Len(b) /\ more[t[i]] = numbers[b[i - 1]]
    <3>1. i - 1 \in 1..Len(b) /\ i - 1 \in (p + 1)..Len(b) /\ i \in 1..(Len(b) + 1)
          /\ ~(i <= p) /\ i # p + 1
      BY <1>1
    <3> QED
      BY <1>3, <2>1, <3>1
  <2>5. \A i \in 1..Len(t) : i \in 1..p \/ i = p + 1 \/ i \in (p + 2)..Len(t)
    BY <1>1
  <2> QED
    BY <2>2, <2>3, <2>4, <2>5
<1>6. ASSUME NEW i \in 1..Len(t) PROVE more[t[i]] \in from..(from + MaxWindow - 1)
  BY <1>2, <1>5
<1>7. ASSUME NEW i \in 1..Len(t), NEW h \in 1..Len(t), i < h PROVE more[t[i]] < more[t[h]]
  <2>1. CASE h \in 1..p
    <3>1. i \in 1..p
      BY <1>1, <1>7, <2>1
    <3> QED
      BY <1>2, <1>5, <1>7, <2>1, <3>1
  <2>2. CASE h = p + 1
    <3>1. i \in 1..p
      BY <1>1, <1>7, <2>2
    <3> QED
      BY <1>4, <1>5, <2>2, <3>1
  <2>3. CASE h \in (p + 2)..Len(t)
    <3>1. CASE i \in 1..p
      <4>1. i < h - 1 /\ h - 1 \in 1..Len(b) /\ i \in 1..Len(b)
        BY <1>1, <1>5, <2>3, <3>1
      <4> QED
        BY <1>2, <1>5, <2>3, <3>1, <4>1
    <3>2. CASE i = p + 1
      <4>1. numbers[b[h - 1]] > n
        BY <1>4, <1>5, <2>3
      <4> QED
        BY <1>5, <2>3, <3>2, <4>1
    <3>3. CASE i \in (p + 2)..Len(t)
      <4>1. i - 1 < h - 1
        BY <1>7
      <4> QED
        BY <1>2, <1>5, <2>3, <3>3, <4>1
    <3> QED
      BY <1>5, <3>1, <3>2, <3>3
  <2> QED
    BY <1>5, <2>1, <2>2, <2>3
<1>8. Kept(more, t) = Kept(numbers, b) \cup {n}
  <2>1. ASSUME NEW i \in 1..Len(t) PROVE more[t[i]] \in Kept(numbers, b) \cup {n}
    BY <1>5 DEF Kept
  <2>2. ASSUME NEW i \in 1..Len(b) PROVE numbers[b[i]] \in Kept(more, t)
    <3>1. CASE i \in 1..p
      <4>1. i \in 1..Len(t) /\ more[t[i]] = numbers[b[i]]
        BY <1>1, <1>5, <3>1
      <4> QED
        BY <4>1 DEF Kept
    <3>2. CASE ~(i \in 1..p)
      <4> DEFINE h == i + 1
      <4>1. h \in (p + 2)..Len(t) /\ h - 1 = i /\ h \in 1..Len(t)
        BY <1>1, <3>2
      <4> HIDE DEF h
      <4>2. more[t[h]] = numbers[b[i]]
        BY <1>5, <4>1
      <4> QED
        BY <4>1, <4>2 DEF Kept
    <3> QED
      BY <3>1, <3>2
  <2>3. n \in Kept(more, t)
    BY <1>5 DEF Kept
  <2>4. Kept(more, t) \subseteq Kept(numbers, b) \cup {n}
    <3> DEFINE K == Kept(numbers, b)
    <3>1. \A i \in 1..Len(t) : more[t[i]] \in K \cup {n}
      BY <2>1
    <3> HIDE DEF K
    <3>2. Kept(more, t) \subseteq K \cup {n}
      BY <3>1 DEF Kept
    <3> QED
      BY <3>2 DEF K
  <2>5. Kept(numbers, b) \subseteq Kept(more, t)
    <3> DEFINE K == Kept(more, t)
    <3>1. \A i \in 1..Len(b) : numbers[b[i]] \in K
      BY <2>2
    <3> HIDE DEF K
    <3>2. Kept(numbers, b) \subseteq K
      BY <3>1 DEF Kept
    <3> QED
      BY <3>2 DEF K
  <2> QED
    BY <2>3, <2>4, <2>5
<1> QED
  BY <1>6, <1>7, <1>8 DEF Sorted, Added
\* A segment arrives: a number inside the window is kept, and what follows without
\* a gap is handed over.
LEMMA InputArrives ==
    ASSUME IInv, Input
    PROVE  IInv' /\ Ordering!Arrive
<1> DEFINE b == BufNodes
           q == QueNodes
<1>1. PICK n \in (base - MaxAge)..(base + MaxWindow), node \in Pool \ InUse :
          n \in 0..MaxNumber /\ ParseData(n, node)
  BY DEF Input
<1>2. Sound(ring, number, rcvNxt, rcvWnd, nrcvBuf, nrcvQue, base, b, q)
  BY SoundNow
<1>3. /\ ring \in Rings /\ Holds(ring, b, q) /\ rcvWnd \in Windows /\ base \in Nat
      /\ number \in [Elements(b) \cup Elements(q) -> Nat]
      /\ rcvNxt = base % SnRange /\ nrcvBuf = Len(b) /\ nrcvQue = Len(q)
      /\ Sorted(number, b, base) /\ Queued(number, q, base)
  BY <1>2 DEF Sound
<1> HIDE DEF b, q
<1>4. /\ b \in Seq(Pool) /\ q \in Seq(Pool) /\ Distinct(b) /\ Linked(ring, Buf, b)
      /\ Len(b) \in Nat /\ Len(q) \in Nat
      /\ InUse = Elements(b) \cup Elements(q) /\ Elements(b) \cap Elements(q) = {}
  BY <1>2, <1>3, HeldLists, SoundParts DEF InUse
<1>5. n \in Nat /\ node \in Pool /\ node \notin Elements(b) \cup Elements(q)
  <2>1. MaxNumber \in Nat
    BY BufferAssumption DEF BufferAssumption
  <2> QED
    BY <1>1, <1>4, <2>1
<1> DEFINE sn == n % SnRange
           place == Place(sn)
           node2 == AddAfter(Single(ring, node), node, place)
           more == [k \in InUse \cup {node} |-> IF k = node THEN n ELSE number[k]]
<1>6. /\ InWindow(sn) /\ rcvWnd' = rcvWnd
      /\ Repeats(place, sn) => MoveAvailable(ring, number, nrcvBuf, nrcvQue)
      /\ ~Repeats(place, sn) => MoveAvailable(node2, more, nrcvBuf + 1, nrcvQue)
  BY <1>1 DEF ParseData
<1>7. n \in base..(base + rcvWnd - 1) /\ n \in base..(base + MaxWindow - 1)
  <2>1. n \in base..(base + rcvWnd - 1)
    BY <1>1, <1>3, <1>5, <1>6, InWindowIs
  <2>2. rcvWnd \in 1..MaxWindow /\ MaxWindow \in Nat
    BY <1>3, Ranges
  <2> QED
    BY <1>3, <2>1, <2>2
<1>8. PICK p \in 0..Len(b) :
          /\ place = At(Buf, b, p)
          /\ \A i \in 1..p : number[b[i]] <= n
          /\ \A i \in (p + 1)..Len(b) : number[b[i]] > n
          /\ Repeats(place, sn) <=> p # 0 /\ number[b[p]] = n
  BY <1>3, <1>4, <1>7, PlaceIs
<1> HIDE DEF sn, place
<1>9. ASSUME NEW links, NEW numbers, NEW buf, NEW c,
             Sound(links, numbers, rcvNxt, rcvWnd, buf, nrcvQue, base, c, q),
             MoveAvailable(links, numbers, buf, nrcvQue),
             Kept(numbers, c) = Kept(number, b) \cup {n},
             Values(numbers, q) = Values(number, q)
      PROVE  IInv' /\ Ordering!Arrive
  <2>1. PICK j \in 0..Len(c) : Goes(numbers, c, q, j)
    BY <1>6, <1>9, MoveKeeps
  <2>2. c \in Seq(Pool) /\ Sorted(numbers, c, base)
    BY <1>9, SoundParts DEF Sound
  <2>3. Advanced(Kept(numbers, c), Values(numbers, q))
    BY <1>3, <1>4, <2>1, <2>2, GoesAdvances
  <2>4. Advanced(Kept(number, b) \cup {n}, Values(number, q))
    BY <1>9, <2>3 DEF Advanced
  <2>5. Ordering!Arrive
    BY <1>6, <1>7, <2>4 DEF Ordering!Arrive, Ordering!Advance, Cardinality, Ordering!Cardinality,
          Advanced, Advances, Kept, Values, b, q
  <2>6. IInv'
    BY <2>1 DEF Goes
  <2> QED
    BY <2>5, <2>6
<1>10. CASE Repeats(place, sn)
  <2>1. p \in 1..Len(b) /\ number[b[p]] = n
    BY <1>4, <1>8, <1>10
  <2>2. Kept(number, b) = Kept(number, b) \cup {n}
    BY <2>1 DEF Kept
  <2> QED
    BY <1>2, <1>6, <1>9, <1>10, <2>2
<1>11. CASE ~Repeats(place, sn)
  <2> DEFINE c == Insert(b, p, node)
  <2>1. c = Insert(b, p, node)
    OBVIOUS
  <2> HIDE DEF c
  <2>2. node2 = AddAfter(Single(ring, node), node, At(Buf, b, p))
    BY <1>8
  <2> HIDE DEF node2
  <2>3. /\ node2 \in Rings /\ Holds(node2, c, q) /\ Len(c) = Len(b) + 1
        /\ Elements(c) = Elements(b) \cup {node}
    BY <1>3, <1>5, <2>1, <2>2, BufGrows
  <2>4. /\ more \in [Elements(c) \cup Elements(q) -> Nat]
        /\ more[node] = n
        /\ \A x \in Elements(b) : more[x] = number[x]
        /\ \A x \in Elements(q) : more[x] = number[x]
    BY <1>3, <1>4, <1>5, <2>3
  <2> HIDE DEF more
  <2>5. \A i \in 1..p : number[b[i]] < n
    <3> SUFFICES ASSUME NEW i \in 1..p PROVE number[b[i]] < n
      OBVIOUS
    <3>1. p \in 1..Len(b) /\ i \in 1..Len(b) /\ number[b[p]] # n /\ number[b[p]] <= n
          /\ (i = p \/ i < p) /\ n \in Int
      BY <1>4, <1>5, <1>8, <1>11
    <3>2. number[b[i]] \in Int /\ number[b[p]] \in Int
      <4>1. MaxWindow \in Nat
        BY <1>3, Ranges
      <4> QED
        BY <1>3, <3>1, <4>1 DEF Sorted
    <3>3. i < p => number[b[i]] < number[b[p]]
      BY <1>3, <3>1 DEF Sorted
    <3> QED
      BY <3>1, <3>2, <3>3
  <2>6. Sorted(more, c, base) /\ Kept(more, c) = Kept(number, b) \cup {n}
    <3> DEFINE old == number
    <3>1. /\ b \in Seq(Pool) /\ p \in 0..Len(b) /\ node \in Pool /\ node \notin Elements(b)
          /\ base \in Nat /\ Sorted(old, b, base) /\ MaxWindow \in Nat
          /\ n \in base..(base + MaxWindow - 1)
          /\ c = Insert(b, p, node) /\ Len(c) = Len(b) + 1
      BY <1>3, <1>4, <1>5, <1>7, <2>1, <2>3, Ranges
    <3>2. Fits(old, b, p, n) /\ With(more, old, b, node, n)
      BY <1>8, <2>4, <2>5 DEF Fits, With
    <3> HIDE DEF old
    <3>3. Sorted(more, c, base) /\ Added(Kept(more, c), Kept(old, b), n)
      BY ONLY <3>1, <3>2, Inserted
    <3> QED
      BY <3>3 DEF old, Added
  <2>7. \A i \in 1..Len(q) : more[q[i]] = number[q[i]]
    BY <2>4 DEF Elements
  <2>8. Queued(more, q, base) /\ Values(more, q) = Values(number, q)
    BY <1>3, <2>7 DEF Queued, Values
  <2> DEFINE more_buf == nrcvBuf + 1
  <2>9. more_buf = Len(c)
    BY <1>3, <2>3
  <2>10. Sound(node2, more, rcvNxt, rcvWnd, more_buf, nrcvQue, base, c, q)
    BY <1>3, <2>3, <2>4, <2>6, <2>8, <2>9 DEF Sound
  <2>11. MoveAvailable(node2, more, more_buf, nrcvQue)
    BY <1>6, <1>11
  <2> QED
    BY <1>9, <2>6, <2>8, <2>10, <2>11
<1> QED
  BY <1>10, <1>11

------------------------------------------------------------------------------
(* ikcp_recv, ikcp_wndsize and ikcp_release.                               *)

\* The reader takes the first numbers.
LEMMA RecvTakes ==
    ASSUME IInv, Recv
    PROVE  IInv' /\ Ordering!Take
<1> DEFINE b == BufNodes
           q == QueNodes
<1>1. PICK count \in 1..nrcvQue :
          MoveAvailable(DropFront(ring, Que, count),
                        [n \in InUse \ {q[i] : i \in 1..count} |-> number[n]],
                        nrcvBuf, nrcvQue - count)
  BY DEF Recv, QueNodes
<1>2. Sound(ring, number, rcvNxt, rcvWnd, nrcvBuf, nrcvQue, base, b, q)
  BY SoundNow
<1>3. /\ ring \in Rings /\ Holds(ring, b, q) /\ rcvWnd \in Windows /\ base \in Nat
      /\ number \in [Elements(b) \cup Elements(q) -> Nat]
      /\ rcvNxt = base % SnRange /\ nrcvBuf = Len(b) /\ nrcvQue = Len(q)
      /\ Sorted(number, b, base) /\ Queued(number, q, base)
  BY <1>2 DEF Sound
<1> HIDE DEF b, q
<1>4. /\ b \in Seq(Pool) /\ q \in Seq(Pool) /\ Distinct(b) /\ Distinct(q)
      /\ Len(b) \in Nat /\ Len(q) \in Nat
      /\ InUse = Elements(b) \cup Elements(q) /\ Elements(b) \cap Elements(q) = {}
      /\ Buf \in Heads /\ Que \in Heads /\ Que # Buf
  BY <1>2, <1>3, HeldLists, SoundParts DEF InUse
<1>5. count \in 0..Len(q) /\ count \in Nat /\ count \in 1..Len(q)
  BY <1>3, <1>4
<1> DEFINE links == DropFront(ring, Que, count)
           numbers == [n \in InUse \ {q[i] : i \in 1..count} |-> number[n]]
           c == Rest(q, count)
           que == nrcvQue - count
<1>6. links \in Rings /\ Holds(links, b, c)
  <2>1. count \in 0..Len(Dropping(Que, b, q))
    BY <1>4, <1>5 DEF Dropping
  <2>2. links \in Rings /\ Dropped(links, Que, b, q, count)
    BY <1>3, <1>4, <2>1, FrontDropped
  <2> QED
    BY <1>4, <2>2 DEF Dropped
<1>7. Elements(c) = Elements(q) \ {q[i] : i \in 1..count}
  BY <1>4, <1>5, RestElements
<1>8. /\ c \in Seq(Pool) /\ Len(c) = Len(q) - count /\ Len(c) \in Nat
      /\ \A i \in 1..Len(c) : i + count \in 1..Len(q) /\ c[i] = q[i + count]
  <2>1. c = Rest(q, count)
    OBVIOUS
  <2> HIDE DEF c
  <2> QED
    BY ONLY <2>1, <1>4, <1>5, RestIs
<1> HIDE DEF c, links
<1>9. InUse \ {q[i] : i \in 1..count} = Elements(b) \cup Elements(c)
  <2>1. {q[i] : i \in 1..count} \subseteq Elements(q)
    BY <1>4, <1>5 DEF Elements
  <2> QED
    BY <1>4, <1>7, <2>1
<1>10. /\ numbers \in [Elements(b) \cup Elements(c) -> Nat]
       /\ \A x \in Elements(b) \cup Elements(c) : numbers[x] = number[x]
  <2>1. \A x \in Elements(b) \cup Elements(c) : number[x] \in Nat
    BY <1>3, <1>7
  <2> QED
    BY <1>9, <2>1
<1> HIDE DEF numbers
<1>11. /\ \A i \in 1..Len(b) : numbers[b[i]] = number[b[i]]
       /\ \A i \in 1..Len(c) : numbers[c[i]] = number[c[i]]
  BY <1>10 DEF Elements
<1>12. Sorted(numbers, b, base) /\ Kept(numbers, b) = Kept(number, b)
  BY <1>3, <1>11 DEF Sorted, Kept
<1>13. Queued(numbers, c, base)
  <2> SUFFICES ASSUME NEW i \in 1..Len(c) PROVE numbers[c[i]] = base - Len(c) + i - 1
    BY DEF Queued
  <2>1. numbers[c[i]] = number[q[i + count]] /\ i + count \in 1..Len(q)
    BY <1>8, <1>11
  <2>2. number[q[i + count]] = base - Len(q) + (i + count) - 1
    BY <1>3, <2>1 DEF Queued
  <2> QED
    BY <1>3, <1>4, <1>5, <1>8, <2>1, <2>2
<1>14. que = Len(c)
  BY <1>3, <1>8
<1> HIDE DEF que
<1>15. Sound(links, numbers, rcvNxt, rcvWnd, nrcvBuf, que, base, b, c)
  BY <1>3, <1>6, <1>10, <1>12, <1>13, <1>14 DEF Sound
<1>16. MoveAvailable(links, numbers, nrcvBuf, que) /\ rcvWnd' = rcvWnd
  BY <1>1 DEF links, numbers, que, Recv
<1>17. PICK j \in 0..Len(b) : Goes(numbers, b, c, j)
  BY <1>15, <1>16, MoveKeeps
<1>18. Advanced(Kept(numbers, b), Values(numbers, c))
  BY <1>3, <1>4, <1>8, <1>12, <1>17, GoesAdvances
<1>19. Values(numbers, c) = SubSeq(Values(number, q), count + 1, Len(Values(number, q)))
  <2> DEFINE v == Values(number, q)
  <2>1. Len(v) = Len(q) /\ \A i \in 1..Len(q) : v[i] = number[q[i]]
    BY <1>4 DEF Values
  <2> HIDE DEF v
  <2>2. SubSeq(v, count + 1, Len(q)) = [i \in 1..(Len(q) - count) |-> v[i + count]]
    BY <1>4, <1>5, <2>1
  <2>3. \A i \in 1..Len(c) : numbers[c[i]] = v[i + count]
    BY <1>8, <1>11, <2>1
  <2>4. Values(numbers, c) = [i \in 1..(Len(q) - count) |-> v[i + count]]
    BY <1>8, <2>3 DEF Values
  <2> QED
    BY <2>1, <2>2, <2>4 DEF v
<1>20. Len(Values(number, q)) = Len(q)
  BY <1>4 DEF Values
<1>21. Advanced(Kept(number, b), SubSeq(Values(number, q), count + 1, Len(Values(number, q))))
  BY <1>12, <1>18, <1>19 DEF Advanced
<1>22. Ordering!Take
  <2>1. count \in 1..Len(Values(number, q))
    BY <1>5, <1>20
  <2> QED
    BY <1>16, <1>21, <2>1 DEF Ordering!Take, Ordering!Advance, Cardinality, Ordering!Cardinality,
          Advanced, Advances, Kept, Values, b, q
<1>23. IInv'
  BY <1>17 DEF Goes
<1> QED
  BY <1>22, <1>23
LEMMA WindowResizes ==
    ASSUME IInv, SetWindow
    PROVE  IInv' /\ Ordering!Resize
<1> DEFINE b == BufNodes
           q == QueNodes
<1>1. Sound(ring, number, rcvNxt, rcvWnd, nrcvBuf, nrcvQue, base, b, q)
  BY SoundNow
<1>2. /\ rcvWnd' \in Windows /\ ring' = ring /\ number' = number /\ rcvNxt' = rcvNxt
      /\ nrcvBuf' = nrcvBuf /\ nrcvQue' = nrcvQue /\ base' = base
  BY DEF SetWindow
<1> HIDE DEF b, q
<1>3. Sound(ring', number', rcvNxt', rcvWnd', nrcvBuf', nrcvQue', base', b, q)
  BY <1>1, <1>2 DEF Sound
<1>4. IInv' /\ BufNodes' = b /\ QueNodes' = q
  BY <1>3, SoundNext
<1> QED
  BY <1>2, <1>4 DEF Ordering!Resize, b, q

LEMMA EmptyList ==
    /\ <<>> \in Seq(Pool) /\ Len(<<>>) = 0 /\ Elements(<<>>) = {} /\ Distinct(<<>>)
    /\ \A s \in Seq(Pool) : Rest(s, Len(s)) = <<>>
<1>1. <<>> \in Seq(Pool) /\ Len(<<>>) = 0 /\ Elements(<<>>) = {} /\ Distinct(<<>>)
  BY DEF Elements, Distinct
<1>2. ASSUME NEW s \in Seq(Pool) PROVE Rest(s, Len(s)) = <<>>
  <2>1. Len(s) \in Nat /\ Len(s) \in 0..Len(s)
    BY LenProperties
  <2> DEFINE t == Rest(s, Len(s))
  <2>2. t \in Seq(Pool) /\ Len(t) = Len(s) - Len(s)
    <3> DEFINE j == Len(s)
    <3>1. t = Rest(s, j) /\ j \in 0..Len(s)
      BY <2>1
    <3> HIDE DEF t, j
    <3>2. t \in Seq(Pool) /\ Len(t) = Len(s) - j
      BY ONLY <3>1, s \in Seq(Pool), RestIs
    <3> QED
      BY <3>2 DEF j
  <2> HIDE DEF t
  <2>3. Len(t) = 0
    BY <2>1, <2>2
  <2>4. t = <<>>
    BY <2>2, <2>3, EmptySeq
  <2> QED
    BY <2>4 DEF t
<1> QED
  BY <1>1, <1>2

\* Two empty lists, and no segment in use, satisfy the invariant.
LEMMA NothingHeld ==
    ASSUME NEW r \in Rings, Holds(r, <<>>, <<>>), NEW numbers, DOMAIN numbers = {},
           numbers = [n \in {} |-> numbers[n]], NEW wnd \in Windows
    PROVE  Sound(r, numbers, 0, wnd, 0, 0, 0, <<>>, <<>>)
<1>1. numbers \in [{} -> Nat]
  OBVIOUS
<1>2. 0 % SnRange = 0
  BY Ranges
<1>3. Sorted(numbers, <<>>, 0) /\ Queued(numbers, <<>>, 0)
  BY EmptyList DEF Sorted, Queued
<1> QED
  BY <1>1, <1>2, <1>3, EmptyList DEF Sound

LEMMA ReleaseRestarts ==
    ASSUME IInv, Release
    PROVE  IInv' /\ Ordering!Restart
<1> DEFINE b == BufNodes
           q == QueNodes
           left == DropFront(ring, Buf, Len(b))
           ofQue == Nodes(left, Que)
           empty == DropFront(left, Que, Len(ofQue))
           numbers == [n \in InUse \ ({b[i] : i \in 1..Len(b)}
                                      \cup {ofQue[i] : i \in 1..Len(ofQue)}) |-> number[n]]
<1>1. /\ ring' = empty /\ number' = numbers
      /\ rcvNxt' = 0 /\ rcvWnd' \in Windows
      /\ nrcvBuf' = 0 /\ nrcvQue' = 0 /\ base' = 0
  BY DEF Release, BufNodes
<1>2. Sound(ring, number, rcvNxt, rcvWnd, nrcvBuf, nrcvQue, base, b, q)
  BY SoundNow
<1>3. /\ ring \in Rings /\ Holds(ring, b, q)
      /\ number \in [Elements(b) \cup Elements(q) -> Nat]
  BY <1>2 DEF Sound
<1> HIDE DEF b, q
<1>4. /\ b \in Seq(Pool) /\ q \in Seq(Pool) /\ Distinct(q)
      /\ Len(b) \in Nat /\ Len(q) \in Nat /\ InUse = Elements(b) \cup Elements(q)
      /\ Buf \in Heads /\ Que \in Heads /\ Que # Buf
  BY <1>2, <1>3, HeldLists, SoundParts DEF InUse
<1> HIDE DEF left, empty, numbers
<1>5. left \in Rings /\ Holds(left, <<>>, q)
  <2>1. Len(b) \in 0..Len(Dropping(Buf, b, q))
    BY <1>4 DEF Dropping
  <2>2. left \in Rings /\ Dropped(left, Buf, b, q, Len(b))
    BY <1>3, <1>4, <2>1, FrontDropped DEF left
  <2> QED
    BY <1>4, <2>2, EmptyList DEF Dropped
<1>6. ofQue = q
  <2>1. Linked(left, Que, q)
    BY <1>5, HeldLists
  <2> QED
    BY <1>4, <1>5, <2>1, NodesAre
<1>7. empty \in Rings /\ Holds(empty, <<>>, <<>>)
  <2> DEFINE none == <<>>
  <2>1. Len(q) \in 0..Len(Dropping(Que, none, q))
    BY <1>4 DEF Dropping
  <2>2. Holds(left, none, q) /\ empty = DropFront(left, Que, Len(q))
    BY <1>5, <1>6 DEF empty
  <2> HIDE DEF none
  <2>3. empty \in Rings /\ Dropped(empty, Que, none, q, Len(q))
    BY <1>4, <1>5, <2>1, <2>2, FrontDropped
  <2> QED
    BY <1>4, <2>3, EmptyList DEF Dropped, none
<1>8. DOMAIN numbers = {} /\ numbers = [n \in {} |-> numbers[n]]
  <2>1. InUse \ ({b[i] : i \in 1..Len(b)} \cup {ofQue[i] : i \in 1..Len(ofQue)}) = {}
    BY <1>4, <1>6 DEF Elements
  <2> QED
    BY <2>1 DEF numbers
<1>9. Sound(ring', number', rcvNxt', rcvWnd', nrcvBuf', nrcvQue', base', <<>>, <<>>)
  BY <1>1, <1>7, <1>8, NothingHeld
<1>10. IInv' /\ BufNodes' = <<>> /\ QueNodes' = <<>>
  BY <1>9, SoundNext
<1> QED
  BY <1>1, <1>10, EmptyList DEF Ordering!Restart

------------------------------------------------------------------------------
(* The links, read from the two lists.                                     *)

\* A list of distinct nodes has as many as it is long.
LEMMA DistinctCounts ==
    ASSUME NEW S, NEW s \in Seq(S), Distinct(s)
    PROVE  IsFiniteSet(Elements(s)) /\ Cardinality(Elements(s)) = Len(s)
<1>1. Len(s) \in Nat /\ DOMAIN s = 1..Len(s)
  BY LenProperties
<1>2. s = [i \in 1..Len(s) |-> s[i]]
  <2>1. s \in [1..Len(s) -> S]
    BY ElementsOf
  <2> QED
    BY <2>1
<1> DEFINE N == 1..Len(s)
           E == Elements(s)
<1>3. s \in [N -> E]
  BY <1>2 DEF Elements
<1>4. \A i, j \in N : s[i] = s[j] => i = j
  BY DEF Distinct
<1>5. \A x \in E : \E i \in N : s[i] = x
  BY DEF Elements
<1>6. IsFiniteSet(N) /\ Cardinality(N) = Len(s)
  BY <1>1, FS_Interval
<1> HIDE DEF N, E
<1>7. s \in Bijection(N, E)
  BY <1>3, <1>4, <1>5 DEF Bijection, Injection, IsInjective, Surjection
<1>8. IsFiniteSet(E) /\ Cardinality(E) = Cardinality(N)
  BY <1>6, <1>7, FS_Bijection DEF ExistsBijection
<1> QED
  BY <1>6, <1>8 DEF E

\* From every node of a list, next and prev lead back.
LEMMA BothWays ==
    ASSUME NEW r, NEW head \in Heads, NEW s \in Seq(Pool), Linked(r, head, s),
           NEW n \in Elements(s) \cup {head}
    PROVE  r.prev[r.next[n]] = n /\ r.next[r.prev[n]] = n
<1>1. /\ Len(s) \in Nat /\ At(head, s, 0) = head /\ At(head, s, Len(s) + 1) = head
      /\ \A i \in 1..Len(s) : At(head, s, i) = s[i]
  BY AtIs
<1>2. PICK i \in 0..Len(s) : At(head, s, i) = n
  <2>1. 0 \in 0..Len(s) /\ \A i \in 1..Len(s) : i \in 0..Len(s)
    BY <1>1
  <2> QED
    BY <1>1, <2>1 DEF Elements
<1>3. PICK j \in 0..Len(s) : At(head, s, j + 1) = n
  <2>1. CASE n = head
    <3>1. Len(s) \in 0..Len(s)
      BY <1>1
    <3> QED
      BY <1>1, <2>1, <3>1
  <2>2. CASE n # head
    <3>1. PICK k \in 1..Len(s) : s[k] = n
      BY <2>2 DEF Elements
    <3>2. k - 1 \in 0..Len(s) /\ (k - 1) + 1 = k
      BY <1>1
    <3> QED
      BY <1>1, <3>1, <3>2
  <2> QED
    BY <2>1, <2>2
<1> QED
  BY <1>2, <1>3 DEF Linked

LEMMA Links ==
    ASSUME IInv
    PROVE  WellLinked
<1> DEFINE b == BufNodes
           q == QueNodes
           all == b \o q
<1>1. /\ Holds(ring, b, q) /\ InUse = Elements(b) \cup Elements(q)
      /\ nrcvBuf = Len(b) /\ nrcvQue = Len(q)
  BY DEF IInv, Lists
<1>2. /\ b \in Seq(Pool) /\ q \in Seq(Pool) /\ Distinct(b) /\ Distinct(q)
      /\ Linked(ring, Buf, b) /\ Linked(ring, Que, q)
      /\ Elements(b) \cap Elements(q) = {}
      /\ \A n \in Pool \ (Elements(b) \cup Elements(q)) :
            ring.next[n] = Null /\ ring.prev[n] = Null
      /\ Buf \in Heads /\ Que \in Heads
  BY <1>1, HeldLists
<1> HIDE DEF b, q
<1>3. /\ all \in Seq(Pool) /\ Len(all) = Len(b) + Len(q)
      /\ \A i \in 1..Len(b) + Len(q) : all[i] = IF i <= Len(b) THEN b[i] ELSE q[i - Len(b)]
  BY <1>2, ConcatProperties
<1>4. Len(b) \in Nat /\ Len(q) \in Nat
  BY <1>2, LenProperties
<1> HIDE DEF all
<1>5. {all[i] : i \in 1..Len(all)} = InUse
  <2>1. ASSUME NEW i \in 1..Len(all) PROVE all[i] \in Elements(b) \cup Elements(q)
    <3>1. CASE i <= Len(b)
      <4>1. i \in 1..Len(b) /\ all[i] = b[i]
        BY <1>3, <1>4, <3>1
      <4> QED
        BY <4>1 DEF Elements
    <3>2. CASE ~(i <= Len(b))
      <4>1. i - Len(b) \in 1..Len(q) /\ all[i] = q[i - Len(b)]
        BY <1>3, <1>4, <3>2
      <4> QED
        BY <4>1 DEF Elements
    <3> QED
      BY <3>1, <3>2
  <2>2. ASSUME NEW x \in Elements(b) PROVE \E i \in 1..Len(all) : all[i] = x
    <3>1. PICK i \in 1..Len(b) : b[i] = x
      BY DEF Elements
    <3>2. i \in 1..Len(all) /\ i <= Len(b)
      BY <1>3, <1>4
    <3> QED
      BY <1>3, <3>1, <3>2
  <2>3. ASSUME NEW x \in Elements(q) PROVE \E i \in 1..Len(all) : all[i] = x
    <3>1. PICK i \in 1..Len(q) : q[i] = x
      BY DEF Elements
    <3>2. Len(b) + i \in 1..Len(all) /\ ~(Len(b) + i <= Len(b)) /\ (Len(b) + i) - Len(b) = i
      BY <1>3, <1>4
    <3> QED
      BY <1>3, <3>1, <3>2
  <2> QED
    BY <1>1, <2>1, <2>2, <2>3
<1>6. Len(all) = Cardinality(InUse)
  <2> DEFINE B == Elements(b)
             Q == Elements(q)
  <2>1. /\ IsFiniteSet(B) /\ Cardinality(B) = Len(b)
        /\ IsFiniteSet(Q) /\ Cardinality(Q) = Len(q)
    BY <1>2, DistinctCounts
  <2>2. B \cap Q = {} /\ InUse = B \cup Q
    BY <1>1, <1>2
  <2> HIDE DEF B, Q
  <2>3. Cardinality(B \cup Q) = Cardinality(B) + Cardinality(Q) - Cardinality(B \cap Q)
    BY <2>1, FS_Union
  <2>4. Cardinality(B \cap Q) = 0
    BY <2>2, FS_EmptySet
  <2> QED
    BY <1>3, <1>4, <2>1, <2>2, <2>3, <2>4
<1>7. ASSUME NEW n \in InUse \cup Heads
      PROVE  ring.prev[ring.next[n]] = n /\ ring.next[ring.prev[n]] = n
  <2>1. CASE n \in Elements(b) \cup {Buf}
    BY <1>2, <2>1, BothWays
  <2>2. CASE n \in Elements(q) \cup {Que}
    BY <1>2, <2>2, BothWays
  <2> QED
    BY <1>1, <2>1, <2>2 DEF Heads
<1>8. \A n \in Pool \ InUse : ring.next[n] = Null /\ ring.prev[n] = Null
  BY <1>1, <1>2
<1> QED
  BY <1>1, <1>5, <1>6, <1>7, <1>8 DEF WellLinked, all, b, q

------------------------------------------------------------------------------
(* The theorems.                                                           *)

LEMMA InitOrdered ==
    ASSUME Init
    PROVE  IInv /\ Ordering!Init
<1>1. /\ ring = EmptyRing /\ number = <<>> /\ rcvNxt = 0 /\ rcvWnd \in Windows
      /\ nrcvBuf = 0 /\ nrcvQue = 0 /\ base = 0
  BY DEF Init
<1> DEFINE none == <<>>
<1>2. ring \in Rings /\ Holds(ring, none, none)
  <2>1. ring \in Rings
    BY <1>1 DEF EmptyRing, Rings
  <2>2. \A n \in Heads : ring.next[n] = n /\ ring.prev[n] = n
    BY <1>1 DEF EmptyRing
  <2>3. \A n \in Pool : ring.next[n] = Null /\ ring.prev[n] = Null
    BY <1>1, HeadsApart DEF EmptyRing
  <2>4. \A head : Linked(ring, head, none) <=> ring.next[head] = head /\ ring.prev[head] = head
    BY EmptyList DEF Linked, At
  <2> QED
    BY <2>1, <2>2, <2>3, <2>4, EmptyList, HeadsApart DEF Holds
<1>3. DOMAIN number = {} /\ number = [n \in {} |-> number[n]]
  BY <1>1
<1> HIDE DEF none
<1>4. Sound(ring, number, rcvNxt, rcvWnd, nrcvBuf, nrcvQue, base, none, none)
  BY <1>1, <1>2, <1>3, NothingHeld DEF none
<1>5. /\ BufNodes = none /\ QueNodes = none /\ rcvNxt \in Nat
      /\ DOMAIN number = Elements(none) \cup Elements(none) /\ number \in [DOMAIN number -> Nat]
      /\ Elements(none) \cup Elements(none) \subseteq Pool
  BY <1>4, SoundParts DEF BufNodes, QueNodes
<1>6. Len(none) = 0 /\ Elements(none) = {}
  BY EmptyList DEF none
<1>7. TypeOK
  BY <1>1, <1>2, <1>5 DEF TypeOK, InUse
<1>8. Lists
  BY <1>1, <1>2, <1>5, <1>6 DEF Lists, InUse
<1>9. BufSorted
  BY <1>1, <1>4, <1>5, <1>6 DEF BufSorted, Sound
<1>10. Waiting
  BY <1>5, <1>6 DEF Waiting
<1>11. Ordering!Init
  BY <1>1, <1>5, <1>6 DEF Ordering!Init
<1> QED
  BY <1>7, <1>8, <1>9, <1>10, <1>11 DEF IInv

\* Every step keeps the invariant, and is a step of Reorder or changes nothing.
LEMMA StepOrdered ==
    ASSUME IInv, [Next]_vars
    PROVE  IInv' /\ [Ordering!Next]_(Ordering!vars)
<1>1. CASE Input
  BY <1>1, InputArrives DEF Ordering!Next
<1>2. CASE Recv
  BY <1>2, RecvTakes DEF Ordering!Next
<1>3. CASE SetWindow
  BY <1>3, WindowResizes DEF Ordering!Next
<1>4. CASE Release
  BY <1>4, ReleaseRestarts DEF Ordering!Next
<1>5. CASE UNCHANGED vars
  <2>1. /\ ring' = ring /\ number' = number /\ rcvNxt' = rcvNxt /\ rcvWnd' = rcvWnd
        /\ nrcvBuf' = nrcvBuf /\ nrcvQue' = nrcvQue /\ base' = base
    BY <1>5 DEF vars
  <2>2. BufNodes' = BufNodes /\ QueNodes' = QueNodes
    BY <2>1 DEF BufNodes, QueNodes
  <2>3. TypeOK' /\ Lists' /\ BufSorted' /\ Waiting'
    BY <2>1, <2>2 DEF IInv, TypeOK, Lists, BufSorted, Waiting, InUse
  <2>4. UNCHANGED Ordering!vars
    BY <2>1, <2>2 DEF Ordering!vars
  <2> QED
    BY <2>3, <2>4 DEF IInv
<1> QED
  BY <1>1, <1>2, <1>3, <1>4, <1>5 DEF Next

\* The links hold the lists, rcv_buf is sorted, and rcv_queue waits to be read in
\* the order the peer gave.
THEOREM Invariance == Spec => []IInv
<1>1. Init => IInv
  BY InitOrdered
<1>2. IInv /\ [Next]_vars => IInv'
  BY StepOrdered
<1> QED
  BY <1>1, <1>2, PTL DEF Spec

\* The links stay among the nodes and the heads, the counters natural numbers.
THEOREM TypeCorrect == Spec => []TypeOK
<1>1. IInv => TypeOK
  BY DEF IInv
<1> QED
  BY <1>1, Invariance, PTL

\* Every node in use is in exactly one of rcv_buf and rcv_queue, once, linked both
\* ways, and nrcv_buf and nrcv_que are the lengths: no segment is leaked, none is
\* freed while it is still linked.
THEOREM StaysLinked == Spec => []WellLinked
<1> QED
  BY Links, Invariance, PTL

\* Of rcv_buf: each number once, in ascending order, inside the window, also where
\* sn wraps around.
THEOREM StaysSorted == Spec => []BufSorted
<1>1. IInv => BufSorted
  BY DEF IInv
<1> QED
  BY <1>1, Invariance, PTL

\* The two lists together, with the counters and the links, are what Reorder
\* promises: segments are handed over in order, each once.
THEOREM PutsInOrder == Spec => InOrder
<1>1. Init => Ordering!Init
  BY InitOrdered
<1>2. IInv /\ [Next]_vars => [Ordering!Next]_(Ordering!vars)
  BY StepOrdered
<1> QED
  BY <1>1, <1>2, Invariance, PTL DEF Spec, InOrder, Ordering!Spec

================================================================================
