------------------------------- MODULE KcpProofs -------------------------------
(***************************************************************************)
(* What Kcp guarantees for every window, every segment size, both modes    *)
(* and whatever the network loses, repeats and reorders.                   *)
(***************************************************************************)
EXTENDS Kcp, Facts

------------------------------------------------------------------------------
(* Data and its segments.                                                  *)

LEMMA Division ==
    ASSUME NEW a \in Nat, NEW b \in Nat \ {0}
    PROVE  /\ a \div b \in Nat
           /\ (a \div b) * b <= a /\ a < ((a \div b) + 1) * b
  BY SMT

LEMMA Times ==
    ASSUME NEW a \in Nat, NEW b \in Nat, NEW c \in Nat, a <= b
    PROVE  a * c \in Nat /\ b * c \in Nat /\ a * c <= b * c
  BY SMT

LEMMA TimesOne ==
    ASSUME NEW a \in Nat, NEW b \in Nat \ {0}
    PROVE  a <= a * b /\ (a + 1) * b = (a * b) + b
  BY SMT

\* The number of fragments is the length in segments, rounded up.
LEMMA Counted ==
    ASSUME NEW len \in Nat
    PROVE  /\ FragmentCount(len) \in 0..len
           /\ len > 0 => FragmentCount(len) > 0
           /\ len <= FragmentCount(len) * SegLen
           /\ \A k \in 1..FragmentCount(len) :
                 (k - 1) * SegLen \in Nat /\ (k - 1) * SegLen < len
<1> DEFINE c == FragmentCount(len)
<1>1. SegLen \in Nat \ {0}
  BY KcpAssumption
<1>2. c \in Nat /\ c * SegLen <= len + SegLen - 1 /\ len + SegLen - 1 < (c + 1) * SegLen
  <2>1. len + SegLen - 1 \in Nat
    BY <1>1
  <2> QED
    BY <1>1, <2>1, Division DEF FragmentCount
<1> HIDE DEF c
<1>3. c * SegLen \in Nat /\ (c + 1) * SegLen = (c * SegLen) + SegLen
  BY <1>1, <1>2, TimesOne, Times
<1>4. len <= c * SegLen
  BY <1>1, <1>2, <1>3
<1>5. len > 0 => c > 0
  <2>1. c = 0 => c * SegLen = 0
    BY <1>1
  <2> QED
    BY <1>2, <1>4, <2>1
<1>6. \A k \in 1..c : (k - 1) * SegLen \in Nat /\ (k - 1) * SegLen < len
  <2> SUFFICES ASSUME NEW k \in 1..c
               PROVE  (k - 1) * SegLen \in Nat /\ (k - 1) * SegLen < len
    OBVIOUS
  <2>1. k - 1 \in Nat /\ c - 1 \in Nat /\ k - 1 <= c - 1
    BY <1>2
  <2>2. /\ (k - 1) * SegLen \in Nat /\ (c - 1) * SegLen \in Nat
        /\ (k - 1) * SegLen <= (c - 1) * SegLen
    BY <1>1, <2>1, Times
  <2>3. c * SegLen = ((c - 1) * SegLen) + SegLen
    <3>1. ((c - 1) + 1) * SegLen = ((c - 1) * SegLen) + SegLen
      BY <1>1, <2>1, TimesOne
    <3>2. (c - 1) + 1 = c
      BY <1>2
    <3> QED
      BY <3>1, <3>2
  <2> QED
    BY <1>1, <1>2, <2>2, <2>3
<1>7. c <= len
  <2>1. CASE c = 0
    BY <2>1
  <2>2. CASE c # 0
    <3>1. c \in 1..c /\ c - 1 \in Nat
      BY <1>2, <2>2
    <3>2. (c - 1) * SegLen \in Nat /\ (c - 1) * SegLen < len
      BY <1>6, <3>1
    <3>3. c - 1 <= (c - 1) * SegLen
      BY <1>1, <3>1, TimesOne
    <3> QED
      BY <1>2, <3>1, <3>2, <3>3
  <2> QED
    BY <2>1, <2>2
<1> QED
  BY <1>2, <1>4, <1>5, <1>6, <1>7 DEF c

\* The units of a fragment.
Piece(first, len, k) ==
    [i \in 1..Least(SegLen, len - (k - 1) * SegLen) |-> first + (k - 1) * SegLen + i - 1]

LEMMA PieceTyped ==
    ASSUME NEW first \in Nat, NEW len \in Nat, first + len <= MaxUnits,
           NEW k \in 1..FragmentCount(len)
    PROVE  Piece(first, len, k) \in Seq(Units) /\ Len(Piece(first, len, k)) \in 1..SegLen
<1> DEFINE off == (k - 1) * SegLen
           n   == Least(SegLen, len - off)
<1>1. off \in Nat /\ off < len /\ SegLen \in Nat \ {0} /\ MaxUnits \in Nat
  BY Counted, KcpAssumption
<1>2. Piece(first, len, k) = [i \in 1..n |-> first + off + i - 1]
  BY DEF Piece
<1> HIDE DEF off
<1>3. n \in 1..SegLen /\ n <= len - off
  BY <1>1 DEF Least
<1> HIDE DEF n
<1>4. \A i \in 1..n : first + off + i - 1 \in Units
  BY <1>1, <1>3 DEF Units
<1>5. Piece(first, len, k) \in [1..n -> Units]
  BY <1>2, <1>4
<1> QED
  BY <1>3, <1>5, FunctionIsSeq

\* A message of so many fragments fits a window.
LEMMA FragmentsTyped ==
    ASSUME NEW first \in Nat, NEW len \in Nat, first + len <= MaxUnits, Sendable(len)
    PROVE  /\ Fragments(first, len) \in Seq(Fragment)
           /\ Len(Fragments(first, len)) = FragmentCount(len)
           /\ \A k \in 1..FragmentCount(len) :
                 Fragments(first, len)[k] =
                     [data |-> Piece(first, len, k),
                      frg |-> IF Stream THEN 0 ELSE FragmentCount(len) - k]
<1> DEFINE c == FragmentCount(len)
           fr == [k \in 1..c |-> [data |-> Piece(first, len, k),
                                  frg |-> IF Stream THEN 0 ELSE c - k]]
<1>1. c \in Nat /\ c < WndRcv /\ WndRcv \in Nat
  BY Counted, KcpAssumption DEF Sendable
<1>2. Fragments(first, len) = fr
  BY DEF Fragments, Piece
<1>3. \A k \in 1..c : /\ Piece(first, len, k) \in {d \in Seq(Units) : Len(d) \in 1..SegLen}
                      /\ (IF Stream THEN 0 ELSE c - k) \in 0..(WndRcv - 2)
  <2>1. \A k \in 1..c : Piece(first, len, k) \in {d \in Seq(Units) : Len(d) \in 1..SegLen}
    BY PieceTyped
  <2>2. \A k \in 1..c : (IF Stream THEN 0 ELSE c - k) \in 0..(WndRcv - 2)
    <3> HIDE DEF c
    <3> QED
      BY <1>1
  <2> QED
    BY <2>1, <2>2
<1>4. fr \in [1..c -> Fragment]
  <2> HIDE DEF c
  <2> QED
    BY <1>3 DEF Fragment
<1>5. fr \in Seq(Fragment) /\ Len(fr) = c
  <2> HIDE DEF c, fr
  <2> QED
    BY <1>1, <1>4, FunctionIsSeq
<1> QED
  BY <1>2, <1>5

LEMMA SeqOfFragments ==
    ASSUME NEW q \in Seq(Fragment), NEW i \in 1..Len(q)
    PROVE  q[i] \in Fragment /\ q[i].data \in Seq(Units) /\ Len(q[i].data) \in 1..SegLen
           /\ q[i].frg \in 0..(WndRcv - 2)
<1>1. q[i] \in Fragment
  BY ElementsOf
<1> QED
  BY <1>1 DEF Fragment

\* What joins the last segment of the queue does not make it longer than a segment.
LEMMA ExtendedTyped ==
    ASSUME TypeOK, NEW len \in Nat, accepted + Extension(len) <= MaxUnits
    PROVE  /\ Extension(len) \in 0..len
           /\ Extended(Extension(len)) \in Seq(Fragment)
           /\ Len(Extended(Extension(len))) = Len(sndQueue)
           /\ \A i \in 1..Len(sndQueue) :
                 Extended(Extension(len))[i].frg = sndQueue[i].frg
<1> DEFINE taken == Extension(len)
           n == Len(sndQueue)
           last == sndQueue[n]
           more == [i \in 1..taken |-> accepted + i - 1]
<1>1. sndQueue \in Seq(Fragment) /\ accepted \in Nat /\ SegLen \in Nat \ {0} /\ MaxUnits \in Nat
      /\ accepted + taken <= MaxUnits
  BY KcpAssumption DEF TypeOK
<1>2. CASE taken = 0
  BY <1>1, <1>2 DEF Extended
<1>3. CASE taken # 0
  <2>1. Stream /\ sndQueue # <<>> /\ taken = Least(len, SegLen - Len(last.data))
    BY <1>3 DEF Extension, Last
  <2>2. n \in Nat \ {0} /\ n \in 1..n
    BY <1>1, <2>1, EmptySeq
  <2>3. last \in Fragment /\ last.data \in Seq(Units) /\ Len(last.data) \in 1..SegLen
    BY <1>1, <2>2, SeqOfFragments
  <2>4. taken \in 0..len /\ taken + Len(last.data) <= SegLen
    <3> DEFINE l == Len(last.data)
    <3>1. taken = Least(len, SegLen - l) /\ l \in 1..SegLen
      BY <2>1, <2>3
    <3> HIDE DEF last, taken, l
    <3>2. taken \in 0..len /\ taken + l <= SegLen
      BY <1>1, <3>1 DEF Least
    <3> QED
      BY <3>2 DEF l
  <2>5. more \in Seq(Units) /\ Len(more) = taken
    <3> HIDE DEF taken
    <3>1. \A i \in 1..taken : accepted + i - 1 \in Units
      BY <1>1, <2>4 DEF Units
    <3>2. more \in [1..taken -> Units]
      BY <3>1
    <3> QED
      BY <2>4, <3>2, FunctionIsSeq
  <2> HIDE DEF more
  <2> DEFINE both == last.data \o more
             new == [last EXCEPT !.data = both]
  <2>6. both \in Seq(Units) /\ Len(both) = Len(last.data) + taken
    BY <2>3, <2>5, ConcatProperties
  <2>7. Extended(taken) = [sndQueue EXCEPT ![n].data = @ \o more]
    BY <1>3 DEF Extended, more
  <2>8. Extended(taken) = [sndQueue EXCEPT ![n] = new]
    BY <2>7
  <2>9. new \in Fragment /\ new.frg = last.frg
    <3> HIDE DEF both, last, taken
    <3>1. Len(both) \in 1..SegLen
      BY <1>1, <2>3, <2>4, <2>6
    <3> QED
      BY <2>3, <2>6, <3>1 DEF Fragment
  <2> HIDE DEF new, taken
  <2>10. /\ [sndQueue EXCEPT ![n] = new] \in Seq(Fragment)
         /\ Len([sndQueue EXCEPT ![n] = new]) = n
         /\ \A j \in 1..n : [sndQueue EXCEPT ![n] = new][j] = IF j = n THEN new ELSE sndQueue[j]
    BY <1>1, <2>2, <2>9, ExceptSeq
  <2>11. \A i \in 1..n : Extended(taken)[i].frg = sndQueue[i].frg
    BY <2>8, <2>9, <2>10
  <2>12. Extended(taken) \in Seq(Fragment) /\ Len(Extended(taken)) = n
    BY <2>8, <2>10
  <2> QED
    BY <2>4, <2>11, <2>12 DEF taken
<1> QED
  BY <1>2, <1>3

------------------------------------------------------------------------------
(* Windows.                                                                *)

LEMMA WindowBounds == TypeOK => Window \in Nat /\ Window <= SndWnd
<1> SUFFICES ASSUME TypeOK PROVE Window \in Nat /\ Window <= SndWnd
  OBVIOUS
<1>1. SndWnd \in Nat /\ rmtWnd \in Nat /\ cwnd \in Nat
  BY KcpAssumption DEF TypeOK
<1> QED
  BY <1>1 DEF Window, Least

\* What moves to snd_buf fits the window.
LEMMA MovedBounds ==
    ASSUME TypeOK, sndUna <= sndNxt, sndNxt <= sndUna + SndWnd
    PROVE  /\ Moved \in 0..Len(sndQueue)
           /\ sndNxt + Moved <= sndUna + SndWnd
<1>1. /\ Len(sndQueue) \in Nat /\ sndUna \in Nat /\ sndNxt \in Nat /\ SndWnd \in Nat
      /\ Window \in Nat /\ Window <= SndWnd
  BY WindowBounds, ElementsOf, KcpAssumption DEF TypeOK
<1> QED
  BY <1>1 DEF Moved, Least, Greatest

\* The least number of a set, or the next one to be given.
LEMMA FirstUnackedIs ==
    ASSUME NEW sns, sndUna \in Nat, sndNxt \in Nat, sndUna <= sndNxt,
           sns \subseteq sndUna..(sndNxt - 1)
    PROVE  /\ FirstUnacked(sns) \in sndUna..sndNxt
           /\ \A sn \in sns : FirstUnacked(sns) <= sn
<1>1. CASE sns = {}
  BY <1>1 DEF FirstUnacked
<1>2. CASE sns # {}
  <2>1. sns \in SUBSET Nat
    OBVIOUS
  <2>2. \E sn \in sns : \A other \in sns : sn <= other
    BY <1>2, <2>1, LeastElement
  <2>3. FirstUnacked(sns) \in sns /\ \A other \in sns : FirstUnacked(sns) <= other
    BY <1>2, <2>2 DEF FirstUnacked
  <2>4. \A sn \in sns : sn \in sndUna..sndNxt
    OBVIOUS
  <2> QED
    BY <2>3, <2>4
<1> QED
  BY <1>1, <1>2

\* How many segments move to rcv_queue: as many as follow one another and fit.
LEMMA MovableIs ==
    ASSUME NEW queue, NEW buf, rcvNxt \in Nat, RcvWnd - Len(queue) \in Nat
    PROVE  /\ Movable(queue, buf) \in 0..(RcvWnd - Len(queue))
           /\ \A i \in 0..(Movable(queue, buf) - 1) : rcvNxt + i \in DOMAIN buf
<1> DEFINE room == RcvWnd - Len(queue)
           Stops(n) == n = room \/ rcvNxt + n \notin DOMAIN buf
           T == {n \in 0..room : Stops(n)}
           Right(n) == /\ \A i \in 0..(n - 1) : rcvNxt + i \in DOMAIN buf
                       /\ Stops(n)
<1>1. room \in T /\ T \in SUBSET Nat
  OBVIOUS
<1>2. PICK n \in T : \A m \in T : n <= m
  <2> HIDE DEF T
  <2> QED
    BY <1>1, LeastElement
<1>3. Right(n) /\ n \in 0..room
  <2>1. \A i \in 0..(n - 1) : i \in 0..room /\ i \notin T
    BY <1>2
  <2> QED
    BY <1>2, <2>1
<1>4. Movable(queue, buf) = CHOOSE k \in 0..room : Right(k)
  BY DEF Movable
<1>5. (CHOOSE k \in 0..room : Right(k)) \in 0..room /\ Right(CHOOSE k \in 0..room : Right(k))
  <2> HIDE DEF Right, room
  <2> QED
    BY <1>3
<1> QED
  BY <1>4, <1>5

\* The receiver's step: the n segments of buf that are next join the queue.
Moves(queue, buf, n) ==
    /\ rcvNxt' = rcvNxt + n
    /\ \A sn \in rcvNxt..(rcvNxt + n - 1) : sn \in DOMAIN buf
    /\ rcvQueue' \in Seq(Fragment) /\ Len(rcvQueue') = Len(queue) + n
    /\ Len(rcvQueue') <= RcvWnd
    /\ \A i \in 1..Len(queue) : rcvQueue'[i] = queue[i]
    /\ \A i \in 1..n : rcvQueue'[Len(queue) + i] = buf[rcvNxt + i - 1]
    /\ DOMAIN rcvBuf' = {sn \in DOMAIN buf : sn >= rcvNxt + n}
    /\ \A sn \in DOMAIN rcvBuf' : rcvBuf'[sn] = buf[sn]

LEMMA MoveAvailableDoes ==
    ASSUME NEW queue \in Seq(Fragment), NEW buf, rcvNxt \in Nat, Len(queue) <= RcvWnd,
           \A sn \in DOMAIN buf : buf[sn] \in Fragment,
           DOMAIN buf \subseteq {sn \in Nat : sn >= rcvNxt},
           MoveAvailable(queue, buf)
    PROVE  \E n \in Nat : Moves(queue, buf, n)
<1> DEFINE n == Movable(queue, buf)
           moved == [i \in 1..n |-> buf[rcvNxt + i - 1]]
<1>1. Len(queue) \in Nat /\ RcvWnd \in Nat /\ RcvWnd - Len(queue) \in Nat
  BY ElementsOf, KcpAssumption
<1>2. n \in 0..(RcvWnd - Len(queue)) /\ \A i \in 0..(n - 1) : rcvNxt + i \in DOMAIN buf
  BY <1>1, MovableIs
<1>3. /\ rcvQueue' = queue \o moved
      /\ rcvBuf' = [sn \in DOMAIN buf \ (rcvNxt..(rcvNxt + n - 1)) |-> buf[sn]]
      /\ rcvNxt' = rcvNxt + n
  BY DEF MoveAvailable
<1> HIDE DEF n
<1>4. n \in Nat /\ Len(queue) + n <= RcvWnd
  BY <1>1, <1>2
<1>5. \A sn \in rcvNxt..(rcvNxt + n - 1) : sn \in DOMAIN buf
  <2> SUFFICES ASSUME NEW sn \in rcvNxt..(rcvNxt + n - 1) PROVE sn \in DOMAIN buf
    OBVIOUS
  <2>1. sn - rcvNxt \in 0..(n - 1) /\ rcvNxt + (sn - rcvNxt) = sn
    BY <1>4
  <2> QED
    BY <1>2, <2>1
<1>6. moved \in Seq(Fragment) /\ Len(moved) = n
  <2>1. \A i \in 1..n : rcvNxt + i - 1 \in DOMAIN buf
    BY <1>4, <1>5
  <2>2. moved \in [1..n -> Fragment]
    BY <2>1
  <2> HIDE DEF moved
  <2> QED
    BY <1>4, <2>2, FunctionIsSeq
<1>7. \A i \in 1..n : moved[i] = buf[rcvNxt + i - 1]
  OBVIOUS
<1> HIDE DEF moved
<1>8. /\ rcvQueue' \in Seq(Fragment) /\ Len(rcvQueue') = Len(queue) + n
      /\ \A i \in 1..(Len(queue) + n) :
            rcvQueue'[i] = IF i <= Len(queue) THEN queue[i] ELSE moved[i - Len(queue)]
  BY <1>3, <1>6, ConcatProperties
<1>9. \A i \in 1..Len(queue) : rcvQueue'[i] = queue[i]
  BY <1>1, <1>4, <1>8
<1>10. \A i \in 1..n : rcvQueue'[Len(queue) + i] = buf[rcvNxt + i - 1]
  <2> SUFFICES ASSUME NEW i \in 1..n
               PROVE  rcvQueue'[Len(queue) + i] = buf[rcvNxt + i - 1]
    OBVIOUS
  <2>1. /\ Len(queue) + i \in 1..(Len(queue) + n) /\ ~(Len(queue) + i <= Len(queue))
        /\ (Len(queue) + i) - Len(queue) = i
    BY <1>1, <1>4
  <2> QED
    BY <1>7, <1>8, <2>1
<1>11. DOMAIN rcvBuf' = {sn \in DOMAIN buf : sn >= rcvNxt + n}
  <2>1. DOMAIN rcvBuf' = DOMAIN buf \ (rcvNxt..(rcvNxt + n - 1))
    BY <1>3
  <2>2. \A sn \in DOMAIN buf : sn \notin rcvNxt..(rcvNxt + n - 1) <=> sn >= rcvNxt + n
    BY <1>4
  <2> QED
    BY <2>1, <2>2
<1>12. \A sn \in DOMAIN rcvBuf' : rcvBuf'[sn] = buf[sn]
  BY <1>3
<1> QED
  BY <1>3, <1>4, <1>5, <1>8, <1>9, <1>10, <1>11, <1>12 DEF Moves

------------------------------------------------------------------------------
(* Numbers, windows, acknowledgements and copies.                          *)

Core == TypeOK /\ Numbers /\ Windows /\ AckedIsKept /\ Acknowledged /\ Copies

LEMMA NumbersAreSNs ==
    ASSUME TypeOK
    PROVE  /\ 0..(sndNxt - 1) \subseteq SNs /\ MaxUnits \in Nat
           /\ accepted \in Nat /\ sndNxt \in Nat /\ sndUna \in Nat /\ rcvNxt \in Nat
           /\ Len(sndQueue) \in Nat /\ Len(rcvQueue) \in Nat
           /\ SndWnd \in Nat /\ RcvWnd \in Nat
  BY KcpAssumption, ElementsOf DEF TypeOK, SNs

LEMMA CoreInitially == Init => Core
<1> SUFFICES ASSUME Init PROVE Core
  OBVIOUS
<1>1. <<>> \in Seq(Fragment) /\ Len(<<>>) = 0 /\ DOMAIN <<>> = {}
  BY EmptySeq
<1>2. WndRcv \in 0..RcvWnd /\ MaxUnits \in Nat /\ SndWnd \in Nat /\ RcvWnd \in Nat
  BY KcpAssumption
<1>3. TypeOK
  <2>1. /\ accepted \in 0..MaxUnits /\ sndUna \in Nat /\ sndNxt \in 0..MaxUnits
        /\ rcvNxt \in Nat /\ cwnd \in Nat /\ incr \in Nat /\ rmtWnd \in 0..RcvWnd
        /\ ssthresh \in Nat /\ ssthresh >= ThreshMin
    BY <1>2 DEF Init, ThreshMin
  <2>2. /\ sndQueue \in Seq(Fragment) /\ rcvQueue \in Seq(Fragment)
        /\ DOMAIN sndBuf = {} /\ DOMAIN rcvBuf = {}
        /\ probing \in BOOLEAN /\ tell \in BOOLEAN /\ asks \in BOOLEAN
        /\ ackList = {} /\ pushes = {} /\ replies = {}
    BY <1>1 DEF Init
  <2> QED
    BY <2>1, <2>2 DEF TypeOK
<1>4. Numbers /\ Windows /\ AckedIsKept /\ Acknowledged /\ Copies
  BY <1>1, <1>2 DEF Init, Numbers, Windows, AckedIsKept, Acknowledged, Copies
<1> QED
  BY <1>3, <1>4 DEF Core

\* What Send takes, of which the last segment takes a part.
LEMMA SendTakes ==
    ASSUME Core, Send
    PROVE  \E taken, rest \in Nat :
             /\ accepted + taken + rest <= MaxUnits /\ taken + rest > 0
             /\ Sendable(rest)
             /\ \E len \in Nat : taken = Extension(len)
             /\ accepted' = accepted + taken + rest
             /\ sndQueue' = Extended(taken) \o Fragments(accepted + taken, rest)
             /\ Extended(taken) \in Seq(Fragment)
             /\ Len(Extended(taken)) = Len(sndQueue)
             /\ \A i \in 1..Len(sndQueue) : Extended(taken)[i].frg = sndQueue[i].frg
<1> PICK len \in Lens :
        LET taken == Extension(len)
            rest  == IF Sendable(len - taken) THEN len - taken ELSE 0
        IN  /\ taken + rest > 0
            /\ accepted' = accepted + taken + rest
            /\ accepted' <= MaxUnits
            /\ sndQueue' = Extended(taken) \o Fragments(accepted + taken, rest)
  BY DEF Send
<1> DEFINE taken == Extension(len)
           rest  == IF Sendable(len - taken) THEN len - taken ELSE 0
<1>1. len \in Nat \ {0} /\ accepted \in Nat /\ MaxUnits \in Nat /\ SegLen \in Nat \ {0}
  BY KcpAssumption DEF Core, TypeOK
<1>2. taken \in 0..len
  <2>1. CASE Stream /\ sndQueue # <<>>
    <3> DEFINE l == Len(sndQueue[Len(sndQueue)].data)
    <3>1. sndQueue \in Seq(Fragment)
      BY DEF Core, TypeOK
    <3>2. Len(sndQueue) \in 1..Len(sndQueue)
      BY <2>1, <3>1, EmptySeq
    <3>3. l \in 1..SegLen
      BY <3>1, <3>2, SeqOfFragments
    <3>4. taken = Least(len, SegLen - l)
      BY <2>1 DEF Extension, Last
    <3> HIDE DEF l, taken
    <3> QED
      BY <1>1, <3>3, <3>4 DEF Least
  <2>2. CASE ~(Stream /\ sndQueue # <<>>)
    BY <1>1, <2>2 DEF Extension
  <2> QED
    BY <2>1, <2>2
<1>3. rest \in Nat /\ Sendable(rest)
  <2>1. Sendable(0)
    BY Counted, KcpAssumption DEF Sendable
  <2> HIDE DEF taken
  <2> QED
    BY <1>1, <1>2, <2>1
<1>4. /\ taken + rest > 0 /\ accepted' = accepted + taken + rest
      /\ accepted' <= MaxUnits
      /\ sndQueue' = Extended(taken) \o Fragments(accepted + taken, rest)
  OBVIOUS
<1>5. accepted + taken + rest <= MaxUnits /\ accepted + taken <= MaxUnits
  <2> HIDE DEF taken, rest
  <2> QED
    BY <1>1, <1>2, <1>3, <1>4
<1>6. /\ Extended(taken) \in Seq(Fragment) /\ Len(Extended(taken)) = Len(sndQueue)
      /\ \A i \in 1..Len(sndQueue) : Extended(taken)[i].frg = sndQueue[i].frg
  BY <1>1, <1>5, ExtendedTyped DEF Core
<1>7. taken \in Nat /\ \E l \in Nat : taken = Extension(l)
  BY <1>1, <1>2
<1> HIDE DEF taken, rest
<1> QED
  BY <1>3, <1>4, <1>5, <1>6, <1>7

LEMMA SendKeepsCore == ASSUME Core, Send PROVE Core'
<1> PICK taken \in Nat, rest \in Nat :
        /\ accepted + taken + rest <= MaxUnits
        /\ Sendable(rest)
        /\ accepted' = accepted + taken + rest
        /\ sndQueue' = Extended(taken) \o Fragments(accepted + taken, rest)
        /\ Extended(taken) \in Seq(Fragment)
        /\ Len(Extended(taken)) = Len(sndQueue)
  BY SendTakes
<1>1. /\ accepted + taken \in Nat /\ FragmentCount(rest) \in 0..rest
      /\ accepted' \in 0..MaxUnits
  BY Counted, KcpAssumption DEF Core, TypeOK
<1>2. /\ sndQueue' \in Seq(Fragment)
      /\ Len(sndQueue') = Len(sndQueue) + FragmentCount(rest)
  <2>1. (accepted + taken) + rest <= MaxUnits
    OBVIOUS
  <2>2. /\ Fragments(accepted + taken, rest) \in Seq(Fragment)
        /\ Len(Fragments(accepted + taken, rest)) = FragmentCount(rest)
    BY <1>1, <2>1, FragmentsTyped
  <2> DEFINE a == Extended(taken)
             b == Fragments(accepted + taken, rest)
  <2>3. a \in Seq(Fragment) /\ b \in Seq(Fragment) /\ sndQueue' = a \o b
    BY <2>2
  <2>4. Len(a) = Len(sndQueue) /\ Len(b) = FragmentCount(rest)
    BY <2>2
  <2> HIDE DEF a, b
  <2>5. a \o b \in Seq(Fragment) /\ Len(a \o b) = Len(a) + Len(b)
    BY <2>3, ConcatProperties
  <2> QED
    BY <2>3, <2>4, <2>5
<1>3. /\ UNCHANGED <<sndBuf, sndUna, sndNxt, rmtWnd, cwnd, incr, ssthresh, probing>>
      /\ UNCHANGED <<rcvQueue, rcvBuf, rcvNxt, ackList, tell, pushes, asks, replies>>
  BY DEF Send, congestion, receiver, network
<1>4. TypeOK'
  BY <1>1, <1>2, <1>3 DEF Core, TypeOK
<1>5. Numbers'
  <2>1. sndNxt + Len(sndQueue') <= accepted'
    <3>1. sndNxt + Len(sndQueue) <= accepted /\ sndNxt \in Nat /\ Len(sndQueue) \in Nat
      BY NumbersAreSNs DEF Core, Numbers
    <3>2. accepted \in Nat /\ accepted' = (accepted + taken) + rest
      BY NumbersAreSNs DEF Core
    <3> QED
      BY <1>1, <1>2, <3>1, <3>2
  <2> QED
    BY <1>3, <2>1 DEF Core, Numbers
<1>6. Windows' /\ AckedIsKept' /\ Acknowledged' /\ Copies'
  BY <1>3 DEF Core, Windows, InWindow, AckedIsKept, Acknowledged, Has, Copies
<1> QED
  BY <1>4, <1>5, <1>6 DEF Core

\* snd_buf after a flush: the old segments and the numbered ones, each with its data.
LEMMA FlushedBufIs ==
    ASSUME Core, NEW overdue \in SUBSET DOMAIN sndBuf
    PROVE  /\ Moved \in 0..Len(sndQueue) /\ sndNxt + Moved <= sndUna + SndWnd
           /\ DOMAIN FlushedBuf(overdue) = DOMAIN sndBuf \cup Numbered
           /\ Sent(overdue) \subseteq DOMAIN FlushedBuf(overdue)
           /\ \A sn \in Numbered :
                 /\ sn - sndNxt + 1 \in 1..Len(sndQueue)
                 /\ FlushedBuf(overdue)[sn].frag = sndQueue[sn - sndNxt + 1]
           /\ \A sn \in DOMAIN sndBuf :
                 sn \notin Numbered /\ FlushedBuf(overdue)[sn].frag = sndBuf[sn].frag
           /\ \A sn \in DOMAIN FlushedBuf(overdue) :
                 FlushedBuf(overdue)[sn] \in
                     [frag : Fragment, xmit : 1..(Greatest(FastLimit, 0) + 1),
                      fastack : 0..FastResend]
<1> DEFINE buf == FlushedBuf(overdue)
           top == Greatest(FastLimit, 0) + 1
           S == [frag : Fragment, xmit : 1..top, fastack : 0..FastResend]
<1>1. Moved \in 0..Len(sndQueue) /\ sndNxt + Moved <= sndUna + SndWnd
  BY MovedBounds DEF Core, Numbers, Windows
<1>2. DOMAIN buf = DOMAIN sndBuf \cup Numbered
  BY DEF FlushedBuf
<1>3. Sent(overdue) \subseteq DOMAIN buf
  BY <1>2 DEF Sent, Again, Skipped
<1>4. \A sn \in Numbered : sn \in Int /\ sn - sndNxt + 1 \in 1..Len(sndQueue) /\ sn >= sndNxt
  BY <1>1, NumbersAreSNs DEF Numbered, Core
<1>5. \A sn \in DOMAIN sndBuf : sn \notin Numbered
  <2>1. \A sn \in DOMAIN sndBuf : sn < sndNxt
    BY NumbersAreSNs DEF Core, Numbers
  <2> QED
    BY <1>4, <2>1, NumbersAreSNs DEF Core
<1>6. top \in Nat \ {0} /\ FastResend \in Nat
  BY KcpAssumption DEF Greatest
<1>7. \A sn \in DOMAIN sndBuf : sndBuf[sn] \in S
  BY DEF Core, TypeOK
<1>8. ASSUME NEW sn \in Numbered
      PROVE  buf[sn] = [frag |-> sndQueue[sn - sndNxt + 1], xmit |-> 1, fastack |-> 0]
  BY <1>8 DEF FlushedBuf
<1>9. ASSUME NEW sn \in Numbered
      PROVE  buf[sn].frag = sndQueue[sn - sndNxt + 1] /\ buf[sn] \in S
  <2>1. sndQueue[sn - sndNxt + 1] \in Fragment
    BY <1>4, ElementsOf DEF Core, TypeOK
  <2> DEFINE q == sndQueue[sn - sndNxt + 1]
  <2>2. q \in Fragment /\ 1 \in 1..top /\ 0 \in 0..FastResend
    BY <1>6, <2>1
  <2>3. buf[sn] = [frag |-> q, xmit |-> 1, fastack |-> 0]
    BY <1>8
  <2> HIDE DEF buf, top, q
  <2>4. buf[sn] \in S /\ buf[sn].frag = q
    BY <2>2, <2>3
  <2> QED
    BY <2>4 DEF q
<1>10. ASSUME NEW sn \in DOMAIN sndBuf
       PROVE  buf[sn].frag = sndBuf[sn].frag /\ buf[sn] \in S
  <2> DEFINE old == sndBuf[sn]
             new == [old EXCEPT !.xmit = NextXmit(@),
                                !.fastack = IF sn \in overdue THEN @ ELSE 0]
  <2>1. buf[sn] = IF sn \in Again(overdue) THEN new ELSE old
    BY <1>5 DEF FlushedBuf
  <2>2. old \in S
    BY <1>7
  <2>3. NextXmit(old.xmit) \in 1..top
    <3>1. old.xmit \in 1..top
      BY <2>2
    <3>2. NextXmit(old.xmit) = Least(old.xmit + 1, top)
      BY DEF NextXmit
    <3> HIDE DEF old, top
    <3> QED
      BY <1>6, <3>1, <3>2 DEF Least
  <2>4. new \in S /\ new.frag = old.frag
    <3>1. 0 \in 0..FastResend
      BY <1>6
    <3> DEFINE x == NextXmit(old.xmit)
    <3>2. new = [old EXCEPT !.xmit = x, !.fastack = IF sn \in overdue THEN @ ELSE 0]
      OBVIOUS
    <3> HIDE DEF old, top, x, new
    <3>3. x \in 1..top
      BY <2>3 DEF x
    <3> QED
      BY <2>2, <3>1, <3>2, <3>3
  <2> HIDE DEF new, old, S, buf
  <2> QED
    BY <2>1, <2>2, <2>4 DEF old
<1> HIDE DEF buf, S
<1> QED
  BY <1>1, <1>2, <1>3, <1>4, <1>5, <1>9, <1>10 DEF buf, S

LEMMA CongestedTyped ==
    ASSUME Core, NEW overdue, Congested(overdue), sndNxt' \in Nat, sndNxt' >= sndUna
    PROVE  cwnd' \in Nat /\ incr' \in Nat /\ ssthresh' \in Nat /\ ssthresh' >= ThreshMin
<1>1. /\ cwnd \in Nat /\ incr \in Nat /\ ssthresh \in Nat /\ ssthresh >= ThreshMin
      /\ Mss \in Nat /\ FastResend \in Nat /\ sndUna \in Nat /\ Window \in Nat
  BY WindowBounds, KcpAssumption DEF Core, TypeOK
<1>2. \A n \in Nat : Thresh(n) \in Nat /\ Thresh(n) >= ThreshMin
  BY DEF Thresh, Greatest, ThreshMin
<1>3. \A m, n \in Nat : m * n \in Nat
  OBVIOUS
<1>4. CASE overdue # {}
  BY <1>1, <1>2, <1>4 DEF Congested
<1>5. CASE overdue = {} /\ Skipped(overdue) # {}
  <2>1. /\ ssthresh' = Thresh(sndNxt' - sndUna)
        /\ cwnd' = ssthresh' + FastResend /\ incr' = cwnd' * Mss
    BY <1>5 DEF Congested
  <2>2. ssthresh' \in Nat /\ ssthresh' >= ThreshMin
    BY <1>1, <1>2, <2>1
  <2>3. cwnd' \in Nat
    BY <1>1, <2>1, <2>2
  <2> QED
    BY <1>1, <1>3, <2>1, <2>2, <2>3
<1>6. CASE overdue = {} /\ Skipped(overdue) = {}
  BY <1>1, <1>6 DEF Congested, congestion
<1> QED
  BY <1>4, <1>5, <1>6

LEMMA FlushKeepsCore ==
    ASSUME Core, NEW overdue \in SUBSET DOMAIN sndBuf, NEW elapsed \in BOOLEAN,
           NEW kept \in SUBSET Sent(overdue), FlushSender(overdue, elapsed, kept)
    PROVE  Core'
<1> DEFINE buf == FlushedBuf(overdue)
           new == {[sn |-> sn, frag |-> buf[sn].frag] : sn \in kept}
<1>1. /\ sndBuf' = buf /\ sndNxt' = sndNxt + Moved /\ pushes' = pushes \cup new
      /\ sndQueue' = SubSeq(sndQueue, Moved + 1, Len(sndQueue))
      /\ UNCHANGED <<accepted, sndUna, rmtWnd, rcvQueue, rcvBuf, rcvNxt, ackList, tell,
                     replies>>
      /\ probing' = (rmtWnd = 0) /\ asks' = (asks \/ Asks(elapsed))
  BY DEF FlushSender, receiver
<1>2. /\ Moved \in 0..Len(sndQueue) /\ sndNxt + Moved <= sndUna + SndWnd
      /\ DOMAIN buf = DOMAIN sndBuf \cup Numbered /\ kept \subseteq DOMAIN buf
      /\ \A sn \in DOMAIN sndBuf : buf[sn].frag = sndBuf[sn].frag
      /\ \A sn \in DOMAIN buf :
            buf[sn] \in [frag : Fragment, xmit : 1..(Greatest(FastLimit, 0) + 1),
                         fastack : 0..FastResend]
  BY FlushedBufIs
<1> HIDE DEF buf
<1>3. /\ accepted \in Nat /\ sndNxt \in Nat /\ sndUna \in Nat /\ Len(sndQueue) \in Nat
      /\ MaxUnits \in Nat /\ accepted <= MaxUnits /\ sndNxt + Len(sndQueue) <= accepted
      /\ sndUna <= sndNxt
  BY NumbersAreSNs DEF Core, Numbers, TypeOK
<1>4. sndNxt' \in 0..MaxUnits /\ sndNxt' >= sndNxt /\ sndNxt' - 1 < MaxUnits
  BY <1>1, <1>2, <1>3
<1>5. DOMAIN buf \subseteq sndUna..(sndNxt' - 1)
  <2>1. Numbered \subseteq sndUna..(sndNxt' - 1)
    BY <1>1, <1>2, <1>3 DEF Numbered
  <2>2. DOMAIN sndBuf \subseteq sndUna..(sndNxt' - 1)
    BY <1>3, <1>4 DEF Core, Numbers
  <2> QED
    BY <1>2, <2>1, <2>2
<1>6. sndUna..(sndNxt' - 1) \subseteq SNs
  <2> DEFINE next == sndNxt'
  <2>1. next \in 0..MaxUnits
    BY <1>4
  <2> HIDE DEF next
  <2>2. sndUna..(next - 1) \subseteq 0..(MaxUnits - 1)
    BY <1>3, <2>1
  <2> QED
    BY <2>2 DEF next, SNs
<1>7. sndQueue' \in Seq(Fragment) /\ Len(sndQueue') = Len(sndQueue) - Moved
  <2>1. sndQueue \in Seq(Fragment) /\ Moved \in Nat /\ Moved <= Len(sndQueue)
    BY <1>2, <1>3 DEF Core, TypeOK
  <2> DEFINE rest == SubSeq(sndQueue, Moved + 1, Len(sndQueue))
  <2>2. /\ rest \in Seq(Fragment)
        /\ Len(rest) = IF Moved <= Len(sndQueue) THEN Len(sndQueue) - Moved ELSE 0
    BY <2>1, RestKeeps
  <2> HIDE DEF rest
  <2>3. rest \in Seq(Fragment) /\ Len(rest) = Len(sndQueue) - Moved
    BY <2>1, <2>2
  <2> QED
    BY <1>1, <2>3 DEF rest
<1>8. \A p \in pushes' :
          \/ p \in pushes
          \/ p.sn \in DOMAIN buf /\ p.frag = buf[p.sn].frag /\ p \in [sn : SNs, frag : Fragment]
  <2> SUFFICES ASSUME NEW sn \in kept
               PROVE  sn \in DOMAIN buf /\ sn \in SNs /\ buf[sn].frag \in Fragment
    BY <1>1
  <2> QED
    BY <1>2, <1>5, <1>6
<1>9. TypeOK'
  <2>1. Congested(overdue)
    BY DEF FlushSender
  <2>2. cwnd' \in Nat /\ incr' \in Nat /\ ssthresh' \in Nat /\ ssthresh' >= ThreshMin
    BY <1>3, <1>4, <2>1, CongestedTyped
  <2>3. DOMAIN sndBuf' \subseteq SNs
    BY <1>1, <1>5, <1>6
  <2>4. pushes' \subseteq [sn : SNs, frag : Fragment]
    BY <1>8 DEF Core, TypeOK
  <2>5. \A sn \in DOMAIN sndBuf' :
            sndBuf'[sn] \in [frag : Fragment, xmit : 1..(Greatest(FastLimit, 0) + 1),
                             fastack : 0..FastResend]
    BY <1>1, <1>2
  <2>6. asks' \in BOOLEAN /\ probing' \in BOOLEAN
    BY <1>1 DEF Core, TypeOK, Asks
  <2> QED
    BY <1>1, <1>4, <1>7, <2>2, <2>3, <2>4, <2>5, <2>6 DEF Core, TypeOK
<1>10. Numbers'
  <2>1. \A p \in pushes' : p.sn < sndNxt'
    <3>1. \A p \in pushes : p.sn \in Nat /\ p.sn < sndNxt
      BY DEF Core, TypeOK, Numbers, SNs
    <3>2. \A sn \in DOMAIN buf : sn < sndNxt'
      BY <1>3, <1>4, <1>5
    <3> QED
      BY <1>3, <1>4, <1>8, <3>1, <3>2
  <2>2. DOMAIN rcvBuf \subseteq rcvNxt..(sndNxt' - 1) /\ rcvNxt <= sndNxt'
    BY <1>3, <1>4, NumbersAreSNs DEF Core, Numbers
  <2>3. sndNxt' + Len(sndQueue') <= accepted
    <3> DEFINE l == Len(sndQueue)
               n == Moved
    <3>1. /\ n \in 0..l /\ l \in Nat /\ sndNxt' = sndNxt + n /\ Len(sndQueue') = l - n
          /\ sndNxt + l <= accepted
      BY <1>1, <1>2, <1>3, <1>7
    <3> HIDE DEF l, n
    <3> QED
      BY <1>3, <3>1
  <2>4. sndUna' <= sndNxt' /\ rcvNxt' <= sndNxt'
    BY <1>1, <1>3, <1>4, <2>2
  <2>5. /\ sndNxt' + Len(sndQueue') <= accepted'
        /\ DOMAIN sndBuf' \subseteq sndUna'..(sndNxt' - 1)
        /\ DOMAIN rcvBuf' \subseteq rcvNxt'..(sndNxt' - 1)
    BY <1>1, <1>5, <2>2, <2>3
  <2> QED
    BY <2>1, <2>4, <2>5 DEF Numbers
<1>11. Windows'
  BY <1>1, <1>2 DEF Core, Windows, InWindow
<1>12. AckedIsKept'
  <2> SUFFICES ASSUME NEW sn \in 0..(sndNxt' - 1), sn \notin DOMAIN buf PROVE Has(sn)
    BY <1>1 DEF AckedIsKept, Has
  <2>1. sn \notin Numbered /\ sn \notin DOMAIN sndBuf
    BY <1>2
  <2>2. sn \in 0..(sndNxt - 1)
    BY <1>1, <1>2, <1>3, <2>1 DEF Numbered
  <2> QED
    BY <2>1, <2>2 DEF Core, AckedIsKept, Has
<1>13. Acknowledged'
  BY <1>1 DEF Core, Acknowledged, Has
<1>14. Copies'
  <2>1. ASSUME NEW sn \in DOMAIN buf, sn \in SNs, sn < sndNxt PROVE sn \in DOMAIN sndBuf
    BY <1>2, <1>3, <2>1 DEF Numbered, SNs
  <2>2. DOMAIN rcvBuf \subseteq SNs /\ \A sn \in DOMAIN rcvBuf : sn < sndNxt
    BY NumbersAreSNs DEF Core, TypeOK, Numbers
  <2>3. \A sn \in DOMAIN buf \cap DOMAIN rcvBuf : buf[sn].frag = rcvBuf[sn]
    BY <1>2, <2>1, <2>2 DEF Core, Copies
  <2>4. ASSUME NEW p \in pushes
        PROVE  p.sn \in DOMAIN buf => buf[p.sn].frag = p.frag
    <3>1. p.sn \in SNs /\ p.sn < sndNxt
      BY DEF Core, TypeOK, Numbers
    <3> QED
      BY <1>2, <2>1, <3>1 DEF Core, Copies
  <2>5. \A p \in pushes' :
           /\ p.sn \in DOMAIN buf => buf[p.sn].frag = p.frag
           /\ p.sn \in DOMAIN rcvBuf => rcvBuf[p.sn] = p.frag
    BY <1>8, <2>3, <2>4 DEF Core, Copies
  <2> QED
    BY <1>1, <2>3, <2>5 DEF Copies
<1> QED
  BY <1>9, <1>10, <1>11, <1>12, <1>13, <1>14 DEF Core

\* The receiver's step keeps the rest, given that buf holds nothing wrong.
LEMMA MovesKeepCore ==
    ASSUME Core, NEW queue \in Seq(Fragment), NEW buf, NEW n \in Nat,
           Moves(queue, buf, n),
           DOMAIN rcvBuf \subseteq DOMAIN buf, DOMAIN buf \subseteq rcvNxt..(sndNxt - 1),
           \A sn \in DOMAIN buf : InWindow(sn) /\ buf[sn] \in Fragment,
           \A p \in pushes : p.sn \in DOMAIN buf => buf[p.sn] = p.frag,
           \A sn \in DOMAIN sndBuf \cap DOMAIN buf : sndBuf[sn].frag = buf[sn],
           UNCHANGED sender, pushes' \subseteq pushes, replies' \subseteq replies,
           tell' \in BOOLEAN, asks' \in BOOLEAN,
           \A sn \in ackList' : sn \in SNs /\ (Has(sn) \/ sn \in DOMAIN buf)
    PROVE  Core'
<1>1. /\ UNCHANGED <<accepted, sndQueue, sndBuf, sndUna, sndNxt, rmtWnd, cwnd, incr,
                     ssthresh, probing>>
  BY DEF sender, congestion
<1>2. /\ rcvNxt \in Nat /\ sndNxt \in Nat /\ rcvNxt <= sndNxt /\ RcvWnd \in Nat
      /\ 0..(sndNxt - 1) \subseteq SNs
  BY NumbersAreSNs DEF Core, Numbers
<1>3. /\ rcvNxt' = rcvNxt + n /\ rcvNxt' \in Nat /\ rcvNxt <= rcvNxt'
      /\ \A sn \in rcvNxt..(rcvNxt + n - 1) : sn \in DOMAIN buf
      /\ rcvQueue' \in Seq(Fragment) /\ Len(rcvQueue') <= RcvWnd
      /\ DOMAIN rcvBuf' = {sn \in DOMAIN buf : sn >= rcvNxt + n}
      /\ \A sn \in DOMAIN rcvBuf' : rcvBuf'[sn] = buf[sn]
  BY <1>2 DEF Moves
<1>4. rcvNxt' <= sndNxt
  <2>1. CASE n = 0
    BY <1>2, <1>3, <2>1
  <2>2. CASE n # 0
    <3>1. rcvNxt + n - 1 \in rcvNxt..(rcvNxt + n - 1)
      BY <1>2, <2>2
    <3>2. rcvNxt + n - 1 \in rcvNxt..(sndNxt - 1)
      BY <1>3, <3>1
    <3> QED
      BY <1>2, <1>3, <3>2
  <2> QED
    BY <2>1, <2>2
<1>5. DOMAIN rcvBuf' \subseteq rcvNxt'..(sndNxt - 1)
  BY <1>2, <1>3
<1>6. \A sn \in SNs : Has(sn) \/ sn \in DOMAIN buf => Has(sn)'
  <2> SUFFICES ASSUME NEW sn \in SNs, Has(sn) \/ sn \in DOMAIN buf,
                      ~(sn < rcvNxt')
               PROVE  sn \in DOMAIN rcvBuf'
    BY DEF Has
  <2>1. sn \in Nat
    BY DEF SNs
  <2>2. sn >= rcvNxt + n /\ ~(sn < rcvNxt)
    BY <1>2, <1>3, <2>1
  <2>3. sn \in DOMAIN buf
    BY <2>2 DEF Has
  <2> QED
    BY <1>3, <2>2, <2>3
<1>7. TypeOK'
  <2>1. DOMAIN rcvBuf' \subseteq SNs
    BY <1>2, <1>3
  <2>2. \A sn \in DOMAIN rcvBuf' : rcvBuf'[sn] \in Fragment
    BY <1>3
  <2>3. ackList' \subseteq SNs
    OBVIOUS
  <2> QED
    BY <1>1, <1>3, <2>1, <2>2, <2>3 DEF Core, TypeOK
<1>8. Numbers'
  <2>1. \A p \in pushes' : p.sn < sndNxt
    BY DEF Core, Numbers
  <2>2. /\ sndUna <= sndNxt /\ sndNxt + Len(sndQueue) <= accepted
        /\ DOMAIN sndBuf \subseteq sndUna..(sndNxt - 1)
    BY DEF Core, Numbers
  <2>3. sndUna' <= sndNxt' /\ rcvNxt' <= sndNxt' /\ \A p \in pushes' : p.sn < sndNxt'
    BY <1>1, <1>4, <2>1, <2>2
  <2>4. /\ sndNxt' + Len(sndQueue') <= accepted'
        /\ DOMAIN sndBuf' \subseteq sndUna'..(sndNxt' - 1)
        /\ DOMAIN rcvBuf' \subseteq rcvNxt'..(sndNxt' - 1)
    BY <1>1, <1>5, <2>2
  <2> QED
    BY <2>3, <2>4 DEF Numbers
<1>9. Windows'
  <2>1. \A sn \in DOMAIN rcvBuf' : sn < rcvNxt' + RcvWnd
    <3> SUFFICES ASSUME NEW sn \in DOMAIN rcvBuf' PROVE sn < rcvNxt' + RcvWnd
      OBVIOUS
    <3>1. sn \in Int /\ sn < rcvNxt + RcvWnd
      BY <1>3 DEF InWindow
    <3> QED
      BY <1>2, <1>3, <3>1
  <2>2. sndNxt' <= sndUna' + SndWnd
    BY <1>1 DEF Core, Windows
  <2> QED
    BY <1>3, <2>1, <2>2 DEF Windows, InWindow
<1>10. AckedIsKept'
  <2> SUFFICES ASSUME NEW sn \in 0..(sndNxt - 1), sn \notin DOMAIN sndBuf
               PROVE  Has(sn)'
    BY <1>1 DEF AckedIsKept, Has
  <2>1. Has(sn)
    BY DEF Core, AckedIsKept, Has
  <2> QED
    BY <1>2, <1>6, <2>1
<1>11. Acknowledged'
  <2>1. \A sn \in ackList' : Has(sn)'
    BY <1>6
  <2>2. ASSUME NEW reply \in replies'
        PROVE  reply.una <= rcvNxt' /\ \A sn \in reply.acks : Has(sn)'
    <3>1. reply \in [acks : SUBSET SNs, una : 0..MaxUnits, wnd : 0..RcvWnd]
      BY DEF Core, TypeOK
    <3>2. reply.una \in Nat /\ reply.acks \subseteq SNs
      BY <3>1
    <3>3. reply.una <= rcvNxt /\ \A sn \in reply.acks : Has(sn)
      BY DEF Core, Acknowledged
    <3> QED
      BY <1>2, <1>3, <1>6, <3>2, <3>3
  <2> QED
    BY <2>1, <2>2 DEF Acknowledged, Has
<1>12. Copies'
  <2>1. \A p \in pushes' :
           /\ p.sn \in DOMAIN sndBuf => sndBuf[p.sn].frag = p.frag
           /\ p.sn \in DOMAIN rcvBuf' => rcvBuf'[p.sn] = p.frag
    BY <1>3 DEF Core, Copies
  <2>2. \A sn \in DOMAIN sndBuf \cap DOMAIN rcvBuf' : sndBuf[sn].frag = rcvBuf'[sn]
    BY <1>3
  <2> QED
    BY <1>1, <2>1, <2>2 DEF Copies
<1> QED
  BY <1>7, <1>8, <1>9, <1>10, <1>11, <1>12 DEF Core

\* What rcv_buf may hold while ikcp_input and ikcp_recv work on it: what it holds
\* already, and copies of segments that are still unacknowledged.
Buffers(buf) ==
    /\ DOMAIN rcvBuf \subseteq DOMAIN buf /\ DOMAIN buf \subseteq rcvNxt..(sndNxt - 1)
    /\ \A sn \in DOMAIN buf : InWindow(sn) /\ buf[sn] \in Fragment
    /\ \A sn \in DOMAIN rcvBuf : buf[sn] = rcvBuf[sn]
    /\ \A p \in pushes : p.sn \in DOMAIN buf => buf[p.sn] = p.frag
    /\ \A sn \in DOMAIN sndBuf \cap DOMAIN buf : sndBuf[sn].frag = buf[sn]

LEMMA RcvBufIsBuffer == ASSUME Core PROVE Buffers(rcvBuf)
  BY DEF Core, TypeOK, Numbers, Windows, Copies, Buffers

\* A segment that arrives joins rcv_buf when it is in the window and new.
LEMMA PushMoves ==
    ASSUME Core, NEW p \in pushes, InputPush(p)
    PROVE  \E buf : \E n \in Nat :
              /\ Buffers(buf) /\ Moves(rcvQueue, buf, n)
              /\ InWindow(p.sn) => Has(p.sn) \/ p.sn \in DOMAIN buf
<1>1. /\ rcvNxt \in Nat /\ sndNxt \in Nat /\ RcvWnd \in Nat
      /\ rcvQueue \in Seq(Fragment) /\ Len(rcvQueue) \in Nat /\ Len(rcvQueue) <= RcvWnd
  BY NumbersAreSNs DEF Core, TypeOK, Windows
<1>2. p.sn \in SNs /\ p.sn \in Nat /\ p.sn < sndNxt /\ p.frag \in Fragment
  BY DEF Core, TypeOK, Numbers, SNs
<1>3. Buffers(rcvBuf)
  BY RcvBufIsBuffer
<1>4. CASE InWindow(p.sn) /\ p.sn >= rcvNxt
  <2> DEFINE buf == [sn \in DOMAIN rcvBuf \cup {p.sn} |->
                        IF sn \in DOMAIN rcvBuf THEN rcvBuf[sn] ELSE p.frag]
  <2>1. MoveAvailable(rcvQueue, buf)
    BY <1>4 DEF InputPush, ParseData
  <2>2. DOMAIN buf = DOMAIN rcvBuf \cup {p.sn}
    OBVIOUS
  <2>3. \A sn \in DOMAIN rcvBuf : buf[sn] = rcvBuf[sn]
    OBVIOUS
  <2>4. p.sn \notin DOMAIN rcvBuf => buf[p.sn] = p.frag
    OBVIOUS
  <2> HIDE DEF buf
  <2>5. DOMAIN buf \subseteq rcvNxt..(sndNxt - 1)
    BY <1>1, <1>2, <1>3, <1>4, <2>2 DEF Buffers
  <2>6. \A sn \in DOMAIN buf : InWindow(sn) /\ buf[sn] \in Fragment
    BY <1>2, <1>3, <1>4, <2>2, <2>3, <2>4 DEF Buffers
  <2>7. \A sn \in DOMAIN sndBuf \cap DOMAIN buf : sndBuf[sn].frag = buf[sn]
    BY <1>3, <2>2, <2>3, <2>4 DEF Core, Copies, Buffers
  <2>8. ASSUME NEW other \in pushes, other.sn \in DOMAIN buf
        PROVE  buf[other.sn] = other.frag
    <3>1. CASE other.sn \in DOMAIN rcvBuf
      BY <3>1, <2>3 DEF Core, Copies
    <3>2. CASE other.sn \notin DOMAIN rcvBuf
      <4>1. other.sn = p.sn /\ ~(p.sn < rcvNxt)
        BY <1>1, <1>2, <1>4, <2>2, <2>8, <3>2
      <4>2. p.sn \in 0..(sndNxt - 1)
        BY <1>1, <1>2
      <4>3. p.sn \in DOMAIN sndBuf
        BY <3>2, <4>1, <4>2 DEF Core, AckedIsKept
      <4> QED
        BY <2>4, <3>2, <4>1, <4>3 DEF Core, Copies
    <3> QED
      BY <3>1, <3>2
  <2>9. Buffers(buf)
    BY <2>2, <2>3, <2>5, <2>6, <2>7, <2>8 DEF Buffers
  <2>10. \A sn \in DOMAIN buf : buf[sn] \in Fragment
    BY <2>6
  <2>11. DOMAIN buf \subseteq {sn \in Nat : sn >= rcvNxt}
    BY <1>1, <2>5
  <2>12. \E n \in Nat : Moves(rcvQueue, buf, n)
    BY <1>1, <2>1, <2>10, <2>11, MoveAvailableDoes
  <2> QED
    BY <2>2, <2>9, <2>12
<1>5. CASE ~(InWindow(p.sn) /\ p.sn >= rcvNxt)
  <2>1. UNCHANGED <<rcvQueue, rcvBuf, rcvNxt>>
    BY <1>5 DEF InputPush, ParseData
  <2>2. \A sn \in DOMAIN rcvBuf : sn \in Int /\ sn >= rcvNxt
    BY <1>1 DEF Core, Numbers
  <2>3. DOMAIN rcvBuf' = {sn \in DOMAIN rcvBuf : sn >= rcvNxt + 0}
    <3>1. \A sn \in DOMAIN rcvBuf : sn >= rcvNxt + 0
      BY <1>1, <2>2
    <3>2. DOMAIN rcvBuf = {sn \in DOMAIN rcvBuf : sn >= rcvNxt + 0}
      BY <3>1
    <3> QED
      BY <2>1, <3>2
  <2>4. /\ rcvNxt' = rcvNxt + 0
        /\ \A sn \in rcvNxt..(rcvNxt + 0 - 1) : sn \in DOMAIN rcvBuf
        /\ Len(rcvQueue') = Len(rcvQueue) + 0
    BY <1>1, <2>1
  <2>5. Moves(rcvQueue, rcvBuf, 0)
    BY <1>1, <2>1, <2>3, <2>4 DEF Moves
  <2>6. InWindow(p.sn) => Has(p.sn)
    BY <1>1, <1>2, <1>5 DEF Has
  <2> QED
    BY <1>3, <2>5, <2>6
<1> QED
  BY <1>4, <1>5

LEMMA PushKeepsCore == ASSUME Core, NEW p \in pushes, InputPush(p) PROVE Core'
<1>1. PICK buf : \E n \in Nat :
              /\ Buffers(buf) /\ Moves(rcvQueue, buf, n)
              /\ InWindow(p.sn) => Has(p.sn) \/ p.sn \in DOMAIN buf
  BY PushMoves
<1>2. PICK n \in Nat : Moves(rcvQueue, buf, n)
  BY <1>1
<1>3. /\ UNCHANGED sender /\ pushes' \subseteq pushes /\ replies' = replies
      /\ tell' = tell /\ asks' = asks
      /\ ackList' = ackList \cup (IF InWindow(p.sn) THEN {p.sn} ELSE {})
  BY DEF InputPush, Delivered
<1>4. tell \in BOOLEAN /\ asks \in BOOLEAN /\ rcvQueue \in Seq(Fragment) /\ ackList \subseteq SNs
      /\ p.sn \in SNs
  BY DEF Core, TypeOK
<1>5. \A sn \in ackList' : sn \in SNs /\ (Has(sn) \/ sn \in DOMAIN buf)
  BY <1>1, <1>3, <1>4 DEF Core, Acknowledged
<1> QED
  BY <1>1, <1>2, <1>3, <1>4, <1>5, MovesKeepCore DEF Buffers

LEMMA AskKeepsCore == ASSUME Core, InputAsk PROVE Core'
<1>1. /\ UNCHANGED <<accepted, sndQueue, sndBuf, sndUna, sndNxt, rmtWnd, cwnd, incr,
                     ssthresh, probing, rcvQueue, rcvBuf, rcvNxt, ackList, pushes, replies>>
      /\ asks' \in BOOLEAN /\ tell' \in BOOLEAN
  BY KcpAssumption DEF InputAsk, sender, congestion
<1>2. TypeOK'
  BY <1>1 DEF Core, TypeOK
<1> QED
  BY <1>1, <1>2 DEF Core, Numbers, Windows, InWindow, AckedIsKept, Acknowledged, Has, Copies

LEMMA ReportKeepsCore == ASSUME Core, FlushReceiver PROVE Core'
<1> DEFINE reply == [acks |-> ackList, una |-> rcvNxt, wnd |-> Unused]
<1>1. /\ UNCHANGED <<accepted, sndQueue, sndBuf, sndUna, sndNxt, rmtWnd, cwnd, incr,
                     ssthresh, probing, rcvQueue, rcvBuf, rcvNxt, pushes, asks>>
      /\ ackList' = {} /\ tell' = FALSE /\ replies' \subseteq replies \cup {reply}
  BY DEF FlushReceiver, sender, congestion, Carried
<1>2. Unused \in 0..RcvWnd
  <2> DEFINE u == Greatest(RcvWnd - Len(rcvQueue), 0)
  <2>1. u \in 0..RcvWnd /\ u < WireRange /\ WireRange \in Nat
    BY NumbersAreSNs, KcpAssumption DEF Greatest, Core
  <2>2. Unused = u % WireRange
    BY DEF Unused
  <2> HIDE DEF u
  <2>3. u % WireRange = u
    BY <2>1
  <2> QED
    BY <2>1, <2>2, <2>3
<1>3. rcvNxt \in 0..MaxUnits /\ ackList \subseteq SNs
  <2>1. rcvNxt \in Nat /\ rcvNxt <= sndNxt /\ sndNxt \in 0..MaxUnits /\ MaxUnits \in Nat
        /\ ackList \subseteq SNs
    BY KcpAssumption DEF Core, TypeOK, Numbers
  <2> QED
    BY <2>1
<1>4. reply \in [acks : SUBSET SNs, una : 0..MaxUnits, wnd : 0..RcvWnd]
  BY <1>2, <1>3
<1>5. TypeOK'
  BY <1>1, <1>4 DEF Core, TypeOK
<1>6. Acknowledged'
  <2>1. rcvNxt <= rcvNxt
    BY <1>3
  <2>2. \A r \in replies' : r.una <= rcvNxt /\ \A sn \in r.acks : Has(sn)
    BY <1>1, <2>1 DEF Core, Acknowledged
  <2> QED
    BY <1>1, <2>2 DEF Acknowledged, Has
<1> QED
  BY <1>1, <1>5, <1>6 DEF Core, Numbers, Windows, InWindow, AckedIsKept, Copies

LEMMA OpenWindowTyped ==
    ASSUME Core, NEW wnd \in Nat, OpenWindow(wnd)
    PROVE  cwnd' \in Nat /\ incr' \in Nat
<1> DEFINE base   == Greatest(incr, Mss)
           grown  == base + (Mss * Mss) \div base + Mss \div 16
           incr1  == IF cwnd < ssthresh THEN incr + Mss ELSE grown
           part   == (incr1 + Mss - 1) \div Mss
           cwnd1  == IF cwnd < ssthresh THEN cwnd + 1
                     ELSE IF (cwnd + 1) * Mss <= incr1 THEN part ELSE cwnd
<1>1. cwnd \in Nat /\ incr \in Nat /\ ssthresh \in Nat /\ Mss \in Nat \ {0}
  BY KcpAssumption DEF Core, TypeOK
<1>2. base \in Nat \ {0}
  BY <1>1 DEF Greatest
<1>3. cwnd' = Least(cwnd1, wnd) /\ incr' = IF cwnd1 > wnd THEN wnd * Mss ELSE incr1
  BY DEF OpenWindow
<1>4. \A m, n \in Nat : m * n \in Nat
  OBVIOUS
<1> HIDE DEF base
<1>5. grown \in Nat
  <2>1. Mss * Mss \in Nat /\ 16 \in Nat \ {0}
    BY <1>1, <1>4
  <2>2. (Mss * Mss) \div base \in Nat /\ Mss \div 16 \in Nat
    BY <1>1, <1>2, <2>1, Division
  <2> QED
    BY <1>2, <2>2
<1> HIDE DEF grown
<1>6. incr1 \in Nat
  BY <1>1, <1>5
<1> HIDE DEF incr1
<1>7. part \in Nat
  <2>1. incr1 + Mss - 1 \in Nat
    BY <1>1, <1>6
  <2> QED
    BY <1>1, <2>1, Division
<1> HIDE DEF part
<1>8. cwnd1 \in Nat
  BY <1>1, <1>7
<1> HIDE DEF cwnd1
<1>9. Least(cwnd1, wnd) \in Nat /\ wnd * Mss \in Nat
  BY <1>1, <1>4, <1>8 DEF Least
<1> QED
  BY <1>3, <1>6, <1>9

\* What an acknowledgement leaves in snd_buf is what the receiver may not have.
LEMMA ReplyLeaves ==
    ASSUME Core, NEW reply \in replies, InputReply(reply)
    PROVE  /\ DOMAIN sndBuf' = Unacked(reply)
           /\ Unacked(reply) \subseteq DOMAIN sndBuf
           /\ \A sn \in DOMAIN sndBuf \ Unacked(reply) : Has(sn)
           /\ \A sn \in Unacked(reply) :
                 /\ sndBuf'[sn].frag = sndBuf[sn].frag
                 /\ sndBuf'[sn] \in
                       [frag : Fragment, xmit : 1..(Greatest(FastLimit, 0) + 1),
                        fastack : 0..FastResend]
           /\ sndUna' \in sndUna..sndNxt
           /\ \A sn \in Unacked(reply) : sndUna' <= sn
<1> DEFINE left == Unacked(reply)
           top == Greatest(FastLimit, 0) + 1
           S == [frag : Fragment, xmit : 1..top, fastack : 0..FastResend]
<1>1. /\ sndBuf' = [sn \in left |-> IF sn \in SkippedBy(reply, left)
                                    THEN CountSkip(sndBuf[sn]) ELSE sndBuf[sn]]
      /\ sndUna' = FirstUnacked(left)
  BY DEF InputReply
<1>2. left \subseteq DOMAIN sndBuf
  BY DEF Unacked
<1>3. DOMAIN sndBuf \subseteq sndUna..(sndNxt - 1) /\ sndUna <= sndNxt
      /\ sndUna \in Nat /\ sndNxt \in Nat /\ rcvNxt \in Nat
  BY NumbersAreSNs DEF Core, Numbers
<1>4. ASSUME NEW sn \in DOMAIN sndBuf \ left PROVE Has(sn)
  <2>1. sn \in Nat
    BY <1>3
  <2>2. CASE sn \in reply.acks
    BY <2>2 DEF Core, Acknowledged
  <2>3. CASE sn \notin reply.acks
    <3>1. sn < reply.una
      BY <2>3 DEF Unacked, AckedByUna
    <3>2. reply.una <= rcvNxt
      BY DEF Core, Acknowledged
    <3>3. reply \in [acks : SUBSET SNs, una : 0..MaxUnits, wnd : 0..RcvWnd]
      BY DEF Core, TypeOK
    <3>4. reply.una \in Int
      BY <3>3
    <3> QED
      BY <1>3, <2>1, <3>1, <3>2, <3>4 DEF Has
  <2> QED
    BY <2>2, <2>3
<1>5. ASSUME NEW sn \in left
      PROVE  sndBuf'[sn].frag = sndBuf[sn].frag /\ sndBuf'[sn] \in S
  <2> DEFINE old == sndBuf[sn]
             count == Least(old.fastack + 1, FastResend)
             new == [old EXCEPT !.fastack = count]
  <2>1. old \in S
    BY <1>2 DEF Core, TypeOK
  <2>2. sndBuf'[sn] = IF sn \in SkippedBy(reply, left) THEN new ELSE old
    BY <1>1 DEF CountSkip
  <2>3. old.fastack \in 0..FastResend /\ FastResend \in Nat
    BY <2>1, KcpAssumption
  <2>4. count \in 0..FastResend
    <3> HIDE DEF old
    <3> QED
      BY <2>3 DEF Least
  <2>5. new \in S /\ new.frag = old.frag
    <3> HIDE DEF count, old, top
    <3> QED
      BY <2>1, <2>4
  <2> HIDE DEF new, old, S
  <2>6. sndBuf'[sn].frag = old.frag /\ sndBuf'[sn] \in S
    BY <2>1, <2>2, <2>5
  <2> QED
    BY <2>6 DEF old
<1>6. left \subseteq sndUna..(sndNxt - 1)
  BY <1>2, <1>3
<1>7. FirstUnacked(left) \in sndUna..sndNxt /\ \A sn \in left : FirstUnacked(left) <= sn
  <2> HIDE DEF left
  <2> QED
    BY <1>3, <1>6, FirstUnackedIs
<1>8. DOMAIN sndBuf' = left
  BY <1>1
<1> QED
  BY <1>1, <1>2, <1>4, <1>5, <1>7, <1>8

LEMMA ReplyKeepsCore == ASSUME Core, NEW reply \in replies, InputReply(reply) PROVE Core'
<1>1. /\ UNCHANGED <<accepted, sndQueue, sndNxt, ssthresh, probing, rcvQueue, rcvBuf, rcvNxt,
                     ackList, tell, pushes, asks>>
      /\ replies' \subseteq replies /\ rmtWnd' = reply.wnd
      /\ \/ OpenWindow(reply.wnd)
         \/ UNCHANGED <<cwnd, incr>>
  BY DEF InputReply, receiver, Delivered
<1>2. /\ DOMAIN sndBuf' = Unacked(reply)
      /\ Unacked(reply) \subseteq DOMAIN sndBuf
      /\ \A sn \in DOMAIN sndBuf \ Unacked(reply) : Has(sn)
      /\ \A sn \in DOMAIN sndBuf' :
            /\ sndBuf'[sn].frag = sndBuf[sn].frag
            /\ sndBuf'[sn] \in
                  [frag : Fragment, xmit : 1..(Greatest(FastLimit, 0) + 1),
                   fastack : 0..FastResend]
      /\ sndUna' \in sndUna..sndNxt
      /\ \A sn \in DOMAIN sndBuf' : sndUna' <= sn
  BY ReplyLeaves
<1>3. /\ sndNxt \in Nat /\ sndUna \in Nat /\ sndUna' \in Nat /\ SndWnd \in Nat
  BY <1>2, NumbersAreSNs DEF Core
<1>4. reply.wnd \in 0..RcvWnd /\ reply.wnd \in Nat
  <2>1. reply \in [acks : SUBSET SNs, una : 0..MaxUnits, wnd : 0..RcvWnd]
    BY DEF Core, TypeOK
  <2> QED
    BY <2>1
<1>5. cwnd' \in Nat /\ incr' \in Nat
  <2>1. cwnd \in Nat /\ incr \in Nat
    BY DEF Core, TypeOK
  <2> QED
    BY <1>1, <1>4, <2>1, OpenWindowTyped
<1>6. DOMAIN sndBuf' \subseteq sndUna'..(sndNxt - 1)
  <2>1. DOMAIN sndBuf' \subseteq sndUna..(sndNxt - 1)
    BY <1>2 DEF Core, Numbers
  <2> QED
    BY <1>2, <1>3, <2>1
<1>7. TypeOK'
  <2>1. DOMAIN sndBuf' \subseteq SNs
    BY <1>2 DEF Core, TypeOK
  <2> QED
    BY <1>1, <1>2, <1>3, <1>4, <1>5, <2>1 DEF Core, TypeOK
<1>8. Numbers'
  <2>1. sndUna' <= sndNxt
    BY <1>2, <1>3
  <2> QED
    BY <1>1, <1>6, <2>1 DEF Core, Numbers
<1>9. Windows'
  <2>1. sndNxt <= sndUna' + SndWnd
    <3> DEFINE una == sndUna'
    <3>1. sndNxt <= sndUna + SndWnd /\ una \in sndUna..sndNxt
      BY <1>2 DEF Core, Windows
    <3> HIDE DEF una
    <3>2. sndNxt <= una + SndWnd
      BY <1>3, <3>1
    <3> QED
      BY <3>2 DEF una
  <2> QED
    BY <1>1, <2>1 DEF Core, Windows, InWindow
<1>10. AckedIsKept'
  <2> SUFFICES ASSUME NEW sn \in 0..(sndNxt - 1), sn \notin DOMAIN sndBuf' PROVE Has(sn)
    BY <1>1 DEF AckedIsKept, Has
  <2>1. CASE sn \in DOMAIN sndBuf
    BY <1>2, <2>1
  <2>2. CASE sn \notin DOMAIN sndBuf
    BY <2>2 DEF Core, AckedIsKept, Has
  <2> QED
    BY <2>1, <2>2
<1>11. Acknowledged'
  BY <1>1 DEF Core, Acknowledged, Has
<1>12. Copies'
  BY <1>1, <1>2 DEF Core, Copies
<1> QED
  BY <1>7, <1>8, <1>9, <1>10, <1>11, <1>12 DEF Core

------------------------------------------------------------------------------
(* The outstanding segments, by their numbers: those of rcv_queue are the  *)
(* ones just below rcv_nxt, those of snd_queue will be snd_nxt and above.  *)

First == rcvNxt - Len(rcvQueue)

End == sndNxt + Len(sndQueue)

\* Where a numbered segment is kept.
At(sn) == IF sn \in DOMAIN rcvBuf THEN rcvBuf[sn] ELSE sndBuf[sn].frag

Segment(g) ==
    IF g < rcvNxt THEN rcvQueue[g - First + 1]
    ELSE IF g < sndNxt THEN At(g)
    ELSE sndQueue[g - sndNxt + 1]

\* Until it is delivered, a numbered segment is kept at one of the two ends.
LEMMA KeptSomewhere ==
    ASSUME Core, NEW sn \in rcvNxt..(sndNxt - 1)
    PROVE  /\ sn \in DOMAIN rcvBuf \/ sn \in DOMAIN sndBuf
           /\ At(sn) \in Fragment
<1>1. sn \in 0..(sndNxt - 1) /\ ~(sn < rcvNxt)
  BY NumbersAreSNs DEF Core
<1>2. sn \in DOMAIN rcvBuf \/ sn \in DOMAIN sndBuf
  BY <1>1 DEF Core, AckedIsKept
<1>3. sn \in DOMAIN sndBuf => sndBuf[sn].frag \in Fragment
  BY DEF Core, TypeOK
<1> QED
  BY <1>2, <1>3 DEF At, Core, TypeOK

LaidOut ==
    /\ Outstanding \in Seq(Fragment)
    /\ First \in Int /\ End \in Nat /\ First <= rcvNxt /\ sndNxt <= End
    /\ Len(Outstanding) = End - First
    /\ \A g \in First..(End - 1) : Outstanding[g - First + 1] = Segment(g)

\* The numbered segments not yet delivered.
Middle ==
    [i \in 1..(sndNxt - rcvNxt) |->
        LET sn == rcvNxt + i - 1 IN
        IF sn \in DOMAIN rcvBuf THEN rcvBuf[sn]
        ELSE IF sn \in DOMAIN sndBuf THEN sndBuf[sn].frag
        ELSE [data |-> <<-1>>, frg |-> -1]]

Early == rcvQueue \o Middle

LEMMA EarlyIs ==
    ASSUME Core
    PROVE  /\ sndNxt - rcvNxt \in Nat
           /\ \A i \in 1..(sndNxt - rcvNxt) : Middle[i] = At(rcvNxt + i - 1)
           /\ Early \in Seq(Fragment)
           /\ Len(Early) = Len(rcvQueue) + (sndNxt - rcvNxt)
           /\ \A i \in 1..(Len(rcvQueue) + (sndNxt - rcvNxt)) :
                 Early[i] = IF i <= Len(rcvQueue) THEN rcvQueue[i]
                            ELSE Middle[i - Len(rcvQueue)]
           /\ Outstanding = Early \o sndQueue
<1> DEFINE q == Len(rcvQueue)
           m == sndNxt - rcvNxt
           mid == Middle
<1>1. rcvQueue \in Seq(Fragment) /\ q \in Nat /\ m \in Nat /\ rcvNxt \in Nat /\ sndNxt \in Nat
  BY NumbersAreSNs DEF Core, TypeOK, Numbers
<1>2. ASSUME NEW i \in 1..m PROVE mid[i] = At(rcvNxt + i - 1) /\ mid[i] \in Fragment
  <2> DEFINE sn == rcvNxt + i - 1
  <2>1. sn \in rcvNxt..(sndNxt - 1)
    BY <1>1
  <2>2. mid[i] = IF sn \in DOMAIN rcvBuf THEN rcvBuf[sn]
                 ELSE IF sn \in DOMAIN sndBuf THEN sndBuf[sn].frag
                 ELSE [data |-> <<-1>>, frg |-> -1]
    BY DEF Middle
  <2> HIDE DEF sn, mid
  <2>3. mid[i] = At(sn) /\ mid[i] \in Fragment
    BY <2>1, <2>2, KeptSomewhere DEF At
  <2> QED
    BY <2>3 DEF sn
<1>3. Outstanding = (rcvQueue \o mid) \o sndQueue
  BY DEF Outstanding, Middle
<1>4. mid \in Seq(Fragment) /\ Len(mid) = m
  <2>1. mid \in [1..m -> Fragment]
    BY <1>2 DEF Middle
  <2> HIDE DEF mid, m
  <2> QED
    BY <1>1, <2>1, FunctionIsSeq
<1> HIDE DEF mid
<1> DEFINE front == rcvQueue \o mid
<1>5. /\ front \in Seq(Fragment) /\ Len(front) = q + m
      /\ \A i \in 1..(q + m) : front[i] = IF i <= q THEN rcvQueue[i] ELSE mid[i - q]
  BY <1>1, <1>4, ConcatProperties
<1> QED
  BY <1>1, <1>2, <1>3, <1>5 DEF Early, mid

Joins == Outstanding = Early \o sndQueue

LEMMA Joined == Core => Joins
  BY EarlyIs DEF Joins

LEMMA OutstandingSegments == Core => LaidOut
<1> SUFFICES ASSUME Core PROVE LaidOut
  OBVIOUS
<1> DEFINE q == Len(rcvQueue)
           m == sndNxt - rcvNxt
           r == Len(sndQueue)
           mid == Middle
           front == Early
<1>1. /\ rcvQueue \in Seq(Fragment) /\ sndQueue \in Seq(Fragment)
      /\ q \in Nat /\ r \in Nat /\ m \in Nat /\ rcvNxt \in Nat /\ sndNxt \in Nat
  BY NumbersAreSNs DEF Core, TypeOK, Numbers
<1>2. \A i \in 1..m : mid[i] = At(rcvNxt + i - 1)
  BY EarlyIs
<1>5. /\ front \in Seq(Fragment) /\ Len(front) = q + m
      /\ \A i \in 1..(q + m) : front[i] = IF i <= q THEN rcvQueue[i] ELSE mid[i - q]
  BY EarlyIs
<1>3. Outstanding = front \o sndQueue
  BY EarlyIs
<1> HIDE DEF front, mid
<1>6. /\ Outstanding \in Seq(Fragment) /\ Len(Outstanding) = (q + m) + r
      /\ \A i \in 1..((q + m) + r) :
            Outstanding[i] = IF i <= q + m THEN front[i] ELSE sndQueue[i - (q + m)]
  <2> DEFINE all == Outstanding
             n == q + m
  <2>1. /\ sndQueue \in Seq(Fragment) /\ front \in Seq(Fragment) /\ all = front \o sndQueue
        /\ n = Len(front) /\ r = Len(sndQueue)
    BY <1>1, <1>3, <1>5
  <2> HIDE DEF all, n, r
  <2>2. /\ all \in Seq(Fragment) /\ Len(all) = n + r
        /\ \A i \in 1..(n + r) : all[i] = IF i <= n THEN front[i] ELSE sndQueue[i - n]
    BY <2>1, ConcatIs
  <2> QED
    BY <2>2 DEF all, n
<1>7. End - First = q + m + r /\ First = rcvNxt - q /\ m = sndNxt - rcvNxt
  BY <1>1 DEF End, First
<1>9. First \in Int /\ End \in Nat /\ First <= rcvNxt /\ sndNxt <= End
  BY <1>1 DEF First, End
<1> HIDE DEF q, m, r
<1>8. ASSUME NEW i \in 1..(q + m + r), NEW g \in Int, g = First + i - 1
      PROVE  Outstanding[i] = Segment(g)
  <2>1. g = rcvNxt - q + i - 1
    BY <1>1, <1>7, <1>8
  <2>2. CASE i <= q
    <3>1. g < rcvNxt /\ g - First + 1 = i /\ i \in 1..(q + m)
      BY <1>1, <1>7, <2>1, <2>2
    <3>2. Segment(g) = rcvQueue[i]
      BY <3>1 DEF Segment
    <3>3. Outstanding[i] = rcvQueue[i]
      BY <1>1, <1>5, <1>6, <2>2, <3>1
    <3> QED
      BY <3>2, <3>3
  <2>3. CASE i > q /\ i <= q + m
    <3>1. /\ ~(g < rcvNxt) /\ g < sndNxt /\ i - q \in 1..m /\ rcvNxt + (i - q) - 1 = g
          /\ i \in 1..(q + m) /\ ~(i <= q)
      BY <1>1, <1>7, <2>1, <2>3
    <3>2. Segment(g) = At(g)
      BY <3>1 DEF Segment
    <3>3. Outstanding[i] = mid[i - q] /\ mid[i - q] = At(rcvNxt + (i - q) - 1)
      BY <1>2, <1>5, <1>6, <2>3, <3>1
    <3> QED
      BY <3>1, <3>2, <3>3
  <2>4. CASE i > q + m
    <3>1. /\ ~(g < rcvNxt) /\ ~(g < sndNxt) /\ g - sndNxt + 1 = i - (q + m)
          /\ ~(i <= q + m)
      BY <1>1, <1>7, <2>1, <2>4
    <3>2. Segment(g) = sndQueue[i - (q + m)]
      BY <3>1 DEF Segment
    <3>3. Outstanding[i] = sndQueue[i - (q + m)]
      BY <1>6, <3>1
    <3> QED
      BY <3>2, <3>3
  <2> QED
    BY <1>1, <2>2, <2>3, <2>4
<1>10. ASSUME NEW g \in First..(End - 1) PROVE Outstanding[g - First + 1] = Segment(g)
  <2>1. g \in Int /\ g - First + 1 \in 1..(q + m + r) /\ g = First + (g - First + 1) - 1
    BY <1>1, <1>7, <1>9
  <2> QED
    BY <1>8, <2>1
<1> QED
  BY <1>6, <1>7, <1>9, <1>10 DEF LaidOut

\* A step that leaves the outstanding segments alone but for the first k.
Drops(k) ==
    /\ First' = First + k /\ End' = End
    /\ \A g \in (First + k)..(End - 1) : Segment(g)' = Segment(g)

LEMMA DroppedOutstanding ==
    ASSUME Core, Core', NEW k \in Nat, First + k <= End, Drops(k)
    PROVE  Outstanding' = SubSeq(Outstanding, k + 1, Len(Outstanding))
<1> DEFINE s == Outstanding
           t == Outstanding'
           f == First
           e == End
<1>1. /\ s \in Seq(Fragment) /\ f \in Int /\ e \in Nat /\ Len(s) = e - f
      /\ \A g \in f..(e - 1) : s[g - f + 1] = Segment(g)
  BY OutstandingSegments DEF LaidOut
<1>2. Core' => LaidOut'
  BY OutstandingSegments, PTL
<1>3. /\ t \in Seq(Fragment) /\ Len(t) = e - (f + k)
      /\ \A g \in (f + k)..(e - 1) : t[g - (f + k) + 1] = Segment(g)'
  BY <1>2 DEF Drops, LaidOut
<1>4. \A g \in (f + k)..(e - 1) : Segment(g)' = Segment(g)
  BY DEF Drops
<1>5. f + k <= e
  OBVIOUS
<1> DEFINE u == SubSeq(s, k + 1, Len(s))
<1>6. /\ u \in Seq(Fragment) /\ Len(u) = IF k <= Len(s) THEN Len(s) - k ELSE 0
      /\ \A i \in 1..Len(u) : i + k \in 1..Len(s) /\ u[i] = s[i + k]
  BY <1>1, RestKeeps
<1> HIDE DEF s, t, f, e, u
<1>7. Len(u) = e - (f + k) /\ k <= Len(s)
  BY <1>1, <1>5, <1>6
<1>8. ASSUME NEW i \in 1..Len(t) PROVE t[i] = u[i]
  <2> DEFINE g == (f + k) + i - 1
  <2>1. /\ g \in (f + k)..(e - 1) /\ g \in f..(e - 1) /\ i \in 1..Len(u)
        /\ g - (f + k) + 1 = i /\ g - f + 1 = i + k
    BY <1>1, <1>3, <1>7
  <2> HIDE DEF g
  <2>2. t[i] = Segment(g)
    BY <1>3, <1>4, <2>1
  <2>3. u[i] = s[i + k] /\ s[i + k] = Segment(g)
    BY <1>1, <1>6, <2>1
  <2> QED
    BY <2>2, <2>3
<1>9. t = u
  BY <1>3, <1>6, <1>7, <1>8, SeqEqual
<1> QED
  BY <1>9 DEF s, t, u

LEMMA SameOutstanding == ASSUME Core, Core', Drops(0) PROVE Outstanding' = Outstanding
<1>1. Outstanding \in Seq(Fragment) /\ First \in Int /\ End \in Nat /\ First <= rcvNxt
  BY OutstandingSegments DEF LaidOut
<1>2. rcvNxt <= sndNxt /\ rcvNxt \in Nat /\ sndNxt \in Nat /\ Len(sndQueue) \in Nat
  BY NumbersAreSNs DEF Core, Numbers
<1>3. First + 0 <= End
  BY <1>1, <1>2 DEF End
<1>4. Outstanding' = SubSeq(Outstanding, 0 + 1, Len(Outstanding))
  BY <1>3, DroppedOutstanding
<1>5. 0 + 1 = 1
  OBVIOUS
<1> QED
  BY <1>1, <1>4, <1>5, SubSeqFull

LEMMA FlushSegments ==
    ASSUME Core, NEW overdue \in SUBSET DOMAIN sndBuf, NEW elapsed \in BOOLEAN,
           NEW kept \in SUBSET Sent(overdue), FlushSender(overdue, elapsed, kept)
    PROVE  Drops(0)
<1> DEFINE buf == FlushedBuf(overdue)
           n == Moved
<1>1. /\ sndBuf' = buf /\ sndNxt' = sndNxt + n
      /\ sndQueue' = SubSeq(sndQueue, n + 1, Len(sndQueue))
      /\ UNCHANGED <<rcvQueue, rcvBuf, rcvNxt>>
  BY DEF FlushSender, receiver
<1>2. /\ n \in 0..Len(sndQueue)
      /\ \A sn \in DOMAIN sndBuf : buf[sn].frag = sndBuf[sn].frag
      /\ \A sn \in sndNxt..(sndNxt + n - 1) : buf[sn].frag = sndQueue[sn - sndNxt + 1]
  BY FlushedBufIs DEF Numbered
<1>3. /\ sndNxt \in Nat /\ rcvNxt \in Nat /\ Len(sndQueue) \in Nat /\ rcvNxt <= sndNxt
      /\ sndQueue \in Seq(Fragment) /\ First \in Int /\ End \in Nat
      /\ DOMAIN rcvBuf \subseteq rcvNxt..(sndNxt - 1)
  BY NumbersAreSNs, OutstandingSegments DEF Core, TypeOK, Numbers, LaidOut
<1> HIDE DEF buf, n
<1>4. n \in Nat /\ n <= Len(sndQueue)
  BY <1>2, <1>3
<1>5. /\ Len(SubSeq(sndQueue, n + 1, Len(sndQueue))) =
             IF n <= Len(sndQueue) THEN Len(sndQueue) - n ELSE 0
      /\ \A i \in 1..Len(SubSeq(sndQueue, n + 1, Len(sndQueue))) :
             SubSeq(sndQueue, n + 1, Len(sndQueue))[i] = sndQueue[i + n]
  BY <1>3, <1>4, RestKeeps
<1>6. /\ Len(sndQueue') = Len(sndQueue) - n
      /\ \A i \in 1..Len(sndQueue') : sndQueue'[i] = sndQueue[i + n]
  BY <1>1, <1>4, <1>5
<1>7. First' = First
  BY <1>1 DEF First
<1>8. End' = End
  <2> DEFINE l == Len(sndQueue)
             next == Len(sndQueue')
  <2>1. next = l - n /\ l \in Nat
    BY <1>3, <1>6
  <2> HIDE DEF l, next
  <2>2. (sndNxt + n) + next = sndNxt + l
    BY <1>3, <1>4, <2>1
  <2> QED
    BY <1>1, <2>2 DEF End, l, next
<1>9. ASSUME NEW g \in First..(End - 1) PROVE Segment(g)' = Segment(g)
  <2>1. g \in Int /\ End = sndNxt + Len(sndQueue) /\ g < End
    BY <1>3 DEF End
  <2>2. CASE g < rcvNxt
    BY <1>1, <1>7, <2>2 DEF Segment
  <2>3. CASE ~(g < rcvNxt) /\ g < sndNxt
    <3>1. g \in rcvNxt..(sndNxt - 1) /\ g < sndNxt + n
      BY <1>3, <1>4, <2>1, <2>3
    <3>2. g \in DOMAIN rcvBuf \/ g \in DOMAIN sndBuf
      BY <3>1, KeptSomewhere
    <3>3. At(g)' = IF g \in DOMAIN rcvBuf THEN rcvBuf[g] ELSE buf[g].frag
      BY <1>1 DEF At
    <3>4. At(g)' = At(g)
      BY <1>2, <3>2, <3>3 DEF At
    <3>5. Segment(g) = At(g)
      BY <2>3 DEF Segment
    <3>6. Segment(g)' = At(g)'
      BY <1>1, <2>3, <3>1 DEF Segment
    <3> QED
      BY <3>4, <3>5, <3>6
  <2>4. CASE ~(g < sndNxt) /\ g < sndNxt + n
    <3>1. ~(g < rcvNxt) /\ g \notin DOMAIN rcvBuf /\ g \in sndNxt..(sndNxt + n - 1)
      BY <1>3, <1>4, <2>1, <2>4
    <3>2. At(g)' = buf[g].frag
      BY <1>1, <3>1 DEF At
    <3>3. Segment(g)' = At(g)'
      BY <1>1, <2>4, <3>1 DEF Segment
    <3>4. Segment(g) = sndQueue[g - sndNxt + 1]
      BY <2>4, <3>1 DEF Segment
    <3> QED
      BY <1>2, <3>1, <3>2, <3>3, <3>4
  <2>5. CASE ~(g < sndNxt + n)
    <3>1. /\ ~(g < rcvNxt) /\ ~(g < sndNxt)
          /\ g - (sndNxt + n) + 1 \in 1..(Len(sndQueue) - n)
          /\ (g - (sndNxt + n) + 1) + n = g - sndNxt + 1
      BY <1>3, <1>4, <2>1, <2>5
    <3>2. Segment(g)' = sndQueue'[g - (sndNxt + n) + 1]
      BY <1>1, <2>5, <3>1 DEF Segment
    <3>3. Segment(g) = sndQueue[g - sndNxt + 1]
      BY <3>1 DEF Segment
    <3>4. sndQueue'[g - (sndNxt + n) + 1] = sndQueue[(g - (sndNxt + n) + 1) + n]
      BY <1>6, <3>1
    <3> QED
      BY <3>1, <3>2, <3>3, <3>4
  <2> QED
    BY <2>2, <2>3, <2>4, <2>5
<1>10. First + 0 = First
  BY <1>3
<1> QED
  BY <1>7, <1>8, <1>9, <1>10 DEF Drops

\* What moves from rcv_buf to rcv_queue keeps its place.
LEMMA MovesSegments ==
    ASSUME Core, NEW queue \in Seq(Fragment), NEW buf, NEW n \in Nat,
           Moves(queue, buf, n), Buffers(buf),
           NEW k \in 0..Len(rcvQueue), Len(queue) = Len(rcvQueue) - k,
           \A i \in 1..Len(queue) : queue[i] = rcvQueue[i + k],
           UNCHANGED sender
    PROVE  Drops(k)
<1> DEFINE l == Len(queue)
           f == First
<1>1. /\ UNCHANGED <<sndQueue, sndBuf, sndNxt>>
      /\ rcvNxt' = rcvNxt + n /\ Len(rcvQueue') = l + n
      /\ \A sn \in rcvNxt..(rcvNxt + n - 1) : sn \in DOMAIN buf
      /\ \A i \in 1..l : rcvQueue'[i] = queue[i]
      /\ \A i \in 1..n : rcvQueue'[l + i] = buf[rcvNxt + i - 1]
      /\ DOMAIN rcvBuf' = {sn \in DOMAIN buf : sn >= rcvNxt + n}
      /\ \A sn \in DOMAIN rcvBuf' : rcvBuf'[sn] = buf[sn]
  BY DEF Moves, sender
<1>2. /\ rcvNxt \in Nat /\ sndNxt \in Nat /\ Len(rcvQueue) \in Nat /\ rcvNxt <= sndNxt
      /\ End \in Nat /\ k \in Nat /\ l = Len(rcvQueue) - k /\ l \in Nat
      /\ f = rcvNxt - Len(rcvQueue) /\ f \in Int
  BY NumbersAreSNs, OutstandingSegments DEF Core, Numbers, LaidOut, First
<1>3. First' = f + k
  <2> DEFINE q == Len(rcvQueue)
             new == Len(rcvQueue')
  <2>1. new = l + n /\ l = q - k /\ q \in Nat /\ f = rcvNxt - q
    BY <1>1, <1>2
  <2> HIDE DEF q, new, l, f
  <2>2. (rcvNxt + n) - new = f + k
    BY <1>2, <2>1
  <2> QED
    BY <1>1, <2>2 DEF First, new
<1>4. End' = End
  BY <1>1 DEF End
\* What is in rcv_buf is a copy of what is at its place.
<1>5. ASSUME NEW g \in rcvNxt..(sndNxt - 1), g \in DOMAIN buf PROVE buf[g] = At(g)
  <2>1. g \in DOMAIN rcvBuf \/ g \in DOMAIN sndBuf
    BY KeptSomewhere
  <2> QED
    BY <1>5, <2>1 DEF At, Buffers
<1> HIDE DEF l, f
<1>6. ASSUME NEW g \in (f + k)..(End - 1) PROVE Segment(g)' = Segment(g)
  <2>1. g \in Int /\ g >= f + k
    BY <1>2
  <2>2. CASE g < rcvNxt
    <3>1. /\ g < rcvNxt + n /\ g - (f + k) + 1 \in 1..l
          /\ (g - (f + k) + 1) + k = g - f + 1
      BY <1>2, <2>1, <2>2
    <3>2. Segment(g)' = rcvQueue'[g - (f + k) + 1]
      BY <1>1, <1>3, <3>1 DEF Segment
    <3>3. Segment(g) = rcvQueue[g - f + 1]
      BY <2>2 DEF Segment, f
    <3>4. queue[g - (f + k) + 1] = rcvQueue[(g - (f + k) + 1) + k]
      BY <3>1 DEF l
    <3> QED
      BY <1>1, <3>1, <3>2, <3>3, <3>4
  <2>3. CASE ~(g < rcvNxt) /\ g < rcvNxt + n
    <3>1. /\ g \in rcvNxt..(rcvNxt + n - 1)
          /\ g - rcvNxt + 1 \in 1..n /\ l + (g - rcvNxt + 1) = g - (f + k) + 1
          /\ rcvNxt + (g - rcvNxt + 1) - 1 = g
      BY <1>2, <2>1, <2>3
    <3>2. g \in DOMAIN buf /\ DOMAIN buf \subseteq rcvNxt..(sndNxt - 1)
      BY <1>1, <3>1 DEF Buffers
    <3>3. g \in rcvNxt..(sndNxt - 1) /\ g < sndNxt
      BY <1>2, <3>2
    <3>4. Segment(g)' = rcvQueue'[g - (f + k) + 1]
      BY <1>1, <1>3, <2>3 DEF Segment
    <3>5. rcvQueue'[l + (g - rcvNxt + 1)] = buf[rcvNxt + (g - rcvNxt + 1) - 1]
      BY <1>1, <3>1
    <3>6. Segment(g) = At(g)
      BY <2>3, <3>3 DEF Segment
    <3> QED
      BY <1>5, <3>1, <3>2, <3>3, <3>4, <3>5, <3>6
  <2>4. CASE ~(g < rcvNxt + n) /\ g < sndNxt
    <3>1. ~(g < rcvNxt) /\ g \in rcvNxt..(sndNxt - 1) /\ g >= rcvNxt + n
      BY <1>2, <2>1, <2>4
    <3>2. Segment(g) = At(g) /\ Segment(g)' = At(g)'
      BY <1>1, <2>4, <3>1 DEF Segment
    <3>3. At(g)' = IF g \in DOMAIN rcvBuf' THEN rcvBuf'[g] ELSE sndBuf[g].frag
      BY <1>1 DEF At
    <3>4. CASE g \in DOMAIN buf
      BY <1>1, <1>5, <3>1, <3>2, <3>3, <3>4
    <3>5. CASE g \notin DOMAIN buf
      <4>1. g \notin DOMAIN rcvBuf /\ g \notin DOMAIN rcvBuf'
        BY <1>1, <3>5 DEF Buffers
      <4> QED
        BY <3>2, <3>3, <4>1 DEF At
    <3> QED
      BY <3>4, <3>5
  <2>5. CASE ~(g < rcvNxt + n) /\ ~(g < sndNxt)
    <3>1. ~(g < rcvNxt)
      BY <1>2, <2>1, <2>5
    <3> QED
      BY <1>1, <2>5, <3>1 DEF Segment
  <2> QED
    BY <2>2, <2>3, <2>4, <2>5
<1> QED
  BY <1>3, <1>4, <1>6 DEF Drops, f

LEMMA PushSegments == ASSUME Core, NEW p \in pushes, InputPush(p) PROVE Drops(0)
<1>1. PICK buf : \E n \in Nat : Buffers(buf) /\ Moves(rcvQueue, buf, n)
  BY PushMoves
<1>2. PICK n \in Nat : Buffers(buf) /\ Moves(rcvQueue, buf, n)
  BY <1>1
<1>3. rcvQueue \in Seq(Fragment) /\ Len(rcvQueue) \in Nat /\ UNCHANGED sender
  BY NumbersAreSNs DEF Core, TypeOK, InputPush
<1>4. 0 \in 0..Len(rcvQueue) /\ Len(rcvQueue) = Len(rcvQueue) - 0
      /\ \A i \in 1..Len(rcvQueue) : i + 0 = i
  BY <1>3
<1>5. \A i \in 1..Len(rcvQueue) : rcvQueue[i] = rcvQueue[i + 0]
  BY <1>4
<1> QED
  BY <1>2, <1>3, <1>4, <1>5, MovesSegments

LEMMA ReplySegments == ASSUME Core, NEW reply \in replies, InputReply(reply) PROVE Drops(0)
<1>1. /\ UNCHANGED <<sndQueue, sndNxt, rcvQueue, rcvBuf, rcvNxt>>
      /\ Core'
  BY ReplyKeepsCore DEF InputReply, receiver
<1>2. \A sn \in DOMAIN sndBuf' : sndBuf'[sn].frag = sndBuf[sn].frag
  BY ReplyLeaves
<1>3. /\ sndNxt \in Nat /\ rcvNxt \in Nat /\ First \in Int /\ End \in Nat
  BY NumbersAreSNs, OutstandingSegments DEF Core, LaidOut
<1>4. First' = First /\ End' = End /\ First + 0 = First
  BY <1>1, <1>3 DEF First, End
<1>5. ASSUME NEW g \in First..(End - 1) PROVE Segment(g)' = Segment(g)
  <2>1. CASE g < rcvNxt \/ ~(g < sndNxt)
    BY <1>1, <1>4, <2>1 DEF Segment
  <2>2. CASE ~(g < rcvNxt) /\ g < sndNxt
    <3>1. g \in 0..(sndNxt - 1)
      BY <1>3, <2>2
    <3>2. g \in DOMAIN sndBuf' \/ g \in DOMAIN rcvBuf
      BY <1>1, <2>2, <3>1 DEF Core, AckedIsKept
    <3>3. At(g)' = At(g)
      BY <1>1, <1>2, <3>2 DEF At
    <3> QED
      BY <1>1, <2>2, <3>3 DEF Segment
  <2> QED
    BY <2>1, <2>2
<1> QED
  BY <1>4, <1>5 DEF Drops

LEMMA IdleSegments ==
    ASSUME Core, UNCHANGED <<sndQueue, sndNxt, sndBuf, rcvQueue, rcvBuf, rcvNxt>>
    PROVE  Drops(0)
<1>1. First \in Int
  BY OutstandingSegments DEF LaidOut
<1>2. First + 0 = First
  BY <1>1
<1> QED
  BY <1>2 DEF Drops, First, End, Segment, At

------------------------------------------------------------------------------
(* Messages.                                                               *)

\* A message is a run of fragments numbered down to 0.
LEMMA ChainRuns ==
    ASSUME NEW s \in Seq(Fragment), Chained(s), s # <<>>
    PROVE  \A i \in 0..s[1].frg : i + 1 \in 1..Len(s) /\ s[i + 1].frg = s[1].frg - i
<1> DEFINE f == s[1].frg
           T == {i \in Nat : i <= f => i + 1 \in 1..Len(s) /\ s[i + 1].frg = f - i}
<1>1. Len(s) \in Nat \ {0} /\ DOMAIN s = 1..Len(s) /\ 1 \in 1..Len(s)
  BY ElementsOf, EmptySeq
<1>2. f \in Nat
  BY <1>1, SeqOfFragments
<1> HIDE DEF f
<1>3. 0 \in T
  <2>1. 0 + 1 = 1 /\ f - 0 = f
    BY <1>2
  <2> QED
    BY <1>1, <2>1 DEF f
<1>4. ASSUME NEW i \in T PROVE i + 1 \in T
  <2> SUFFICES ASSUME i + 1 <= f
               PROVE  (i + 1) + 1 \in 1..Len(s) /\ s[(i + 1) + 1].frg = f - (i + 1)
    OBVIOUS
  <2>1. i \in Nat /\ i <= f /\ i + 1 \in 1..Len(s) /\ s[i + 1].frg = f - i
    BY <1>2
  <2>2. f - i # 0 /\ (f - i) - 1 = f - (i + 1)
    BY <1>2, <2>1
  <2>3. (i + 1) + 1 \in DOMAIN s /\ s[(i + 1) + 1].frg = s[i + 1].frg - 1
    BY <1>1, <2>1, <2>2 DEF Chained
  <2> QED
    BY <1>1, <2>1, <2>2, <2>3
<1>5. T = Nat
  <2>1. T \in SUBSET Nat
    OBVIOUS
  <2> HIDE DEF T
  <2> QED
    BY <1>3, <1>4, <2>1, SetInduction
<1> HIDE DEF T
<1>6. \A i \in 0..f : i \in T /\ i <= f
  BY <1>2, <1>5
<1> QED
  BY <1>6 DEF f, T

LEMMA ChainedRest ==
    ASSUME NEW s \in Seq(Fragment), Chained(s), NEW k \in Nat
    PROVE  Chained(SubSeq(s, k + 1, Len(s)))
<1> DEFINE u == SubSeq(s, k + 1, Len(s))
<1>1. /\ u \in Seq(Fragment)
      /\ Len(u) = IF k <= Len(s) THEN Len(s) - k ELSE 0
      /\ \A i \in 1..Len(u) : i + k \in 1..Len(s) /\ u[i] = s[i + k]
  BY RestKeeps
<1>2. DOMAIN s = 1..Len(s) /\ Len(s) \in Nat
  BY ElementsOf
<1> HIDE DEF u
<1>3. DOMAIN u = 1..Len(u) /\ Len(u) \in Nat
  BY <1>1, ElementsOf
<1>4. ASSUME NEW i \in DOMAIN u, u[i].frg # 0
      PROVE  i + 1 \in DOMAIN u /\ u[i + 1].frg = u[i].frg - 1
  <2>1. i \in 1..Len(u) /\ i + k \in 1..Len(s) /\ u[i] = s[i + k]
    BY <1>1, <1>3
  <2>2. (i + k) + 1 \in DOMAIN s /\ s[(i + k) + 1].frg = s[i + k].frg - 1
    BY <1>2, <1>4, <2>1 DEF Chained
  <2>3. i + 1 \in 1..Len(u) /\ (i + 1) + k = (i + k) + 1
    <3> DEFINE a == Len(s)
               b == Len(u)
    <3>1. a \in Nat /\ b = IF k <= a THEN a - k ELSE 0
      BY <1>1, <1>2
    <3>2. i \in 1..b /\ (i + k) + 1 \in 1..a
      BY <1>2, <2>1, <2>2
    <3> HIDE DEF a, b
    <3>3. i + 1 \in 1..b /\ (i + 1) + k = (i + k) + 1
      BY <3>1, <3>2
    <3> QED
      BY <3>3 DEF b
  <2> QED
    BY <1>1, <1>3, <2>1, <2>2, <2>3
<1>5. Chained(u)
  BY <1>4 DEF Chained
<1> QED
  BY <1>5 DEF u

\* rcv_queue is where the outstanding segments begin.
LEMMA QueueIsPrefix ==
    ASSUME Core
    PROVE  /\ Len(rcvQueue) <= Len(Outstanding)
           /\ \A i \in 1..Len(rcvQueue) : Outstanding[i] = rcvQueue[i]
<1> DEFINE q == Len(rcvQueue)
           f == First
<1>1. /\ q \in Nat /\ rcvNxt \in Nat /\ f = rcvNxt - q /\ rcvNxt <= sndNxt /\ sndNxt \in Nat
      /\ f \in Int /\ End \in Nat /\ sndNxt <= End
      /\ Len(Outstanding) = End - f
      /\ \A g \in f..(End - 1) : Outstanding[g - f + 1] = Segment(g)
  BY NumbersAreSNs, OutstandingSegments DEF Core, LaidOut, First, Numbers
<1>2. \A g \in Int : g < rcvNxt => Segment(g) = rcvQueue[g - f + 1]
  BY DEF Segment
<1> HIDE DEF q, f
<1>3. q <= Len(Outstanding)
  BY <1>1
<1>4. ASSUME NEW i \in 1..q PROVE Outstanding[i] = rcvQueue[i]
  <2> DEFINE g == f + i - 1
  <2>1. g \in f..(End - 1) /\ g < rcvNxt /\ g - f + 1 = i /\ g \in Int
    BY <1>1
  <2> HIDE DEF g
  <2> QED
    BY <1>1, <1>2, <2>1
<1> QED
  BY <1>3, <1>4 DEF q

\* ikcp_recv finds a whole message: the fragments up to the first one numbered 0.
LEMMA MessageIs ==
    ASSUME Core, Chained(Outstanding), Receivable
    PROVE  /\ MessageLen \in 1..Len(rcvQueue)
           /\ \A i \in 1..MessageLen : rcvQueue[i].frg = MessageLen - i
<1> DEFINE f == rcvQueue[1].frg
           q == Len(rcvQueue)
           R(n) == rcvQueue[n].frg = 0 /\ \A i \in 1..(n - 1) : rcvQueue[i].frg # 0
<1>1. rcvQueue \in Seq(Fragment) /\ rcvQueue # <<>> /\ q \in Nat \ {0} /\ 1 \in 1..q
  BY EmptySeq, ElementsOf DEF Core, TypeOK, Receivable
<1>2. Head(rcvQueue) = rcvQueue[1]
  BY <1>1, TailKeeps
<1>3. f \in Nat /\ q > f
  BY <1>1, <1>2, SeqOfFragments DEF Receivable
<1>4. /\ Outstanding \in Seq(Fragment) /\ q <= Len(Outstanding)
      /\ \A i \in 1..q : Outstanding[i] = rcvQueue[i]
  BY OutstandingSegments, QueueIsPrefix DEF LaidOut
<1>5. Outstanding # <<>> /\ Outstanding[1].frg = f
  BY <1>1, <1>4, EmptySeq
<1>6. \A i \in 0..f : Outstanding[i + 1].frg = f - i
  BY <1>4, <1>5, ChainRuns
<1> HIDE DEF f, q
<1>7. \A j \in 1..(f + 1) : j \in 1..q /\ rcvQueue[j].frg = (f + 1) - j
  <2> SUFFICES ASSUME NEW j \in 1..(f + 1)
               PROVE  j \in 1..q /\ rcvQueue[j].frg = (f + 1) - j
    OBVIOUS
  <2>1. j - 1 \in 0..f /\ (j - 1) + 1 = j /\ f - (j - 1) = (f + 1) - j /\ j \in 1..q
    BY <1>1, <1>3
  <2> QED
    BY <1>4, <1>6, <2>1
<1>8. f + 1 \in 1..q /\ R(f + 1)
  <2>1. f + 1 \in 1..(f + 1) /\ (f + 1) - (f + 1) = 0
    BY <1>3
  <2>2. \A i \in 1..((f + 1) - 1) : i \in 1..(f + 1) /\ (f + 1) - i # 0
    BY <1>3
  <2> QED
    BY <1>7, <2>1, <2>2
<1>9. MessageLen \in 1..q /\ R(MessageLen)
  <2>1. MessageLen = CHOOSE n \in 1..q : R(n)
    BY DEF MessageLen, q
  <2> HIDE DEF R
  <2>2. (CHOOSE n \in 1..q : R(n)) \in 1..q /\ R(CHOOSE n \in 1..q : R(n))
    BY <1>8
  <2> QED
    BY <2>1, <2>2
<1>10. MessageLen = f + 1
  <2> DEFINE n == MessageLen
  <2>1. n \in Nat /\ f + 1 \in Nat
    BY <1>1, <1>3, <1>9
  <2>2. ~(f + 1 < n)
    <3>1. f + 1 < n => f + 1 \in 1..(n - 1)
      BY <1>3, <2>1
    <3> QED
      BY <1>8, <1>9, <3>1
  <2>3. ~(n < f + 1)
    <3>1. n < f + 1 => n \in 1..((f + 1) - 1)
      BY <1>1, <1>9, <2>1
    <3> QED
      BY <1>8, <1>9, <3>1
  <2> HIDE DEF n
  <2> QED
    BY <2>1, <2>2, <2>3 DEF n
<1> QED
  BY <1>7, <1>9, <1>10 DEF q

\* What ikcp_recv does.
LEMMA RecvMoves ==
    ASSUME Core, Chained(Outstanding), Recv
    PROVE  LET queue == SubSeq(rcvQueue, MessageLen + 1, Len(rcvQueue)) IN
           /\ MessageLen \in 1..Len(rcvQueue)
           /\ queue \in Seq(Fragment) /\ Len(queue) = Len(rcvQueue) - MessageLen
           /\ \A i \in 1..Len(queue) : queue[i] = rcvQueue[i + MessageLen]
           /\ \E n \in Nat : Moves(queue, rcvBuf, n)
           /\ UNCHANGED <<sender, ackList, network>> /\ tell' \in BOOLEAN
<1> DEFINE k == MessageLen
           q == Len(rcvQueue)
           queue == SubSeq(rcvQueue, k + 1, q)
<1>1. Receivable /\ MoveAvailable(queue, rcvBuf) /\ UNCHANGED <<sender, ackList, network>>
      /\ tell' \in BOOLEAN
  BY DEF Recv, Core, TypeOK
<1>2. k \in 1..q
  BY <1>1, MessageIs
<1>3. rcvQueue \in Seq(Fragment) /\ q \in Nat /\ q <= RcvWnd /\ RcvWnd \in Nat /\ rcvNxt \in Nat
  BY NumbersAreSNs DEF Core, TypeOK, Windows
<1> HIDE DEF k
<1>4. k \in Nat /\ k <= q
  BY <1>2, <1>3
<1>5. /\ queue \in Seq(Fragment) /\ Len(queue) = IF k <= q THEN q - k ELSE 0
      /\ \A i \in 1..Len(queue) : queue[i] = rcvQueue[i + k]
  BY <1>3, <1>4, RestKeeps
<1> HIDE DEF queue, q
<1>6. Len(queue) = q - k /\ Len(queue) <= RcvWnd
  BY <1>2, <1>3, <1>4, <1>5
<1>7. Buffers(rcvBuf)
  BY RcvBufIsBuffer
<1>8. DOMAIN rcvBuf \subseteq {sn \in Nat : sn >= rcvNxt}
  BY <1>3, <1>7 DEF Buffers
<1>9. \E n \in Nat : Moves(queue, rcvBuf, n)
  BY <1>1, <1>3, <1>5, <1>6, <1>7, <1>8, MoveAvailableDoes DEF Buffers
<1> QED
  BY <1>1, <1>2, <1>5, <1>6, <1>9 DEF queue, q, k

LEMMA RecvKeepsCore ==
    ASSUME Core, Chained(Outstanding), Recv
    PROVE  Core' /\ Drops(MessageLen) /\ MessageLen \in 1..Len(rcvQueue)
<1> DEFINE queue == SubSeq(rcvQueue, MessageLen + 1, Len(rcvQueue))
<1>1. /\ MessageLen \in 1..Len(rcvQueue)
      /\ queue \in Seq(Fragment) /\ Len(queue) = Len(rcvQueue) - MessageLen
      /\ \A i \in 1..Len(queue) : queue[i] = rcvQueue[i + MessageLen]
      /\ \E n \in Nat : Moves(queue, rcvBuf, n)
      /\ UNCHANGED <<sender, ackList, network>> /\ tell' \in BOOLEAN
  BY RecvMoves
<1> HIDE DEF queue
<1>2. PICK n \in Nat : Moves(queue, rcvBuf, n)
  BY <1>1
<1>3. Buffers(rcvBuf)
  BY RcvBufIsBuffer
<1>4. /\ pushes' = pushes /\ replies' = replies /\ asks' = asks /\ ackList' = ackList
      /\ asks \in BOOLEAN /\ ackList \subseteq SNs /\ UNCHANGED sender
  BY <1>1 DEF network, Core, TypeOK
<1>5. \A sn \in ackList' : sn \in SNs /\ (Has(sn) \/ sn \in DOMAIN rcvBuf)
  BY <1>4 DEF Core, Acknowledged
<1>6. Core'
  BY <1>1, <1>2, <1>3, <1>4, <1>5, MovesKeepCore DEF Buffers
<1>7. MessageLen \in 0..Len(rcvQueue)
  BY <1>1, NumbersAreSNs DEF Core
<1>8. Drops(MessageLen)
  BY <1>1, <1>2, <1>3, <1>4, <1>7, MovesSegments
<1> QED
  BY <1>1, <1>6, <1>8

\* A new message joins: the numbers of the fragments before it are as they were.
LEMMA ChainedGrows ==
    ASSUME NEW s \in Seq(Fragment), NEW e \in Seq(Fragment), NEW t \in Seq(Fragment),
           Len(e) = Len(s), \A i \in 1..Len(s) : e[i].frg = s[i].frg,
           Chained(s), Chained(t)
    PROVE  Chained(e \o t)
<1> DEFINE n == Len(s)
           m == Len(t)
           u == e \o t
<1>1. n \in Nat /\ m \in Nat /\ DOMAIN s = 1..n /\ DOMAIN t = 1..m
  BY ElementsOf
<1>2. /\ u \in Seq(Fragment) /\ Len(u) = n + m
      /\ \A i \in 1..(n + m) : u[i] = IF i <= n THEN e[i] ELSE t[i - n]
  <2>1. u = e \o t /\ n = Len(e) /\ m = Len(t)
    OBVIOUS
  <2> HIDE DEF u, n, m
  <2>2. /\ u \in Seq(Fragment) /\ Len(u) = Len(e) + Len(t)
        /\ \A i \in 1..(Len(e) + Len(t)) :
              u[i] = IF i <= Len(e) THEN e[i] ELSE t[i - Len(e)]
    <3>1. e \in Seq(Fragment) /\ t \in Seq(Fragment)
      OBVIOUS
    <3>2. e \o t \in Seq(Fragment) /\ Len(e \o t) = Len(e) + Len(t)
      BY <3>1, ConcatProperties
    <3>3. \A i \in 1..(Len(e) + Len(t)) :
              (e \o t)[i] = IF i <= Len(e) THEN e[i] ELSE t[i - Len(e)]
      BY <3>1, ConcatProperties
    <3> QED
      BY <2>1, <3>2, <3>3
  <2> QED
    BY <2>1, <2>2
<1>3. DOMAIN u = 1..(n + m)
  <2> HIDE DEF u
  <2> QED
    BY <1>2, ElementsOf
<1>5. \A i \in 1..n : e[i].frg = s[i].frg
  OBVIOUS
<1> HIDE DEF u, n, m
<1>4. ASSUME NEW i \in DOMAIN u, u[i].frg # 0
      PROVE  i + 1 \in DOMAIN u /\ u[i + 1].frg = u[i].frg - 1
  <2>0. i \in 1..(n + m)
    BY <1>3
  <2>1. CASE i <= n
    <3>1. i \in DOMAIN s /\ u[i].frg = s[i].frg
      BY <1>1, <1>2, <1>5, <2>0, <2>1
    <3>2. i + 1 \in 1..n /\ s[i + 1].frg = s[i].frg - 1
      BY <1>1, <1>4, <3>1 DEF Chained
    <3>3. i + 1 \in 1..(n + m) /\ i + 1 <= n
      BY <1>1, <3>2
    <3> QED
      BY <1>2, <1>3, <1>5, <3>1, <3>2, <3>3
  <2>2. CASE ~(i <= n)
    <3>1. i - n \in 1..m /\ (i - n) + 1 = (i + 1) - n
      BY <1>1, <2>0, <2>2
    <3>2. u[i] = t[i - n]
      BY <1>2, <2>0, <2>2
    <3>3. (i - n) + 1 \in 1..m /\ t[(i - n) + 1].frg = t[i - n].frg - 1
      BY <1>1, <1>4, <3>1, <3>2 DEF Chained
    <3>4. i + 1 \in 1..(n + m) /\ ~(i + 1 <= n)
      BY <1>1, <2>0, <2>2, <3>1, <3>3
    <3> QED
      BY <1>2, <1>3, <3>1, <3>2, <3>3, <3>4
  <2> QED
    BY <2>1, <2>2
<1>6. Chained(u)
  BY <1>4 DEF Chained
<1> QED
  BY <1>6 DEF u

\* The fragments of the data are numbered down to 0, or all 0 in stream mode.
LEMMA FragmentsChained ==
    ASSUME NEW first \in Nat, NEW len \in Nat, first + len <= MaxUnits, Sendable(len)
    PROVE  Chained(Fragments(first, len))
<1> DEFINE c == FragmentCount(len)
           t == Fragments(first, len)
<1>1. /\ t \in Seq(Fragment) /\ Len(t) = c /\ c \in Nat
      /\ \A k \in 1..c : t[k].frg = IF Stream THEN 0 ELSE c - k
  <2>1. \A k \in 1..c : t[k] = [data |-> Piece(first, len, k),
                                frg |-> IF Stream THEN 0 ELSE c - k]
    BY FragmentsTyped
  <2>2. t \in Seq(Fragment) /\ Len(t) = c /\ c \in Nat
    BY FragmentsTyped, Counted
  <2> HIDE DEF c, t
  <2> QED
    BY <2>1, <2>2
<1>2. DOMAIN t = 1..c
  BY <1>1, ElementsOf
<1> HIDE DEF c, t
<1>3. ASSUME NEW i \in DOMAIN t, t[i].frg # 0
      PROVE  i + 1 \in DOMAIN t /\ t[i + 1].frg = t[i].frg - 1
  <2>1. i \in 1..c /\ ~Stream /\ t[i].frg = c - i
    BY <1>1, <1>2, <1>3
  <2>2. i + 1 \in 1..c /\ c - (i + 1) = (c - i) - 1
    BY <1>1, <1>3, <2>1
  <2> QED
    BY <1>1, <1>2, <2>1, <2>2
<1>4. Chained(t)
  BY <1>3 DEF Chained
<1> QED
  BY <1>4 DEF t

\* New data joins at the end.
LEMMA SendJoins ==
    ASSUME Core, Send
    PROVE  Early' = Early
  BY DEF Send, receiver, Early, Middle

LEMMA JoinedChained ==
    ASSUME NEW a \in Seq(Fragment), NEW b \in Seq(Fragment), NEW e \in Seq(Fragment),
           NEW t \in Seq(Fragment), Len(e) = Len(b),
           \A i \in 1..Len(b) : e[i].frg = b[i].frg, Chained(a \o b), Chained(t)
    PROVE  Chained(a \o (e \o t))
<1> DEFINE old == a \o b
           new == a \o e
           n == Len(a)
           m == Len(b)
<1>1. /\ old \in Seq(Fragment) /\ new \in Seq(Fragment)
      /\ Len(old) = n + m /\ Len(new) = n + m /\ n \in Nat /\ m \in Nat
      /\ \A i \in 1..(n + m) : old[i] = IF i <= n THEN a[i] ELSE b[i - n]
      /\ \A i \in 1..(n + m) : new[i] = IF i <= n THEN a[i] ELSE e[i - n]
  <2>1. /\ old = a \o b /\ new = a \o e /\ n = Len(a) /\ m = Len(b) /\ m = Len(e)
    OBVIOUS
  <2> HIDE DEF old, new, n, m
  <2>2. /\ old \in Seq(Fragment) /\ Len(old) = Len(a) + Len(b)
        /\ \A i \in 1..(Len(a) + Len(b)) :
              old[i] = IF i <= Len(a) THEN a[i] ELSE b[i - Len(a)]
    BY <2>1, ConcatProperties
  <2>3. /\ new \in Seq(Fragment) /\ Len(new) = Len(a) + Len(e)
        /\ \A i \in 1..(Len(a) + Len(e)) :
              new[i] = IF i <= Len(a) THEN a[i] ELSE e[i - Len(a)]
    BY <2>1, ConcatProperties
  <2>4. n \in Nat /\ m \in Nat
    BY <2>1, ElementsOf
  <2> QED
    BY <2>1, <2>2, <2>3, <2>4
<1> HIDE DEF old, new, n
<1>2. \A i \in 1..(n + m) : new[i].frg = old[i].frg
  <2> SUFFICES ASSUME NEW i \in 1..(n + m) PROVE new[i].frg = old[i].frg
    OBVIOUS
  <2>1. CASE i <= n
    BY <1>1, <2>1
  <2>2. CASE ~(i <= n)
    <3>1. i - n \in 1..m
      BY <1>1, <2>2
    <3> QED
      BY <1>1, <2>2, <3>1
  <2> QED
    BY <2>1, <2>2
<1>3. Chained(new \o t)
  BY <1>1, <1>2, ChainedGrows DEF old
<1>4. new \o t = a \o (e \o t)
  BY ConcatAssociative DEF new
<1> QED
  BY <1>3, <1>4

LEMMA SendKeepsChained == ASSUME Core, Chained(Outstanding), Send PROVE Chained(Outstanding')
<1> PICK taken \in Nat, rest \in Nat :
        /\ accepted + taken + rest <= MaxUnits
        /\ Sendable(rest)
        /\ sndQueue' = Extended(taken) \o Fragments(accepted + taken, rest)
        /\ Extended(taken) \in Seq(Fragment)
        /\ Len(Extended(taken)) = Len(sndQueue)
        /\ \A i \in 1..Len(sndQueue) : Extended(taken)[i].frg = sndQueue[i].frg
  BY SendTakes
<1> DEFINE e == Extended(taken)
           t == Fragments(accepted + taken, rest)
           b == sndQueue
<1>1. accepted + taken \in Nat /\ (accepted + taken) + rest <= MaxUnits
  BY NumbersAreSNs DEF Core
<1>2. t \in Seq(Fragment) /\ Chained(t)
  BY <1>1, FragmentsTyped, FragmentsChained
<1>3. /\ Early \in Seq(Fragment) /\ Outstanding = Early \o b /\ b \in Seq(Fragment)
      /\ e \in Seq(Fragment) /\ Len(e) = Len(b)
      /\ \A i \in 1..Len(b) : e[i].frg = b[i].frg
  BY EarlyIs DEF Core, TypeOK
<1>4. Outstanding' = Early \o (e \o t)
  <2>1. Core'
    BY SendKeepsCore
  <2>2. Core' => Joins'
    BY Joined, PTL
  <2> QED
    BY <2>1, <2>2, SendJoins DEF Joins
<1> HIDE DEF e, t, b
<1> QED
  BY <1>2, <1>3, <1>4, JoinedChained

------------------------------------------------------------------------------
(* The theorems.                                                           *)


LEMMA InvIsCore == IInv <=> Core /\ Chained(Outstanding)
  BY DEF IInv, Core

LEMMA NextKeepsInv == IInv /\ [Next]_vars => IInv'
<1> SUFFICES ASSUME Core, Chained(Outstanding), [Next]_vars
             PROVE  Core' /\ Chained(Outstanding')
  <2>1. Chained(Outstanding)' <=> Chained(Outstanding')
    BY DEF Chained
  <2>2. IInv' <=> Core' /\ Chained(Outstanding)'
    BY DEF IInv, Core
  <2> QED
    BY <2>1, <2>2, InvIsCore
<1>1. CASE Send
  BY <1>1, SendKeepsCore, SendKeepsChained
<1>2. ASSUME NEW overdue \in SUBSET DOMAIN sndBuf, NEW elapsed \in {FALSE, Asks(TRUE)},
             NEW kept \in SUBSET Sent(overdue), FlushSender(overdue, elapsed, kept)
      PROVE  Core' /\ Chained(Outstanding')
  <2>1. elapsed \in BOOLEAN
    BY DEF Asks, Core, TypeOK
  <2>2. Core' /\ Drops(0)
    BY <1>2, <2>1, FlushKeepsCore, FlushSegments
  <2> QED
    BY <2>2, SameOutstanding
<1>3. ASSUME NEW p \in pushes, InputPush(p) PROVE Core' /\ Chained(Outstanding')
  <2>1. Core' /\ Drops(0)
    BY <1>3, PushKeepsCore, PushSegments
  <2> QED
    BY <2>1, SameOutstanding
<1>4. CASE InputAsk
  <2>1. Core' /\ UNCHANGED <<sndQueue, sndNxt, sndBuf, rcvQueue, rcvBuf, rcvNxt>>
    BY <1>4, AskKeepsCore DEF InputAsk, sender
  <2> QED
    BY <2>1, IdleSegments, SameOutstanding
<1>5. CASE FlushReceiver
  <2>1. Core' /\ UNCHANGED <<sndQueue, sndNxt, sndBuf, rcvQueue, rcvBuf, rcvNxt>>
    BY <1>5, ReportKeepsCore DEF FlushReceiver, sender
  <2> QED
    BY <2>1, IdleSegments, SameOutstanding
<1>6. CASE Recv
  <2> DEFINE k == MessageLen
             s == Outstanding
  <2>1. Core' /\ Drops(k) /\ k \in 1..Len(rcvQueue)
    BY <1>6, RecvKeepsCore
  <2>2. k \in Nat /\ First + k <= End
    <3>1. /\ First = rcvNxt - Len(rcvQueue) /\ rcvNxt <= sndNxt /\ sndNxt <= End
          /\ rcvNxt \in Nat /\ sndNxt \in Nat /\ End \in Nat /\ Len(rcvQueue) \in Nat
      BY NumbersAreSNs, OutstandingSegments DEF Core, Numbers, LaidOut, First
    <3> HIDE DEF k
    <3> QED
      BY <2>1, <3>1
  <2>3. Outstanding' = SubSeq(s, k + 1, Len(s))
    BY <2>1, <2>2, DroppedOutstanding
  <2>4. s \in Seq(Fragment) /\ Chained(s)
    BY OutstandingSegments DEF LaidOut
  <2> HIDE DEF k, s
  <2>5. Chained(SubSeq(s, k + 1, Len(s)))
    BY <2>2, <2>4, ChainedRest
  <2> QED
    BY <2>1, <2>3, <2>5
<1>7. ASSUME NEW reply \in replies, InputReply(reply) PROVE Core' /\ Chained(Outstanding')
  <2>1. Core' /\ Drops(0)
    BY <1>7, ReplyKeepsCore, ReplySegments
  <2> QED
    BY <2>1, SameOutstanding
<1>8. CASE UNCHANGED vars
  <2>1. UNCHANGED <<accepted, sndQueue, sndBuf, sndUna, sndNxt, rmtWnd, cwnd, incr, ssthresh,
                    probing, rcvQueue, rcvBuf, rcvNxt, ackList, tell, pushes, asks, replies>>
    BY <1>8 DEF vars, sender, congestion, receiver, network
  <2>2. Core'
    BY <2>1 DEF Core, TypeOK, Numbers, Windows, InWindow, AckedIsKept, Acknowledged, Has, Copies
  <2> QED
    BY <2>1, <2>2, IdleSegments, SameOutstanding
<1> QED
  BY <1>1, <1>2, <1>3, <1>4, <1>5, <1>6, <1>7, <1>8 DEF Next

LEMMA InvInitially == Init => IInv
<1> SUFFICES ASSUME Init PROVE Core /\ Chained(Outstanding)
  BY InvIsCore
<1>1. Core
  BY CoreInitially
<1>2. LaidOut
  BY <1>1, OutstandingSegments
<1>3. Len(Outstanding) = 0 /\ Outstanding \in Seq(Fragment)
  <2>1. rcvNxt = 0 /\ sndNxt = 0 /\ Len(rcvQueue) = 0 /\ Len(sndQueue) = 0
    BY EmptySeq DEF Init
  <2> QED
    BY <1>2, <2>1 DEF LaidOut, First, End
<1>4. DOMAIN Outstanding = {}
  BY <1>3, ElementsOf
<1> QED
  BY <1>1, <1>4 DEF Chained

\* The numbers, the windows, what is acknowledged, all copies of a segment and
\* the order of the fragments stay consistent, whatever the network does.
THEOREM Invariance == Spec => []IInv
  BY InvInitially, NextKeepsInv, PTL DEF Spec

\* Every field of both control blocks and every segment in flight keeps its type;
\* no fragment is longer than a segment or numbered above the window.
THEOREM TypeCorrect == Spec => []TypeOK
<1>1. IInv => TypeOK
  BY DEF IInv
<1> QED
  BY <1>1, Invariance, PTL

\* The sender forgets a segment (parse_una, parse_ack) only when the receiver
\* keeps it.
THEOREM Kept == Spec => []AckedIsKept
<1>1. IInv => AckedIsKept
  BY DEF IInv
<1> QED
  BY <1>1, Invariance, PTL

\* Never more than snd_wnd segments are unacknowledged, nor more than rcv_wnd
\* waiting for the reader, whatever window the other end reports.
THEOREM WindowsHold == Spec => []Windows
<1>1. IInv => Windows
  BY DEF IInv
<1> QED
  BY <1>1, Invariance, PTL

\* When rcv_queue is full, ikcp_recv finds a whole message in it.
THEOREM Readable == Spec => []FullIsReadable
<1>1. IInv => FullIsReadable
  <2> SUFFICES ASSUME TypeOK, Len(rcvQueue) = RcvWnd PROVE Receivable
    BY DEF IInv, FullIsReadable
  <2>1. rcvQueue \in Seq(Fragment) /\ RcvWnd \in Nat /\ WndRcv \in Nat \ {0} /\ RcvWnd >= WndRcv
    BY KcpAssumption DEF TypeOK
  <2>2. rcvQueue # <<>> /\ 1 \in 1..Len(rcvQueue)
    BY <2>1, EmptySeq
  <2>3. Head(rcvQueue) = rcvQueue[1] /\ rcvQueue[1].frg \in 0..(WndRcv - 2)
    BY <2>1, <2>2, TailKeeps, SeqOfFragments
  <2>4. rcvQueue[1].frg < RcvWnd
    BY <2>1, <2>3
  <2> QED
    BY <2>2, <2>3, <2>4 DEF Receivable
<1> QED
  BY <1>1, Invariance, PTL

------------------------------------------------------------------------------
(* Data, in order.                                                         *)

\* The units of some segments, and n units from a on.
Datas(s) == [i \in 1..Len(s) |-> s[i].data]
Data(s)  == FlattenSeq(Datas(s))
Run(a, n) == [i \in 1..n |-> a + i - 1]

LEMMA DatasTyped ==
    ASSUME NEW s \in Seq(Fragment)
    PROVE  /\ Datas(s) \in Seq(Seq(Units)) /\ Len(Datas(s)) = Len(s)
           /\ \A i \in 1..Len(s) : Datas(s)[i] = s[i].data
<1>1. Len(s) \in Nat
  BY ElementsOf
<1>2. \A i \in 1..Len(s) : s[i].data \in Seq(Units)
  BY SeqOfFragments
<1>3. Datas(s) \in [1..Len(s) -> Seq(Units)]
  BY <1>2 DEF Datas
<1>4. \A i \in 1..Len(s) : Datas(s)[i] = s[i].data
  BY DEF Datas
<1> QED
  BY <1>1, <1>3, <1>4, FunctionIsSeq

LEMMA DataJoins ==
    ASSUME NEW s \in Seq(Fragment), NEW t \in Seq(Fragment)
    PROVE  /\ Data(s) \in Seq(Units)
           /\ Data(s \o t) = Data(s) \o Data(t)
<1> DEFINE a == Datas(s)
           b == Datas(t)
           u == s \o t
           n == Len(s)
           m == Len(t)
<1>1. /\ a \in Seq(Seq(Units)) /\ Len(a) = n /\ \A i \in 1..n : a[i] = s[i].data
      /\ b \in Seq(Seq(Units)) /\ Len(b) = m /\ \A i \in 1..m : b[i] = t[i].data
      /\ n \in Nat /\ m \in Nat
  BY DatasTyped, ElementsOf
<1>2. /\ u \in Seq(Fragment) /\ Len(u) = n + m
      /\ \A i \in 1..(n + m) : u[i] = IF i <= n THEN s[i] ELSE t[i - n]
  BY ConcatProperties
<1>3. /\ Datas(u) \in Seq(Seq(Units)) /\ Len(Datas(u)) = Len(u)
      /\ \A i \in 1..Len(u) : Datas(u)[i] = u[i].data
  BY <1>2, DatasTyped
<1> HIDE DEF a, b, n, m, u
<1>4. /\ a \o b \in Seq(Seq(Units)) /\ Len(a \o b) = n + m
      /\ \A i \in 1..(n + m) : (a \o b)[i] = IF i <= n THEN a[i] ELSE b[i - n]
  <2>1. /\ a \o b \in Seq(Seq(Units)) /\ Len(a \o b) = Len(a) + Len(b)
        /\ \A i \in 1..(Len(a) + Len(b)) :
              (a \o b)[i] = IF i <= Len(a) THEN a[i] ELSE b[i - Len(a)]
    BY <1>1, ConcatProperties
  <2> QED
    BY <1>1, <2>1
<1>5. ASSUME NEW i \in 1..(n + m) PROVE Datas(u)[i] = (a \o b)[i]
  <2>1. CASE i <= n
    <3>1. i \in 1..n /\ a[i] = s[i].data /\ u[i] = s[i] /\ i \in 1..Len(u)
      BY <1>1, <1>2, <2>1
    <3> QED
      BY <1>3, <1>4, <2>1, <3>1
  <2>2. CASE ~(i <= n)
    <3>1. i - n \in 1..m
      BY <1>1, <2>2
    <3> QED
      BY <1>1, <1>2, <1>3, <1>4, <2>2, <3>1
  <2> QED
    BY <2>1, <2>2
<1>6. Datas(u) = a \o b
  <2> DEFINE d == Datas(u)
             e == a \o b
  <2>1. /\ d \in Seq(Seq(Units)) /\ e \in Seq(Seq(Units)) /\ Len(d) = Len(e)
        /\ \A i \in 1..Len(d) : d[i] = e[i]
    BY <1>2, <1>3, <1>4, <1>5
  <2> HIDE DEF d, e
  <2>2. d = e
    BY <2>1, SeqEqual
  <2> QED
    BY <2>2 DEF d, e
<1>7. FlattenSeq(a) \in Seq(Units)
  BY <1>1, FlattenAppend, EmptySeq
<1>8. FlattenSeq(a \o b) = FlattenSeq(a) \o FlattenSeq(b)
  BY <1>1, FlattenConcat
<1> QED
  BY <1>6, <1>7, <1>8 DEF Data, a, b, u

LEMMA DataOfOne ==
    ASSUME NEW x \in Fragment
    PROVE  Data(<<x>>) = x.data /\ <<x>> \in Seq(Fragment)
<1>1. <<x>> \in Seq(Fragment) /\ Len(<<x>>) = 1 /\ <<x>>[1] = x
  OBVIOUS
<1>2. x.data \in Seq(Units)
  BY DEF Fragment
<1> DEFINE d == x.data
<1>3. Datas(<<x>>) = <<d>>
  <2>1. Datas(<<x>>) = [i \in 1..1 |-> <<x>>[i].data]
    BY <1>1 DEF Datas
  <2>2. \A i \in 1..1 : <<x>>[i].data = d
    BY <1>1
  <2>3. Datas(<<x>>) = [i \in 1..1 |-> d]
    BY <2>1, <2>2
  <2> HIDE DEF d
  <2> QED
    BY <2>3
<1>4. FlattenSeq(<<d>>) = d
  <2> HIDE DEF d
  <2>1. <<d>> = Append(<<>>, d) /\ <<>> \in Seq(Seq(Units))
    OBVIOUS
  <2>2. d \in Seq(Units)
    BY <1>2 DEF d
  <2>3. FlattenSeq(Append(<<>>, d)) = FlattenSeq(<<>>) \o d
    BY <2>1, <2>2, FlattenAppend
  <2> QED
    BY <2>1, <2>2, <2>3, FlattenEmpty, ConcatEmptySeq
<1> QED
  BY <1>1, <1>3, <1>4 DEF Data

LEMMA RunIs ==
    ASSUME NEW a \in Nat, NEW n \in Nat, a + n <= MaxUnits
    PROVE  /\ Run(a, n) \in Seq(Units) /\ Len(Run(a, n)) = n
           /\ \A i \in 1..n : Run(a, n)[i] = a + i - 1
<1>1. MaxUnits \in Nat
  BY KcpAssumption
<1>2. Run(a, n) \in [1..n -> Units]
  <2>1. \A i \in 1..n : a + i - 1 \in 0..(MaxUnits - 1)
    BY <1>1
  <2> QED
    BY <2>1 DEF Run, Units
<1> QED
  BY <1>2, FunctionIsSeq DEF Run

\* One run continues the other.
LEMMA RunsJoin ==
    ASSUME NEW a \in Nat, NEW n \in Nat, NEW m \in Nat, a + n + m <= MaxUnits
    PROVE  Run(a, n) \o Run(a + n, m) = Run(a, n + m)
<1> DEFINE x == Run(a, n)
           y == Run(a + n, m)
           z == Run(a, n + m)
<1>0. MaxUnits \in Nat /\ a + n <= MaxUnits /\ (a + n) + m <= MaxUnits
      /\ a + (n + m) <= MaxUnits /\ a + n \in Nat /\ n + m \in Nat
  BY KcpAssumption
<1>1. /\ x \in Seq(Units) /\ Len(x) = n /\ \A i \in 1..n : x[i] = a + i - 1
  BY <1>0, RunIs
<1>2. /\ y \in Seq(Units) /\ Len(y) = m /\ \A i \in 1..m : y[i] = (a + n) + i - 1
  BY <1>0, RunIs
<1>3. /\ z \in Seq(Units) /\ Len(z) = n + m /\ \A i \in 1..(n + m) : z[i] = a + i - 1
  BY <1>0, RunIs
<1> HIDE DEF x, y, z
<1> DEFINE w == x \o y
<1>4. /\ w \in Seq(Units) /\ Len(w) = Len(x) + Len(y)
      /\ \A i \in 1..(Len(x) + Len(y)) : w[i] = IF i <= Len(x) THEN x[i] ELSE y[i - Len(x)]
  BY <1>1, <1>2, ConcatProperties
<1> HIDE DEF w
<1>5. ASSUME NEW i \in 1..(n + m) PROVE w[i] = z[i]
  <2>1. CASE i <= n
    BY <1>1, <1>2, <1>3, <1>4, <2>1
  <2>2. CASE ~(i <= n)
    <3>1. i - n \in 1..m /\ (a + n) + (i - n) - 1 = a + i - 1
      BY <2>2
    <3>2. y[i - n] = (a + n) + (i - n) - 1
      BY <1>2, <3>1
    <3> QED
      BY <1>1, <1>2, <1>3, <1>4, <2>2, <3>1, <3>2
  <2> QED
    BY <2>1, <2>2
<1>6. w = z
  BY <1>1, <1>2, <1>3, <1>4, <1>5, SeqEqual
<1> QED
  BY <1>6 DEF w, x, y, z

\* The fragments of the data hold its units, in order.
LEMMA FragmentsHold ==
    ASSUME NEW first \in Nat, NEW len \in Nat, first + len <= MaxUnits, Sendable(len)
    PROVE  Data(Fragments(first, len)) = Run(first, len)
<1> DEFINE c == FragmentCount(len)
           fr == Fragments(first, len)
           To(k) == Least(k * SegLen, len)
           Part(k) == SubSeq(fr, 1, k)
           T == {k \in Nat : k <= c => Data(Part(k)) = Run(first, To(k))}
<1>1. /\ fr \in Seq(Fragment) /\ Len(fr) = c /\ c \in Nat
      /\ \A k \in 1..c : fr[k].data = Piece(first, len, k) /\ fr[k] \in Fragment
  <2>1. fr \in Seq(Fragment) /\ Len(fr) = c /\ c \in Nat
    BY FragmentsTyped, Counted
  <2>2. \A k \in 1..c : fr[k] = [data |-> Piece(first, len, k),
                                 frg |-> IF Stream THEN 0 ELSE c - k]
    BY FragmentsTyped
  <2> HIDE DEF c, fr
  <2>3. ASSUME NEW k \in 1..c PROVE fr[k].data = Piece(first, len, k)
    <3> DEFINE d == Piece(first, len, k)
               g == IF Stream THEN 0 ELSE c - k
    <3>1. fr[k] = [data |-> d, frg |-> g]
      BY <2>2
    <3> HIDE DEF d, g
    <3>2. fr[k].data = d
      BY <3>1
    <3> QED
      BY <3>2 DEF d
  <2> QED
    BY <2>1, <2>3, ElementsOf
<1>2. /\ SegLen \in Nat \ {0} /\ MaxUnits \in Nat /\ len <= c * SegLen
      /\ \A k \in 1..c : (k - 1) * SegLen \in Nat /\ (k - 1) * SegLen < len
  BY Counted, KcpAssumption
<1> HIDE DEF c, fr
<1>3. Data(<<>>) = <<>> /\ Run(first, 0) = <<>>
  <2>1. Datas(<<>>) = <<>>
    BY DatasTyped, EmptySeq
  <2>2. Run(first, 0) = <<>>
    <3>1. first + 0 <= MaxUnits /\ 0 \in Nat
      BY <1>2
    <3>2. Run(first, 0) \in Seq(Units) /\ Len(Run(first, 0)) = 0
      BY <3>1, RunIs
    <3> QED
      BY <3>2, EmptySeq
  <2> QED
    BY <2>1, <2>2, FlattenEmpty DEF Data
<1>4. 0 \in T
  <2>1. Part(0) = <<>>
    BY SubSeqEmpty
  <2>2. To(0) = 0
    BY <1>2 DEF Least
  <2> QED
    BY <1>3, <2>1, <2>2
<1>5. ASSUME NEW k \in T PROVE k + 1 \in T
  <2> SUFFICES ASSUME k + 1 <= c
               PROVE  Data(Part(k + 1)) = Run(first, To(k + 1))
    OBVIOUS
  <2> DEFINE off == k * SegLen
             more == Least(SegLen, len - off)
  <2>1. k \in Nat /\ k <= c /\ Data(Part(k)) = Run(first, To(k))
    BY <1>1
  <2>2. k + 1 \in 1..c /\ (k + 1) - 1 = k
    BY <1>1, <2>1
  <2>3. off \in Nat /\ off < len
    <3>1. ((k + 1) - 1) * SegLen \in Nat /\ ((k + 1) - 1) * SegLen < len
      BY <1>2, <2>2
    <3> QED
      BY <2>2, <3>1
  <2>4. (k + 1) * SegLen = off + SegLen
    BY <1>2, <2>1, TimesOne
  <2>5. Piece(first, len, k + 1) = [i \in 1..more |-> first + off + i - 1]
    BY <2>2 DEF Piece
  <2>6. fr[k + 1] \in Fragment /\ fr[k + 1].data = Piece(first, len, k + 1)
    BY <1>1, <2>2
  <2>7. To(k) = off /\ To(k + 1) = off + more /\ more \in Nat /\ first + off + more <= MaxUnits
    <3> DEFINE next == (k + 1) * SegLen
    <3>1. next = off + SegLen
      BY <2>4
    <3> HIDE DEF off, next
    <3>2. /\ Least(off, len) = off /\ Least(next, len) = off + more /\ more \in Nat
          /\ first + off + more <= MaxUnits
      BY <1>2, <2>3, <3>1 DEF Least
    <3> QED
      BY <3>2 DEF off, next
  <2> HIDE DEF off, more
  <2>8. Piece(first, len, k + 1) = Run(first + off, more)
    BY <2>5 DEF Run
  <2>9. Part(k) \in Seq(Fragment) /\ Part(k + 1) = Part(k) \o <<fr[k + 1]>>
    <3>1. \A i \in 1..k : i \in 1..c /\ fr[i] \in Fragment
      BY <1>1, <2>1
    <3>2. Part(k) \in Seq(Fragment)
      BY <2>1, <3>1, SubSeqProperties
    <3>3. 1 \in 1..Len(fr) /\ k + 1 \in 1..Len(fr) /\ (k + 1) - 1 = k
      BY <1>1, <2>1, <2>2
    <3>4. SubSeq(fr, 1, k + 1) = SubSeq(fr, 1, (k + 1) - 1) \o <<fr[k + 1]>>
      BY <1>1, <3>3, SubSeqRecursiveSecond
    <3> QED
      BY <3>2, <3>3, <3>4
  <2>10. Data(Part(k + 1)) = Data(Part(k)) \o Data(<<fr[k + 1]>>)
    BY <2>6, <2>9, DataJoins, DataOfOne
  <2>11. Data(<<fr[k + 1]>>) = Run(first + off, more)
    BY <2>6, <2>8, DataOfOne
  <2>12. Run(first, off) \o Run(first + off, more) = Run(first, off + more)
    BY <2>3, <2>7, RunsJoin
  <2> QED
    BY <2>1, <2>7, <2>10, <2>11, <2>12
<1>6. T = Nat
  <2>1. T \in SUBSET Nat
    OBVIOUS
  <2> HIDE DEF T
  <2> QED
    BY <1>4, <1>5, <2>1, SetInduction
<1>7. Data(Part(c)) = Run(first, To(c))
  BY <1>1, <1>6
<1>8. Part(c) = fr
  BY <1>1, SubSeqFull
<1>9. To(c) = len
  <2> DEFINE all == c * SegLen
  <2>1. len <= all
    BY <1>2
  <2>2. all \in Int
    BY <1>1, <1>2
  <2> HIDE DEF all
  <2>3. Least(all, len) = len
    BY <2>1, <2>2 DEF Least
  <2> QED
    BY <2>3 DEF all
<1> QED
  BY <1>7, <1>8, <1>9 DEF fr

\* What joins the last segment continues its data.
LEMMA ExtendedHolds ==
    ASSUME TypeOK, NEW len \in Nat, accepted + Extension(len) <= MaxUnits
    PROVE  Data(Extended(Extension(len))) = Data(sndQueue) \o Run(accepted, Extension(len))
<1> DEFINE taken == Extension(len)
           n == Len(sndQueue)
           more == Run(accepted, taken)
<1>1. /\ sndQueue \in Seq(Fragment) /\ accepted \in Nat
      /\ taken \in Nat /\ Extended(taken) \in Seq(Fragment)
      /\ accepted + taken <= MaxUnits
  BY ExtendedTyped DEF TypeOK
<1>2. more \in Seq(Units) /\ Len(more) = taken
  BY <1>1, RunIs
<1>3. CASE taken = 0
  <2>1. more = <<>>
    BY <1>2, <1>3, EmptySeq
  <2>2. Extended(taken) = sndQueue
    BY <1>3 DEF Extended
  <2>3. Data(sndQueue) \o <<>> = Data(sndQueue)
    BY <1>1, DataJoins, ConcatEmptySeq
  <2> QED
    BY <2>1, <2>2, <2>3
<1>4. CASE taken # 0
  <2>1. sndQueue # <<>>
    BY <1>4 DEF Extension
  <2>2. PICK r \in Seq(Fragment), x \in Fragment : sndQueue = Append(r, x)
    BY <1>1, <2>1, SequenceEmptyOrAppend
  <2>3. /\ n = Len(r) + 1 /\ sndQueue[n] = x /\ Len(r) \in Nat
        /\ \A i \in 1..Len(r) : sndQueue[i] = r[i]
    BY <2>2, AppendProperties, ElementsOf
  <2> DEFINE d == x.data
             both == d \o more
             new == [x EXCEPT !.data = both]
  <2>4. Extended(taken) = [sndQueue EXCEPT ![n].data = @ \o more]
    BY <1>4 DEF Extended, Run
  <2>5. Extended(taken) = [sndQueue EXCEPT ![n] = new]
    BY <2>3, <2>4
  <2>6. new.data = both
    <3> HIDE DEF both
    <3>1. x \in [data : {w \in Seq(Units) : Len(w) \in 1..SegLen}, frg : 0..(WndRcv - 2)]
      BY DEF Fragment
    <3> QED
      BY <3>1
  <2> HIDE DEF new, taken, more
  <2>7. /\ Len(Extended(taken)) = n /\ Extended(taken)[n] = new
        /\ \A i \in 1..Len(r) : Extended(taken)[i] = r[i]
        /\ new \in Fragment
    <3>0. n \in 1..n
      BY <2>3
    <3>1. Len(Extended(taken)) = n
      BY ExtendedTyped DEF taken
    <3>2. Extended(taken)[n] = new /\ \A i \in 1..Len(r) : Extended(taken)[i] = r[i]
      BY <1>1, <2>3, <2>5, <3>0, ElementsOf
    <3>3. new \in Fragment
      BY <1>1, <3>0, <3>1, <3>2, ElementsOf
    <3> QED
      BY <3>1, <3>2, <3>3
  <2>8. Extended(taken) = Append(r, new)
    <3> DEFINE e == Extended(taken)
               a == Append(r, new)
    <3>1. /\ a \in Seq(Fragment) /\ Len(a) = Len(r) + 1 /\ a[Len(r) + 1] = new
          /\ \A i \in 1..Len(r) : a[i] = r[i]
      BY <2>7, AppendProperties, ElementsOf
    <3>2. /\ e \in Seq(Fragment) /\ Len(e) = Len(r) + 1 /\ e[Len(r) + 1] = new
          /\ \A i \in 1..Len(r) : e[i] = r[i]
      BY <1>1, <2>3, <2>7
    <3> HIDE DEF e, a
    <3>3. \A i \in 1..Len(e) : e[i] = a[i]
      <4> SUFFICES ASSUME NEW i \in 1..Len(e) PROVE e[i] = a[i]
        OBVIOUS
      <4>1. i \in 1..Len(r) \/ i = Len(r) + 1
        BY <2>3, <3>2
      <4> QED
        BY <3>1, <3>2, <4>1
    <3>4. e = a
      BY <3>1, <3>2, <3>3, SeqEqual
    <3> QED
      BY <3>4 DEF e, a
  <2>9. \A y \in Fragment : Append(r, y) = r \o <<y>> /\ <<y>> \in Seq(Fragment)
    BY AppendIsConcat
  <2>10. \A y \in Fragment : Data(Append(r, y)) = Data(r) \o y.data
    <3> SUFFICES ASSUME NEW y \in Fragment PROVE Data(Append(r, y)) = Data(r) \o y.data
      OBVIOUS
    <3>1. Data(<<y>>) = y.data /\ Append(r, y) = r \o <<y>> /\ <<y>> \in Seq(Fragment)
      BY <2>9, DataOfOne
    <3>2. Data(r \o <<y>>) = Data(r) \o Data(<<y>>)
      BY <3>1, DataJoins
    <3> QED
      BY <3>1, <3>2
  <2>11. Data(Extended(taken)) = Data(r) \o (d \o more)
    BY <2>6, <2>7, <2>8, <2>10
  <2>12. Data(sndQueue) = Data(r) \o d
    BY <2>2, <2>10
  <2>13. (Data(r) \o d) \o more = Data(r) \o (d \o more)
    <3> DEFINE p == Data(r)
    <3>1. p \in Seq(Units) /\ d \in Seq(Units) /\ more \in Seq(Units)
      BY <1>2, DataJoins DEF Fragment
    <3> HIDE DEF p, d
    <3>2. (p \o d) \o more = p \o (d \o more)
      BY <3>1, ConcatAssociative
    <3> QED
      BY <3>2 DEF p
  <2> QED
    BY <2>11, <2>12, <2>13 DEF taken, more
<1> QED
  BY <1>3, <1>4

------------------------------------------------------------------------------
(* The refinement.                                                         *)

LEMMA SameData == ASSUME NEW s PROVE RQ!DataOf(s) = Data(s)
  BY DEF RQ!DataOf, FlattenSeq, RQ!FlattenSeq, Data, Datas

\* What is between two sequences of segments when the one is e \o t.
LEMMA TailOfConcat ==
    ASSUME NEW s \in Seq(Fragment), NEW t \in Seq(Fragment)
    PROVE  /\ RQ!IsPrefix(s, s \o t)
           /\ SubSeq(s \o t, Len(s) + 1, Len(s \o t)) = t
<1> DEFINE u == s \o t
           n == Len(s)
           m == Len(t)
<1>1. /\ u \in Seq(Fragment) /\ Len(u) = n + m /\ n \in Nat /\ m \in Nat
      /\ \A i \in 1..n : u[i] = s[i]
      /\ \A i \in 1..m : u[n + i] = t[i]
  BY ConcatIs
<1>2. DOMAIN s = 1..n /\ DOMAIN t = 1..m /\ s \in Seq(Fragment) /\ t \in Seq(Fragment)
      /\ n = Len(s) /\ m = Len(t)
  BY ElementsOf
<1> HIDE DEF u, n, m
<1>3. SubSeq(s, 1, n) = s
  BY <1>2, SubSeqFull
<1> DEFINE v == SubSeq(u, 1, n)
           w == SubSeq(u, n + 1, n + m)
<1>4. v = s
  <2>1. \A i \in 1..n : u[i] \in Fragment
    BY <1>1, ElementsOf
  <2>2. n \in Int /\ 1 \in Int
    BY <1>1
  <2>3. /\ v \in Seq(Fragment) /\ Len(v) = IF 1 <= n THEN n - 1 + 1 ELSE 0
        /\ \A i \in 1..(n - 1 + 1) : v[i] = u[1 + i - 1]
    BY <2>1, <2>2, SubSeqProperties
  <2> HIDE DEF v
  <2>4. Len(v) = n /\ \A i \in 1..n : i \in 1..(n - 1 + 1) /\ 1 + i - 1 = i
    BY <1>1, <2>3
  <2>5. \A i \in 1..Len(v) : v[i] = s[i]
    BY <1>1, <2>3, <2>4
  <2> QED
    BY <1>2, <2>3, <2>4, <2>5, SeqEqual
<1>5. w = t
  <2>1. /\ SubSeq(u, n + 1, Len(u)) \in Seq(Fragment)
        /\ Len(SubSeq(u, n + 1, Len(u))) = IF n <= Len(u) THEN Len(u) - n ELSE 0
        /\ \A i \in 1..Len(SubSeq(u, n + 1, Len(u))) :
              SubSeq(u, n + 1, Len(u))[i] = u[i + n]
    <3>1. u \in Seq(Fragment) /\ n \in Nat
      BY <1>1
    <3> QED
      BY <3>1, RestKeeps
  <2>2. SubSeq(u, n + 1, Len(u)) = w
    BY <1>1
  <2>3. /\ w \in Seq(Fragment) /\ Len(w) = IF n <= Len(u) THEN Len(u) - n ELSE 0
        /\ \A i \in 1..Len(w) : w[i] = u[i + n]
    BY <2>1, <2>2
  <2> HIDE DEF w
  <2>4. Len(w) = m
    BY <1>1, <2>3
  <2>5. ASSUME NEW i \in 1..Len(w) PROVE w[i] = t[i]
    <3>1. i \in 1..m /\ i + n = n + i
      BY <1>1, <2>4
    <3> QED
      BY <1>1, <2>3, <3>1
  <2> QED
    BY <1>2, <2>3, <2>4, <2>5, SeqEqual
<1>6. RQ!IsPrefix(s, u)
  <2>1. n <= Len(u)
    BY <1>1
  <2> QED
    BY <1>2, <1>3, <1>4, <2>1 DEF RQ!IsPrefix, v
<1> QED
  BY <1>1, <1>5, <1>6 DEF u, n, m, w

\* ikcp_send: the new units follow the others, those of a message in segments of
\* their own.
LEMMA SendEnters == ASSUME Core, Send PROVE RQ!Enter
<1>0. PICK taken \in Nat, rest \in Nat :
        /\ accepted + taken + rest <= MaxUnits /\ taken + rest > 0
        /\ Sendable(rest)
        /\ \E len \in Nat : taken = Extension(len)
        /\ accepted' = accepted + taken + rest
        /\ sndQueue' = Extended(taken) \o Fragments(accepted + taken, rest)
        /\ Extended(taken) \in Seq(Fragment)
  BY SendTakes
<1> DEFINE e == Extended(taken)
           t == Fragments(accepted + taken, rest)
           a == Early
           b == sndQueue
           x == Run(accepted, taken)
           y == Run(accepted + taken, rest)
<1>1. /\ accepted \in Nat /\ MaxUnits \in Nat /\ accepted + taken \in Nat
      /\ (accepted + taken) + rest <= MaxUnits /\ accepted + taken <= MaxUnits
  <2>1. accepted \in Nat /\ MaxUnits \in Nat
    BY NumbersAreSNs DEF Core
  <2>2. accepted + taken + rest <= MaxUnits
    BY <1>0
  <2> QED
    BY <2>1, <2>2
<1>2. t \in Seq(Fragment) /\ Data(t) = y /\ Len(t) = FragmentCount(rest)
  BY <1>0, <1>1, FragmentsTyped, FragmentsHold
<1>3. a \in Seq(Fragment) /\ b \in Seq(Fragment) /\ e \in Seq(Fragment) /\ Outstanding = a \o b
  BY <1>0, EarlyIs DEF Core, TypeOK
<1>4. Outstanding' = a \o (e \o t)
  <2>1. Core'
    BY SendKeepsCore
  <2>2. Core' => Joins'
    BY Joined, PTL
  <2> QED
    BY <1>0, <2>1, <2>2, SendJoins DEF Joins
<1>5. Data(e) = Data(b) \o x
  BY <1>0, <1>1, ExtendedHolds DEF Core
<1>6. x \in Seq(Units) /\ y \in Seq(Units)
  BY <1>1, RunIs
<1>7. x \o y = Run(accepted, taken + rest)
  BY <1>1, RunsJoin
<1>8. accepted' > accepted /\ accepted' - accepted = taken + rest
  BY <1>0, <1>1
<1> HIDE DEF e, t, a, b, x, y
<1>9. Data(Outstanding') = Data(Outstanding) \o (x \o y)
  <2> DEFINE p == Data(a)
             q == Data(b)
  <2>1. p \in Seq(Units) /\ q \in Seq(Units) /\ Data(a \o b) = p \o q
    BY <1>3, DataJoins
  <2>2. Data(e \o t) = (q \o x) \o y /\ e \o t \in Seq(Fragment)
    BY <1>2, <1>3, <1>5, DataJoins, ConcatProperties
  <2>3. Data(a \o (e \o t)) = p \o ((q \o x) \o y)
    BY <1>3, <2>2, DataJoins
  <2> HIDE DEF p, q
  <2>4. p \o ((q \o x) \o y) = (p \o q) \o (x \o y)
    <3>1. p \in Seq(Units) /\ q \in Seq(Units)
      BY <2>1
    <3> QED
      BY <1>6, <3>1, Regroup, SMTT(60)
  <2> QED
    BY <1>3, <1>4, <2>1, <2>3, <2>4
<1>10. RQ!DataOf(Outstanding') = RQ!DataOf(Outstanding) \o
           [i \in 1..(accepted' - accepted) |-> accepted + i - 1]
  <2>1. x \o y = [i \in 1..(accepted' - accepted) |-> accepted + i - 1]
    BY <1>7, <1>8 DEF Run
  <2>2. RQ!DataOf(Outstanding') = Data(Outstanding') /\ RQ!DataOf(Outstanding) = Data(Outstanding)
    BY SameData
  <2> QED
    BY <1>9, <2>1, <2>2
<1>11. ASSUME ~Stream
       PROVE  /\ RQ!IsPrefix(Outstanding, Outstanding')
              /\ RQ!IsMessage(SubSeq(Outstanding', Len(Outstanding) + 1, Len(Outstanding')))
  <2>1. taken = 0
    BY <1>0, <1>11 DEF Extension
  <2>2. e = b
    BY <2>1 DEF e, b, Extended
  <2>3. Outstanding' = Outstanding \o t
    <3>1. (a \o b) \o t = a \o (b \o t)
      BY <1>2, <1>3, ConcatAssociative
    <3> QED
      BY <1>3, <1>4, <2>2, <3>1
  <2>4. a \o b \in Seq(Fragment)
    BY <1>3, ConcatProperties
  <2>5. /\ RQ!IsPrefix(Outstanding, Outstanding')
        /\ SubSeq(Outstanding', Len(Outstanding) + 1, Len(Outstanding')) = t
    BY <1>2, <1>3, <2>3, <2>4, TailOfConcat
  <2>6. RQ!IsMessage(t)
    <3> DEFINE c == FragmentCount(rest)
    <3>1. c \in Nat /\ c > 0
      BY <1>0, <2>1, Counted
    <3>2. ASSUME NEW k \in 1..c PROVE t[k].frg = c - k
      <4> DEFINE d == Piece(accepted + taken, rest, k)
      <4>1. t[k] = [data |-> d, frg |-> IF Stream THEN 0 ELSE c - k]
        BY <1>0, <1>1, FragmentsTyped DEF t
      <4> HIDE DEF c, d
      <4> QED
        BY <1>11, <4>1
    <3>3. t # <<>>
      BY <1>2, <3>1, EmptySeq
    <3> HIDE DEF c
    <3>4. Len(t) = c
      BY <1>2 DEF c
    <3> QED
      BY <3>2, <3>3, <3>4 DEF RQ!IsMessage
  <2> QED
    BY <2>5, <2>6
<1> QED
  BY <1>8, <1>10, <1>11 DEF RQ!Enter

\* ikcp_recv: the message at the head leaves as it entered.
LEMMA RecvLeaves == ASSUME Core, Chained(Outstanding), Recv PROVE RQ!Leave
<1> DEFINE k == MessageLen
           s == Outstanding
<1>1. Core' /\ Drops(k) /\ k \in 1..Len(rcvQueue)
  BY RecvKeepsCore
<1>2. /\ s \in Seq(Fragment) /\ Len(rcvQueue) \in Nat /\ Len(rcvQueue) <= Len(s)
      /\ \A i \in 1..Len(rcvQueue) : s[i] = rcvQueue[i]
  BY OutstandingSegments, QueueIsPrefix, NumbersAreSNs DEF Core, LaidOut
<1>3. \A i \in 1..k : rcvQueue[i].frg = k - i
  BY MessageIs DEF Recv
<1>4. accepted' = accepted
  BY DEF Recv, sender
<1>5. First \in Int /\ End \in Nat /\ Len(s) = End - First
  BY OutstandingSegments DEF LaidOut
<1>10. Len(s) \in Nat
  BY <1>2, ElementsOf
<1> HIDE DEF s
<1>6. k \in Nat /\ k > 0 /\ k <= Len(s) /\ First + k <= End
  <2> HIDE DEF k
  <2> QED
    BY <1>1, <1>2, <1>5
<1>7. Outstanding' = SubSeq(s, k + 1, Len(s))
  BY <1>1, <1>6, DroppedOutstanding DEF s
<1> HIDE DEF k
<1>8. Len(s) - Len(Outstanding') = k
  <2>1. Len(SubSeq(s, k + 1, Len(s))) = IF k <= Len(s) THEN Len(s) - k ELSE 0
    BY <1>2, <1>6, RestKeeps
  <2>2. Len(Outstanding') = Len(s) - k
    BY <1>6, <1>7, <2>1
  <2> HIDE DEF s
  <2> QED
    BY <1>6, <1>10, <2>2
<1>9. RQ!IsMessage(SubSeq(s, 1, k))
  <2> DEFINE m == SubSeq(s, 1, k)
  <2>1. \A i \in 1..k : s[i] \in Fragment /\ i \in 1..Len(rcvQueue)
    BY <1>1, <1>2, <1>6, ElementsOf
  <2>2. /\ m \in Seq(Fragment) /\ Len(m) = IF 1 <= k THEN k - 1 + 1 ELSE 0
        /\ \A i \in 1..(k - 1 + 1) : m[i] = s[1 + i - 1]
    BY <1>6, <2>1, SubSeqProperties
  <2> HIDE DEF m
  <2>3. Len(m) = k
    BY <1>6, <2>2
  <2>4. ASSUME NEW i \in 1..k PROVE m[i].frg = k - i
    <3>1. i \in 1..(k - 1 + 1) /\ 1 + i - 1 = i
      BY <1>6
    <3> QED
      BY <1>2, <1>3, <2>1, <2>2, <3>1
  <2>5. m # <<>>
    BY <1>6, <2>2, <2>3, EmptySeq
  <2>6. RQ!IsMessage(m)
    BY <2>3, <2>4, <2>5 DEF RQ!IsMessage
  <2> QED
    BY <2>6 DEF m
<1> QED
  BY <1>4, <1>6, <1>7, <1>8, <1>9 DEF RQ!Leave, s

\* Data leaves ikcp_recv as it entered ikcp_send, in order and each unit once, and
\* a message as a whole unless in stream mode, for every window and segment size
\* and whatever the network loses, repeats and reorders.
THEOREM DeliversInOrder == Spec => InOrder
<1>1. Init => RQ!Init
  <2> SUFFICES ASSUME Init PROVE Outstanding = <<>> /\ accepted = 0
    BY DEF RQ!Init
  <2>1. Core /\ LaidOut
    BY CoreInitially, OutstandingSegments
  <2>2. rcvNxt = 0 /\ sndNxt = 0 /\ Len(rcvQueue) = 0 /\ Len(sndQueue) = 0
    BY EmptySeq DEF Init
  <2>3. Len(Outstanding) = 0 /\ Outstanding \in Seq(Fragment)
    BY <2>1, <2>2 DEF LaidOut, First, End
  <2> QED
    BY <2>3, EmptySeq DEF Init
<1>2. IInv /\ [Next]_vars => [RQ!Next]_<<Outstanding, accepted>>
  <2> SUFFICES ASSUME Core, Chained(Outstanding), [Next]_vars
               PROVE  RQ!Next \/ UNCHANGED <<Outstanding, accepted>>
    BY InvIsCore
  <2>1. CASE Send
    BY <2>1, SendEnters DEF RQ!Next
  <2>2. CASE Recv
    BY <2>2, RecvLeaves DEF RQ!Next
  <2>3. CASE Core' /\ Drops(0) /\ accepted' = accepted
    BY <2>3, SameOutstanding
  <2>4. ASSUME NEW overdue \in SUBSET DOMAIN sndBuf, NEW elapsed \in {FALSE, Asks(TRUE)},
               NEW kept \in SUBSET Sent(overdue), FlushSender(overdue, elapsed, kept)
        PROVE  Core' /\ Drops(0) /\ accepted' = accepted
    <3>1. elapsed \in BOOLEAN
      BY DEF Asks, Core, TypeOK
    <3>2. accepted' = accepted
      BY <2>4 DEF FlushSender
    <3> QED
      BY <2>4, <3>1, <3>2, FlushKeepsCore, FlushSegments
  <2>5. ASSUME NEW p \in pushes, InputPush(p)
        PROVE  Core' /\ Drops(0) /\ accepted' = accepted
    BY <2>5, PushKeepsCore, PushSegments DEF InputPush, sender
  <2>6. ASSUME NEW reply \in replies, InputReply(reply)
        PROVE  Core' /\ Drops(0) /\ accepted' = accepted
    BY <2>6, ReplyKeepsCore, ReplySegments DEF InputReply
  <2>7. ASSUME InputAsk \/ FlushReceiver \/ UNCHANGED vars
        PROVE  UNCHANGED <<Outstanding, accepted>>
    BY <2>7 DEF InputAsk, FlushReceiver, vars, sender, receiver, Outstanding
  <2> QED
    BY <2>1, <2>2, <2>3, <2>4, <2>5, <2>6, <2>7 DEF Next
<1> QED
  BY <1>1, <1>2, Invariance, PTL DEF Spec, InOrder, RQ!Spec

================================================================================
