------------------------------ MODULE ReceiveBuffer ------------------------------
(***************************************************************************)
(* The receiving side of a KCP control block as it lies in memory: rcv_buf *)
(* and rcv_queue as linked lists, the counters kept beside them and the    *)
(* sequence numbers as they travel, which wrap around.                     *)
(*                                                                         *)
(* The peer sends the segments 0, 1, 2, ... in any order and more than     *)
(* once; a segment is known by that number (its data), its sn is the       *)
(* number modulo SnRange.  ikcp_recv takes some segments, the fragments of *)
(* one message; Kcp says which.                                            *)
(***************************************************************************)
EXTENDS IQueue, Sequences, FiniteSetsExt

CONSTANTS
    SnRange,       \* 2^32
    Windows,       \* the values of rcv_wnd, which ikcp_wndsize may change
    Pool,          \* the nodes of the segments malloc can return
    Buf, Que,      \* the heads rcv_buf and rcv_queue
    MaxAge,        \* how far behind rcv_nxt a late segment may be
    MaxNumber      \* bound: segments numbered up to here

MaxWindow == Max(Windows)

\* malloc does not fail: two full lists and the segment that just came.  No two
\* numbers that meet are half the range apart.
ASSUME BufferAssumption ==
    /\ Windows \subseteq 1..SnRange /\ MaxAge \in Nat /\ MaxNumber \in Nat
    /\ Buf # Que /\ Null # Buf /\ Null # Que
    /\ Buf \notin Pool /\ Que \notin Pool /\ Null \notin Pool
    /\ IsFiniteSet(Pool) /\ Cardinality(Pool) > 2 * MaxWindow
    /\ SnRange \in Nat /\ SnRange % 2 = 0 /\ MaxWindow + MaxAge < SnRange \div 2

VARIABLES
    ring,          \* the links of all nodes
    number,        \* node -> the number of the segment it holds, for those in use
    rcvNxt,        \* rcv_nxt
    rcvWnd,        \* rcv_wnd
    nrcvBuf, nrcvQue,
    base           \* the number whose sn rcv_nxt is

vars == <<ring, number, rcvNxt, rcvWnd, nrcvBuf, nrcvQue, base>>

Heads == {Buf, Que}
InUse == DOMAIN number

Sn(node) == number[node] % SnRange

EmptyRing ==
    LET links == [n \in Pool \cup Heads |-> IF n \in Heads THEN n ELSE Null]
    IN  [next |-> links, prev |-> links]

\* ikcp_create.
Init ==
    /\ ring = EmptyRing /\ number = <<>>
    /\ rcvNxt = 0 /\ rcvWnd \in Windows
    /\ nrcvBuf = 0 /\ nrcvQue = 0 /\ base = 0

------------------------------------------------------------------------------
(* ikcp_parse_data.                                                        *)

\* _itimediff.
Itimediff(later, earlier) ==
    LET d == (later - earlier) % SnRange IN
    IF d < SnRange \div 2 THEN d ELSE d - SnRange

\* Mutant: a segment already handed over is taken again.
BelowLimit(sn) == Itimediff(sn, rcvNxt + rcvWnd) < 0

InWindow(sn) == Itimediff(sn, rcvNxt + rcvWnd) < 0 /\ Itimediff(sn, rcvNxt) >= 0

\* Mutant: the walk compares the sequence numbers without their wrap.
StopsByValue(node, sn) == node = Buf \/ sn >= Sn(node)

\* Where the walk from the tail of rcv_buf ends.
Stops(node, sn) == node = Buf \/ Sn(node) = sn \/ Itimediff(sn, Sn(node)) > 0

Place(sn) ==
    LET walk[k \in 0..Cardinality(Pool)] ==
            IF k = 0 THEN ring.prev[Buf]
            ELSE IF Stops(walk[k - 1], sn) THEN walk[k - 1]
            ELSE ring.prev[walk[k - 1]]
    IN  walk[Cardinality(Pool)]

Repeats(place, sn) == place # Buf /\ Sn(place) = sn

Counted(m) ==
    [m EXCEPT !.buf = @ - 1, !.que = @ + 1, !.nxt = (@ + 1) % SnRange]

\* Available data moves from rcv_buf to rcv_queue; m holds the links, the two
\* counters and rcv_nxt, sns the sn of the nodes.
MoveOne(m, sns) ==
    LET first == m.ring.next[Buf] IN
    IF ~IsEmptyRing(m.ring, Buf) /\ sns[first] = m.nxt /\ m.que < rcvWnd
    THEN [Counted(m) EXCEPT !.ring = AddTail(Unlink(@, first), first, Que)]
    ELSE m

Moved(links, numbers, buf, que) ==
    LET sns == [n \in DOMAIN numbers |-> numbers[n] % SnRange]
        moved[k \in 0..Cardinality(Pool)] ==
            IF k = 0 THEN [ring |-> links, buf |-> buf, que |-> que, nxt |-> rcvNxt]
            ELSE MoveOne(moved[k - 1], sns)
    IN  moved[Cardinality(Pool)]

MoveAvailable(links, numbers, buf, que) ==
    LET m == Moved(links, numbers, buf, que) IN
    /\ ring' = m.ring /\ number' = numbers
    /\ nrcvBuf' = m.buf /\ nrcvQue' = m.que /\ rcvNxt' = m.nxt
    /\ base' = base + (m.que - que)

\* Segment n arrives, in the node malloc returns.
ParseData(n, node) ==
    LET sn    == n % SnRange
        place == Place(sn)
    IN  /\ InWindow(sn)
        /\ IF Repeats(place, sn)
           THEN MoveAvailable(ring, number, nrcvBuf, nrcvQue)
           ELSE MoveAvailable(AddAfter(Single(ring, node), node, place),
                              [k \in InUse \cup {node} |->
                                  IF k = node THEN n ELSE number[k]],
                              nrcvBuf + 1, nrcvQue)
        /\ UNCHANGED rcvWnd

\* The sender keeps to the largest window; a segment may come late.
Input ==
    \E n \in (base - MaxAge)..(base + MaxWindow), node \in Pool \ InUse :
        n \in 0..MaxNumber /\ ParseData(n, node)

------------------------------------------------------------------------------
(* ikcp_recv, ikcp_wndsize and ikcp_release.                               *)

\* Nodes taken off the front of a list.
DropFront(links, head, count) ==
    LET dropped[k \in 0..count] ==
            IF k = 0 THEN links
            ELSE Unlink(dropped[k - 1], dropped[k - 1].next[head])
    IN  dropped[count]

Recv ==
    /\ ~IsEmptyRing(ring, Que)
    /\ \E count \in 1..nrcvQue :
          LET taken == {Nodes(ring, Que)[i] : i \in 1..count} IN
          MoveAvailable(DropFront(ring, Que, count),
                        [n \in InUse \ taken |-> number[n]],
                        nrcvBuf, nrcvQue - count)
    /\ UNCHANGED rcvWnd

SetWindow ==
    /\ rcvWnd' \in Windows
    /\ UNCHANGED <<ring, number, rcvNxt, nrcvBuf, nrcvQue, base>>

\* ikcp_release empties both lists and frees their nodes; ikcp_create follows.
Release ==
    LET ofBuf == Nodes(ring, Buf)
        ofQue == Nodes(DropFront(ring, Buf, Len(ofBuf)), Que)
    IN  /\ ring' = DropFront(DropFront(ring, Buf, Len(ofBuf)), Que, Len(ofQue))
        /\ number' = [n \in InUse \ ({ofBuf[i] : i \in 1..Len(ofBuf)}
                                     \cup {ofQue[i] : i \in 1..Len(ofQue)})
                         |-> number[n]]
        /\ rcvNxt' = 0 /\ rcvWnd' \in Windows
        /\ nrcvBuf' = 0 /\ nrcvQue' = 0 /\ base' = 0

Next == Input \/ Recv \/ SetWindow \/ Release

Spec == Init /\ [][Next]_vars

------------------------------------------------------------------------------
(* Properties.                                                             *)

BufNodes == Nodes(ring, Buf)
QueNodes == Nodes(ring, Que)

\* Every node in use is in exactly one list, once, and can be reached in both
\* directions; the counters are the lengths of the lists.  Nothing is leaked and
\* nothing freed is still linked.
WellLinked ==
    LET all == BufNodes \o QueNodes IN
    /\ {all[i] : i \in 1..Len(all)} = InUse
    /\ Len(all) = Cardinality(InUse)
    /\ nrcvBuf = Len(BufNodes) /\ nrcvQue = Len(QueNodes)
    /\ \A n \in InUse \cup Heads :
          ring.prev[ring.next[n]] = n /\ ring.next[ring.prev[n]] = n
    /\ \A n \in Pool \ InUse : ring.next[n] = Null /\ ring.prev[n] = Null

\* rcv_buf holds each number once, in ascending order, from rcv_nxt on and within
\* the window, also where sn wraps around.
BufSorted ==
    LET held == [i \in 1..Len(BufNodes) |-> number[BufNodes[i]]] IN
    /\ rcvNxt = base % SnRange
    /\ \A i \in 1..Len(held) : held[i] \in base..(base + MaxWindow - 1)
    /\ \A i, j \in 1..Len(held) : i < j => held[i] < held[j]

\* Segments leave rcv_queue as the peer numbered them, in order, each once.
Ordering ==
    INSTANCE Reorder WITH
        window <- rcvWnd,
        ready <- [i \in 1..Len(QueNodes) |-> number[QueNodes[i]]],
        held <- {number[BufNodes[i]] : i \in 1..Len(BufNodes)},
        following <- base

InOrder == Ordering!Spec

------------------------------------------------------------------------------
(* The inductive invariant.                                                *)

Rings == [next : [Pool \cup Heads -> Pool \cup Heads \cup {Null}],
          prev : [Pool \cup Heads -> Pool \cup Heads \cup {Null}]]

TypeOK ==
    /\ ring \in Rings
    /\ InUse \subseteq Pool /\ number \in [InUse -> Nat]
    /\ rcvNxt \in Nat /\ rcvWnd \in Windows
    /\ nrcvBuf \in Nat /\ nrcvQue \in Nat /\ base \in Nat

\* The nodes of a sequence, with the head before the first and after the last.
At(head, s, i) == IF i \in 1..Len(s) THEN s[i] ELSE head

\* A ring through its head links the nodes of a sequence in order.
Linked(links, head, s) ==
    \A i \in 0..Len(s) :
        /\ links.next[At(head, s, i)] = At(head, s, i + 1)
        /\ links.prev[At(head, s, i + 1)] = At(head, s, i)

Distinct(s) == \A i, j \in 1..Len(s) : s[i] = s[j] => i = j

Elements(s) == {s[i] : i \in 1..Len(s)}

\* The links hold these two lists and nothing else.
Holds(links, inBuf, inQue) ==
    /\ inBuf \in Seq(Pool) /\ inQue \in Seq(Pool)
    /\ Distinct(inBuf) /\ Distinct(inQue)
    /\ Elements(inBuf) \cap Elements(inQue) = {}
    /\ Linked(links, Buf, inBuf) /\ Linked(links, Que, inQue)
    /\ \A n \in Pool \ (Elements(inBuf) \cup Elements(inQue)) :
          links.next[n] = Null /\ links.prev[n] = Null

\* The lists hold the nodes in use, and the counters count them.
Lists ==
    /\ Holds(ring, BufNodes, QueNodes)
    /\ InUse = Elements(BufNodes) \cup Elements(QueNodes)
    /\ nrcvBuf = Len(BufNodes) /\ nrcvQue = Len(QueNodes)

\* What waits in rcv_queue was handed over last.
Waiting ==
    \A i \in 1..Len(QueNodes) : number[QueNodes[i]] = base - Len(QueNodes) + i - 1

IInv == TypeOK /\ Lists /\ BufSorted /\ Waiting

================================================================================
