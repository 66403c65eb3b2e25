---------------------------------- MODULE Kcp ----------------------------------
(***************************************************************************)
(* One direction of a KCP conversation: a control block that only sends    *)
(* and one that only receives, joined by a network that may lose, repeat   *)
(* and reorder datagrams.  The data sent is a sequence of numbered units,  *)
(* SegLen of which fill a segment.  Both modes: Stream stands for a stream *)
(* field that is not 0 (ikcp_create sets 0).                               *)
(*                                                                         *)
(* Time is left out (see KcpClock): which resendts and whether ts_probe have passed is    *)
(* chosen freely at each flush.  Round trip times, which only choose these *)
(* moments, the log and the field state, which nothing reads, are left     *)
(* out.  A full segment fills a datagram; the acknowledgements of one      *)
(* flush fit in one.  Sequence numbers do not reach 2^31, below which      *)
(* _itimediff is a plain difference.                                       *)
(***************************************************************************)
EXTENDS Integers, SequencesExt

CONSTANTS
    Stream,        \* stream # 0: data joins the last segment, no messages
    SegLen,        \* mss, in units of data
    WndRcv,        \* IKCP_WND_RCV, also the limit on the fragments of a message
    SndWnd,        \* snd_wnd
    RcvWnd,        \* rcv_wnd, never below IKCP_WND_RCV (ikcp_wndsize)
    WireRange,     \* what the wnd field of a segment can hold: 65536
    Mss,           \* mss, in the unit of incr
    NoCwnd,        \* nocwnd # 0: no congestion window
    FastResend,    \* fastresend; 0: no fast retransmission
    FastLimit,     \* fastlimit
    Duplicates,    \* whether the network may deliver a datagram twice
    Lens,          \* bound: the lengths passed to ikcp_send
    MaxUnits,      \* bound: units accepted in a behaviour
    MaxFlight      \* bound: acknowledging datagrams in flight

ASSUME KcpAssumption ==
    /\ WndRcv \in Nat \ {0} /\ SndWnd \in Nat \ {0} /\ Mss \in Nat \ {0}
    /\ RcvWnd \in Nat /\ RcvWnd >= WndRcv
    /\ WireRange \in Nat /\ RcvWnd < WireRange
    /\ Stream \in BOOLEAN /\ SegLen \in Nat \ {0}
    /\ NoCwnd \in BOOLEAN /\ Duplicates \in BOOLEAN
    /\ FastResend \in Nat /\ FastLimit \in Int
    /\ Lens \subseteq Nat \ {0}
    /\ MaxUnits \in Nat /\ MaxFlight \in Nat

ThreshMin == 2     \* IKCP_THRESH_INIT and IKCP_THRESH_MIN

VARIABLES
    \* the sender
    accepted,      \* how many units were appended to snd_queue so far
    sndQueue,      \* snd_queue: fragments not yet numbered
    sndBuf,        \* snd_buf: sn -> the segment and its retransmission state
    sndUna, sndNxt,
    rmtWnd,        \* rmt_wnd
    cwnd, incr, ssthresh,
    probing,       \* probe_wait # 0: ts_probe is set
    \* the receiver
    rcvQueue,      \* rcv_queue: fragments in order, ready for ikcp_recv
    rcvBuf,        \* rcv_buf: sn -> fragment
    rcvNxt,
    ackList,       \* acklist, as the set of the sn it names
    tell,          \* probe & IKCP_ASK_TELL
    \* the network
    pushes,        \* IKCP_CMD_PUSH segments in flight
    asks,          \* whether an IKCP_CMD_WASK is in flight
    replies        \* datagrams of IKCP_CMD_ACK and IKCP_CMD_WINS in flight

congestion == <<cwnd, incr, ssthresh>>
sender     == <<accepted, sndQueue, sndBuf, sndUna, sndNxt, rmtWnd, congestion, probing>>
receiver   == <<rcvQueue, rcvBuf, rcvNxt, ackList, tell>>
network    == <<pushes, asks, replies>>
vars       == <<sender, receiver, network>>

Least(a, b)    == IF a <= b THEN a ELSE b
Greatest(a, b) == IF a >= b THEN a ELSE b

Init ==
    /\ accepted = 0 /\ sndQueue = <<>> /\ sndBuf = <<>>
    /\ sndUna = 0 /\ sndNxt = 0 /\ rmtWnd = WndRcv
    /\ cwnd = 0 /\ incr = 0 /\ ssthresh = ThreshMin
    /\ probing = FALSE
    /\ rcvQueue = <<>> /\ rcvBuf = <<>> /\ rcvNxt = 0
    /\ ackList = {} /\ tell = FALSE
    /\ pushes = {} /\ asks = FALSE /\ replies = {}

------------------------------------------------------------------------------
(* ikcp_send.                                                              *)

\* How many units of the data join the last segment of snd_queue.
Extension(len) ==
    IF Stream /\ sndQueue # <<>>
    THEN Least(len, SegLen - Len(Last(sndQueue).data)) ELSE 0

Extended(taken) ==
    IF taken = 0 THEN sndQueue
    ELSE [sndQueue EXCEPT ![Len(sndQueue)].data =
              @ \o [i \in 1..taken |-> accepted + i - 1]]

FragmentCount(len) == (len + SegLen - 1) \div SegLen

\* The segments of the units first..(first + len - 1).
Fragments(first, len) ==
    LET count == FragmentCount(len) IN
    [k \in 1..count |->
        [data |-> [i \in 1..Least(SegLen, len - (k - 1) * SegLen) |->
                      first + (k - 1) * SegLen + i - 1],
         frg  |-> IF Stream THEN 0 ELSE count - k]]

\* Mutant: data of any length is accepted.
AnySize(len) == TRUE

\* Data of more segments is refused with -2.
Sendable(len) == FragmentCount(len) < WndRcv

\* The refusal leaves what has already joined the last segment where it is.
Send ==
    \E len \in Lens :
        LET taken == Extension(len)
            rest  == IF Sendable(len - taken) THEN len - taken ELSE 0
        IN  /\ taken + rest > 0
            /\ accepted' = accepted + taken + rest
            /\ accepted' <= MaxUnits
            /\ sndQueue' = Extended(taken) \o Fragments(accepted + taken, rest)
            /\ UNCHANGED <<sndBuf, sndUna, sndNxt, rmtWnd, congestion, probing,
                           receiver, network>>

------------------------------------------------------------------------------
(* ikcp_flush of the sender.                                               *)

\* Mutant: a closed window is waited for.
NeverAsks(elapsed) == FALSE

\* Whether this flush sends IKCP_CMD_WASK; elapsed: ts_probe has passed.
Asks(elapsed) == rmtWnd = 0 /\ probing /\ elapsed

\* How far snd_nxt may run ahead of snd_una.
Window == LET w == Least(SndWnd, rmtWnd) IN IF NoCwnd THEN w ELSE Least(w, cwnd)

\* How many fragments move from snd_queue to snd_buf.
Moved == Least(Len(sndQueue), Greatest(0, sndUna + Window - sndNxt))

Skipped(overdue) ==
    {sn \in DOMAIN sndBuf \ overdue :
        /\ FastResend > 0 /\ sndBuf[sn].fastack >= FastResend
        /\ sndBuf[sn].xmit <= FastLimit \/ FastLimit <= 0}

\* The number of transmissions only counts up to the limit of fast ones.
NextXmit(n) == Least(n + 1, Greatest(FastLimit, 0) + 1)

\* Mutant: an overdue segment is not sent again.
SkippedOnly(overdue) == Skipped(overdue)

Again(overdue) == overdue \cup Skipped(overdue)

Numbered == sndNxt..(sndNxt + Moved - 1)

Sent(overdue) == Numbered \cup Again(overdue)

FlushedBuf(overdue) ==
    [sn \in DOMAIN sndBuf \cup Numbered |->
        IF sn \in Numbered
        THEN [frag |-> sndQueue[sn - sndNxt + 1], xmit |-> 1, fastack |-> 0]
        ELSE IF sn \in Again(overdue)
        THEN [sndBuf[sn] EXCEPT !.xmit = NextXmit(@),
                                !.fastack = IF sn \in overdue THEN @ ELSE 0]
        ELSE sndBuf[sn]]

\* Mutant: the threshold has no minimum.
ThreshOfHalf(inflight) == inflight \div 2

Thresh(inflight) == Greatest(inflight \div 2, ThreshMin)

\* A lost segment weighs more than a skipped one; the window is never left at 0.
Congested(overdue) ==
    IF overdue # {}
    THEN ssthresh' = Thresh(Window) /\ cwnd' = 1 /\ incr' = Mss
    ELSE IF Skipped(overdue) # {}
    THEN /\ ssthresh' = Thresh(sndNxt' - sndUna)
         /\ cwnd' = ssthresh' + FastResend
         /\ incr' = cwnd' * Mss
    ELSE IF cwnd < 1
    THEN cwnd' = 1 /\ incr' = Mss /\ ssthresh' = ssthresh
    ELSE UNCHANGED congestion

\* overdue: the segments whose resendts has passed; kept: those of the segments
\* sent that the network does not lose at once.
FlushSender(overdue, elapsed, kept) ==
    /\ sndBuf' = FlushedBuf(overdue)
    /\ sndNxt' = sndNxt + Moved
    /\ sndQueue' = SubSeq(sndQueue, Moved + 1, Len(sndQueue))
    /\ pushes' = pushes \cup
           {[sn |-> sn, frag |-> FlushedBuf(overdue)[sn].frag] :
               sn \in kept}
    /\ asks' = (asks \/ Asks(elapsed))
    /\ probing' = (rmtWnd = 0)
    /\ Congested(overdue)
    /\ UNCHANGED <<accepted, sndUna, rmtWnd, receiver, replies>>

------------------------------------------------------------------------------
(* ikcp_input of the receiver.                                             *)

\* How many segments move from rcv_buf to rcv_queue.
Movable(queue, buf) ==
    LET room == RcvWnd - Len(queue) IN
    CHOOSE n \in 0..room :
        /\ \A i \in 0..(n - 1) : rcvNxt + i \in DOMAIN buf
        /\ n = room \/ rcvNxt + n \notin DOMAIN buf

MoveAvailable(queue, buf) ==
    LET n == Movable(queue, buf) IN
    /\ rcvQueue' = queue \o [i \in 1..n |-> buf[rcvNxt + i - 1]]
    /\ rcvBuf' = [sn \in DOMAIN buf \ (rcvNxt..(rcvNxt + n - 1)) |-> buf[sn]]
    /\ rcvNxt' = rcvNxt + n

InWindow(sn) == sn < rcvNxt + RcvWnd

\* ikcp_parse_data: a segment rcv_buf already holds is dropped.
ParseData(p) ==
    IF InWindow(p.sn) /\ p.sn >= rcvNxt
    THEN MoveAvailable(rcvQueue,
             [sn \in DOMAIN rcvBuf \cup {p.sn} |->
                 IF sn \in DOMAIN rcvBuf THEN rcvBuf[sn] ELSE p.frag])
    ELSE UNCHANGED <<rcvQueue, rcvBuf, rcvNxt>>

\* What is in flight once d was delivered.
Delivered(set, d) == {set \ {d}} \cup (IF Duplicates THEN {set} ELSE {})

InputPush(p) ==
    /\ p \in pushes
    /\ pushes' \in Delivered(pushes, p)
    /\ ackList' = ackList \cup (IF InWindow(p.sn) THEN {p.sn} ELSE {})
    /\ ParseData(p)
    /\ UNCHANGED <<sender, tell, asks, replies>>

InputAsk ==
    /\ asks
    /\ asks' \in {FALSE, Duplicates}
    /\ tell' = TRUE
    /\ UNCHANGED <<sender, rcvQueue, rcvBuf, rcvNxt, ackList, pushes, replies>>

------------------------------------------------------------------------------
(* ikcp_flush and ikcp_recv of the receiver.                               *)

\* ikcp_wnd_unused, as it goes over the wire.
Unused == Greatest(RcvWnd - Len(rcvQueue), 0) % WireRange

\* What the network makes of a set of datagrams: it may lose any of them.
Carried(set) == {left \in SUBSET set : Cardinality(left) <= MaxFlight}

\* Without acknowledgement or window to report nothing is sent.
FlushReceiver ==
    /\ ackList # {} \/ tell
    /\ LET reply == [acks |-> ackList, una |-> rcvNxt, wnd |-> Unused] IN
       replies' \in Carried(replies \cup {reply})
    /\ ackList' = {} /\ tell' = FALSE
    /\ UNCHANGED <<sender, rcvQueue, rcvBuf, rcvNxt, pushes, asks>>

\* ikcp_peeksize is not negative: the first message is complete.
Receivable == rcvQueue # <<>> /\ Len(rcvQueue) > Head(rcvQueue).frg

\* Mutant: the fragments of a message are not put together.
OneFragment == 1

\* The fragments up to the first one numbered 0.
MessageLen ==
    CHOOSE n \in 1..Len(rcvQueue) :
        rcvQueue[n].frg = 0 /\ \A i \in 1..(n - 1) : rcvQueue[i].frg # 0

\* ikcp_recv with a buffer that is large enough.
Recv ==
    /\ Receivable
    /\ MoveAvailable(SubSeq(rcvQueue, MessageLen + 1, Len(rcvQueue)), rcvBuf)
    /\ tell' = (tell \/ (Len(rcvQueue) >= RcvWnd /\ Len(rcvQueue') < RcvWnd))
    /\ UNCHANGED <<sender, ackList, network>>

------------------------------------------------------------------------------
(* ikcp_input of the sender.                                               *)

\* Mutant: una acknowledges itself.
BelowOrAtUna(sn, una) == sn <= una

AckedByUna(sn, una) == sn < una

\* ikcp_parse_una and ikcp_parse_ack.
Unacked(reply) ==
    {sn \in DOMAIN sndBuf : ~AckedByUna(sn, reply.una) /\ sn \notin reply.acks}

\* ikcp_shrink_buf.
FirstUnacked(sns) ==
    IF sns = {} THEN sndNxt ELSE CHOOSE sn \in sns : \A other \in sns : sn <= other

\* ikcp_parse_fastack: the segments the newest acknowledgement skips.
SkippedBy(reply, left) ==
    {sn \in left : \E newest \in reply.acks :
        /\ \A other \in reply.acks : other <= newest
        /\ FirstUnacked(left) <= newest /\ newest < sndNxt
        /\ sn < newest}

\* The count of skips only matters up to fastresend.
CountSkip(seg) == [seg EXCEPT !.fastack = Least(@ + 1, FastResend)]

\* The congestion window opens when snd_una moves, up to the remote window.
OpenWindow(wnd) ==
    LET base   == Greatest(incr, Mss)
        incr1  == IF cwnd < ssthresh THEN incr + Mss
                  ELSE base + (Mss * Mss) \div base + Mss \div 16
        cwnd1  == IF cwnd < ssthresh THEN cwnd + 1
                  ELSE IF (cwnd + 1) * Mss <= incr1 THEN (incr1 + Mss - 1) \div Mss
                  ELSE cwnd
    IN  /\ cwnd' = Least(cwnd1, wnd)
        /\ incr' = IF cwnd1 > wnd THEN wnd * Mss ELSE incr1

InputReply(reply) ==
    /\ reply \in replies
    /\ replies' \in Delivered(replies, reply)
    /\ rmtWnd' = reply.wnd
    /\ LET left == Unacked(reply) IN
       /\ sndBuf' = [sn \in left |-> IF sn \in SkippedBy(reply, left)
                                     THEN CountSkip(sndBuf[sn]) ELSE sndBuf[sn]]
       /\ sndUna' = FirstUnacked(left)
       /\ IF sndUna' > sndUna /\ cwnd < reply.wnd
          THEN OpenWindow(reply.wnd) ELSE UNCHANGED <<cwnd, incr>>
    /\ UNCHANGED <<accepted, sndQueue, sndNxt, ssthresh, probing, receiver,
                   pushes, asks>>

------------------------------------------------------------------------------
SNs == 0..(MaxUnits - 1)      \* a segment holds at least one unit

Next ==
    \/ Send
    \/ \E overdue \in SUBSET DOMAIN sndBuf, elapsed \in {FALSE, Asks(TRUE)} :
          \E kept \in SUBSET Sent(overdue) : FlushSender(overdue, elapsed, kept)
    \/ \E p \in pushes : InputPush(p)
    \/ InputAsk \/ FlushReceiver \/ Recv
    \/ \E reply \in replies : InputReply(reply)

Spec == Init /\ [][Next]_vars

\* The segments accepted and not yet handed over, as the two ends hold them: a
\* numbered one is where the receiver, or else the sender, keeps it.
Outstanding ==
    rcvQueue
    \o [i \in 1..(sndNxt - rcvNxt) |->
           LET sn == rcvNxt + i - 1 IN
           IF sn \in DOMAIN rcvBuf THEN rcvBuf[sn]
           ELSE IF sn \in DOMAIN sndBuf THEN sndBuf[sn].frag
           ELSE [data |-> <<-1>>, frg |-> -1]]
    \o sndQueue

\* Both ends call ikcp_update for ever, resendts and ts_probe pass, the reader
\* reads what it can, and the network does not lose everything for ever.
FairSpec ==
    /\ Spec
    /\ WF_vars(FlushSender(DOMAIN sndBuf, TRUE, Sent(DOMAIN sndBuf)))
    /\ SF_vars(FlushReceiver /\ replies' \ replies # {})
    /\ WF_vars(Recv)
    /\ \A sn \in SNs : SF_vars(\E p \in pushes : p.sn = sn /\ InputPush(p))
    /\ SF_vars(InputAsk)
    /\ SF_vars(\E reply \in replies : InputReply(reply) /\ replies' # replies)

------------------------------------------------------------------------------
(* Properties.                                                             *)

Units == 0..(MaxUnits - 1)

Fragment ==
    [data : {d \in Seq(Units) : Len(d) \in 1..SegLen}, frg : 0..(WndRcv - 2)]

TypeOK ==
    /\ accepted \in 0..MaxUnits
    /\ sndQueue \in Seq(Fragment) /\ rcvQueue \in Seq(Fragment)
    /\ sndUna \in Nat /\ sndNxt \in 0..MaxUnits /\ rcvNxt \in Nat
    /\ DOMAIN sndBuf \subseteq SNs /\ DOMAIN rcvBuf \subseteq SNs
    /\ \A sn \in DOMAIN sndBuf :
          sndBuf[sn] \in [frag : Fragment, xmit : 1..(Greatest(FastLimit, 0) + 1),
                          fastack : 0..FastResend]
    /\ \A sn \in DOMAIN rcvBuf : rcvBuf[sn] \in Fragment
    /\ rmtWnd \in 0..RcvWnd
    /\ cwnd \in Nat /\ incr \in Nat /\ ssthresh \in Nat /\ ssthresh >= ThreshMin
    /\ probing \in BOOLEAN
    /\ ackList \subseteq SNs /\ tell \in BOOLEAN
    /\ pushes \subseteq [sn : SNs, frag : Fragment] /\ asks \in BOOLEAN
    /\ replies \subseteq [acks : SUBSET SNs, una : 0..MaxUnits, wnd : 0..RcvWnd]

\* Data leaves ikcp_recv as it entered ikcp_send, in order, each unit once, and
\* a message as a whole unless in stream mode, whatever the network does (what
\* the header calls a reliable protocol).
RQ == INSTANCE ReliableQueue WITH queue <- Outstanding, Whole <- ~Stream

InOrder == RQ!Spec

\* The sender forgets a segment only when the receiver keeps it: an sn that has
\* left snd_buf was delivered to rcv_queue or lies in rcv_buf.
AckedIsKept ==
    \A sn \in 0..(sndNxt - 1) :
        sn \notin DOMAIN sndBuf => sn < rcvNxt \/ sn \in DOMAIN rcvBuf

\* A full rcv_queue holds a whole message, so that the reader can always make
\* room: otherwise sender and reader would wait for each other for ever.
FullIsReadable == Len(rcvQueue) = RcvWnd => Receivable

\* Every unit accepted is handed over in the end, whatever is lost on the way
\* and also when the rest of its data was refused.
EventuallyDelivered ==
    \A n \in Units :
        LET pending == \E i \in 1..Len(Outstanding) : n \in ToSet(Outstanding[i].data)
        IN  pending ~> ~pending

\* A window found closed is found open again once the reader has made room, even
\* when the report of it is lost.
WindowReopens == rmtWnd = 0 ~> rmtWnd > 0

------------------------------------------------------------------------------
(* The inductive invariant.                                                *)

\* The receiver keeps a segment, or has kept it.
Has(sn) == sn < rcvNxt \/ sn \in DOMAIN rcvBuf

\* Who may hold which numbers.
Numbers ==
    /\ sndUna <= sndNxt /\ rcvNxt <= sndNxt
    /\ sndNxt + Len(sndQueue) <= accepted
    /\ DOMAIN sndBuf \subseteq sndUna..(sndNxt - 1)
    /\ DOMAIN rcvBuf \subseteq rcvNxt..(sndNxt - 1)
    /\ \A p \in pushes : p.sn < sndNxt

\* Neither window is ever exceeded: so many segments are unacknowledged, so many
\* are read in advance, and so many wait for the reader.
Windows ==
    /\ sndNxt <= sndUna + SndWnd
    /\ \A sn \in DOMAIN rcvBuf : InWindow(sn)
    /\ Len(rcvQueue) <= RcvWnd

\* What is acknowledged, or about to be, is kept.
Acknowledged ==
    /\ \A sn \in ackList : Has(sn)
    /\ \A reply \in replies : reply.una <= rcvNxt /\ \A sn \in reply.acks : Has(sn)

\* All copies of a segment are the same.
Copies ==
    /\ \A p \in pushes :
          /\ p.sn \in DOMAIN sndBuf => sndBuf[p.sn].frag = p.frag
          /\ p.sn \in DOMAIN rcvBuf => rcvBuf[p.sn] = p.frag
    /\ \A sn \in DOMAIN sndBuf \cap DOMAIN rcvBuf : sndBuf[sn].frag = rcvBuf[sn]

\* Fragments are numbered down to 0, where a message ends.
Chained(s) ==
    \A i \in DOMAIN s :
        s[i].frg # 0 => i + 1 \in DOMAIN s /\ s[i + 1].frg = s[i].frg - 1

IInv ==
    /\ TypeOK /\ Numbers /\ Windows /\ AckedIsKept /\ Acknowledged /\ Copies
    /\ Chained(Outstanding)

================================================================================
