-------------------------------- MODULE KcpClock --------------------------------
(***************************************************************************)
(* The clock of a KCP control block: ikcp_update, which flushes when it is *)
(* due, ikcp_check, which says when to call it again, and the timers of    *)
(* retransmission and of window probes that a flush looks at.              *)
(*                                                                         *)
(* Times are unsigned and wrap around; _itimediff compares them.  The      *)
(* caller reads its clock, calls ikcp_update and asks ikcp_check for the   *)
(* next call; it may come early, and late by Slack.  Its clock may once be *)
(* set, forward or back.                                                   *)
(*                                                                         *)
(* What is acknowledged, skipped or newly sent, the round trip time and    *)
(* the window of the peer are chosen freely: Kcp has the rules.            *)
(***************************************************************************)
EXTENDS Integers, FiniteSetsExt

CONSTANTS
    ClockRange,    \* 2^32
    SlapLimit,     \* 10000: from there on ts_flush is not believed
    ProbeInit, ProbeLimit,
    Intervals,     \* what ikcp_interval and ikcp_nodelay leave in interval
    Nodelays,      \* what they leave in nodelay: 0, 1 or more
    Rtos,          \* what ikcp_update_ack leaves in rx_rto
    Segs,          \* the segments
    Slack,         \* how late the caller may be
    Ahead, Back,   \* bound: by how much the clock may be set, once
    MaxXmit        \* bound: a segment is acknowledged after so many times

Longest == Max(Intervals)

\* How far rto may get by the n-th transmission: doubled from the largest rx_rto at
\* each time out.
MaxRtoAt[n \in 1..MaxXmit] == IF n = 1 THEN Max(Rtos) ELSE 2 * MaxRtoAt[n - 1]

MaxRto == MaxRtoAt[MaxXmit]

Jumps == Ahead \cup {-n : n \in Back}

\* No time compared is half the range away.
ASSUME ClockAssumption ==
    /\ ClockRange \in Nat /\ ClockRange % 2 = 0
    /\ Intervals \subseteq 1..ClockRange /\ Rtos \subseteq 2..ClockRange
    /\ Nodelays \subseteq Nat /\ SlapLimit \in Nat
    /\ ProbeInit \in Nat \ {0} /\ ProbeLimit \in Nat /\ ProbeInit <= ProbeLimit
    /\ Slack \in Nat \ {0} /\ MaxXmit \in Nat \ {0}
    /\ Ahead \subseteq 1..ClockRange /\ Back \subseteq 1..ClockRange
    /\ Max({MaxRto + MaxRto \div 8, ProbeLimit, SlapLimit}) + Longest + Slack + Max({0} \cup Ahead \cup Back)
           < ClockRange \div 2

VARIABLES
    now,           \* the caller's clock
    updated,       \* whether ikcp_update was called
    tsFlush, interval, nodelay, rxRto,
    sndBuf,        \* snd_buf: segment -> resendts, rto, xmit and its real age
    closed,        \* rmt_wnd = 0
    tsProbe, probeWait,
    left,          \* time until the caller will call again; below 0: it is late
    idle,          \* real time since the last flush
    armed,         \* real time since the window closed or ts_probe was set
    silent,        \* real time since the window closed or the peer was asked for it
    jump           \* by how much the clock was set

settings == <<interval, nodelay>>
timers   == <<tsFlush, sndBuf, tsProbe, probeWait>>
caller   == <<left, idle, armed, silent, jump>>
vars     == <<now, updated, settings, rxRto, closed, timers, caller>>

Init ==
    /\ now \in 0..(ClockRange - 1) /\ updated = FALSE
    /\ tsFlush = 0 /\ interval \in Intervals /\ nodelay \in Nodelays
    /\ rxRto \in Rtos /\ sndBuf = <<>>
    /\ closed = FALSE /\ tsProbe = 0 /\ probeWait = 0
    /\ left = 0 /\ idle = 0 /\ armed = 0 /\ silent = 0 /\ jump = 0

------------------------------------------------------------------------------
(* Time.                                                                   *)

\* Mutant: times are compared as numbers.
DiffByValue(later, earlier) == later - earlier

\* _itimediff: the difference as a signed number.
Itimediff(later, earlier) ==
    LET d == (later - earlier) % ClockRange IN
    IF d < ClockRange \div 2 THEN d ELSE d - ClockRange

After(time, n) == (time + n) % ClockRange

Due(s) == Itimediff(now, sndBuf[s].resendts) >= 0

\* The bound on transmissions: the acknowledgement comes before the next one.
Exhausted == \E s \in DOMAIN sndBuf : sndBuf[s].xmit = MaxXmit /\ Due(s)

Aged == [s \in DOMAIN sndBuf |-> [sndBuf[s] EXCEPT !.age = @ + 1]]

Tick ==
    /\ updated /\ left > -Slack
    /\ now' = After(now, 1)
    /\ left' = left - 1 /\ idle' = idle + 1
    /\ sndBuf' = Aged
    /\ armed' = IF closed THEN armed + 1 ELSE 0
    /\ silent' = IF closed THEN silent + 1 ELSE 0
    /\ ~Exhausted'
    /\ UNCHANGED <<updated, settings, rxRto, closed, tsFlush, tsProbe, probeWait,
                   jump>>

SetClock ==
    /\ updated /\ jump = 0
    /\ jump' \in Jumps
    /\ now' = After(now, jump')
    /\ UNCHANGED <<updated, settings, rxRto, closed, timers, left, idle, armed, silent>>
    /\ ~Exhausted'

------------------------------------------------------------------------------
(* ikcp_flush at time now.                                                 *)

\* The rto of a segment that timed out.
Backoff(rto) ==
    CASE nodelay = 0 -> rto + Max({rto, rxRto})
      [] nodelay = 1 -> rto + rto \div 2
      [] OTHER       -> rto + rxRto \div 2

\* The first time out of a segment is an eighth longer unless nodelay is set.
First ==
    [resendts |-> After(now, rxRto + (IF nodelay = 0 THEN rxRto \div 8 ELSE 0)),
     rto |-> rxRto, xmit |-> 1, age |-> 0]

Again(seg, rto) ==
    [resendts |-> After(now, rto), rto |-> rto, xmit |-> seg.xmit + 1, age |-> 0]

\* A segment is sent when it is new, overdue, or else skipped often enough.
Resend(new, skipped) ==
    [s \in DOMAIN sndBuf \cup new |->
        IF s \in new THEN First
        ELSE IF Due(s) THEN Again(sndBuf[s], Backoff(sndBuf[s].rto))
        ELSE IF s \in skipped THEN Again(sndBuf[s], sndBuf[s].rto)
        ELSE sndBuf[s]]

\* Mutant: the pause between probes grows without limit.
LongerForEver(pause) == pause + pause \div 2

Longer(pause) == Min({pause + pause \div 2, ProbeLimit})

ProbeDue == probeWait # 0 /\ Itimediff(now, tsProbe) >= 0

SetProbe(pause) == probeWait' = pause /\ tsProbe' = After(now, pause) /\ armed' = 0

\* Mutant: a probe that is due is put off, and IKCP_ASK_SEND is not set.
PutOff == SetProbe(ProbeInit) /\ silent' = silent

\* The pause is over: IKCP_ASK_SEND is set, and this flush sends the question.
Ask == SetProbe(Longer(probeWait)) /\ silent' = 0

\* The first flush that finds the window closed only sets the timer; the peer is
\* asked when it has run out, again and again.
Probe ==
    IF ~closed
    THEN tsProbe' = 0 /\ probeWait' = 0 /\ armed' = 0 /\ silent' = 0
    ELSE IF probeWait = 0 THEN SetProbe(ProbeInit) /\ silent' = silent
    ELSE IF ProbeDue THEN Ask
    ELSE UNCHANGED <<tsProbe, probeWait, armed, silent>>

Flush ==
    /\ \E new \in SUBSET (Segs \ DOMAIN sndBuf), skipped \in SUBSET DOMAIN sndBuf :
          /\ closed => new = {}
          /\ \A s \in skipped : sndBuf[s].xmit < MaxXmit
          /\ sndBuf' = Resend(new, skipped)
    /\ Probe
    /\ idle' = 0

------------------------------------------------------------------------------
(* ikcp_update and ikcp_check.                                             *)

\* Mutant: only a clock that went ahead is noticed.
FarAhead(slap) == slap >= SlapLimit

Unbelievable(slap) == slap >= SlapLimit \/ slap < -SlapLimit

\* ts_flush as ikcp_update and ikcp_check take it: now, if it is far away.
Believed(time) == IF Unbelievable(Itimediff(now, time)) THEN now ELSE time

NextFlush(time) ==
    IF Itimediff(now, After(time, interval)) >= 0
    THEN After(now, interval) ELSE After(time, interval)

\* The time until the call that ikcp_check asks for.
UntilNextCall(flushAt, buf) ==
    LET waits == {Itimediff(Believed(flushAt), now)}
                 \cup {Itimediff(buf[s].resendts, now) : s \in DOMAIN buf}
    IN  Max({0, Min(waits \cup {interval})})

\* One turn of the caller: ikcp_update(now), then ikcp_check(now).
Update ==
    LET due == IF updated THEN Believed(tsFlush) ELSE now IN
    /\ updated' = TRUE
    /\ IF Itimediff(now, due) >= 0
       THEN tsFlush' = NextFlush(due) /\ Flush
       ELSE tsFlush' = due /\ UNCHANGED <<sndBuf, tsProbe, probeWait, idle,
                                          armed, silent>>
    /\ left' = UntilNextCall(tsFlush', sndBuf')
    /\ UNCHANGED <<now, settings, rxRto, closed, jump>>

\* ikcp_input: acknowledgements, the round trip time they give and the window.
Input ==
    /\ \E acked \in SUBSET DOMAIN sndBuf :
          /\ sndBuf' = [s \in DOMAIN sndBuf \ acked |-> sndBuf[s]]
          /\ rxRto' \in IF acked = {} THEN {rxRto} ELSE Rtos
    /\ closed' \in BOOLEAN
    /\ armed' = IF closed THEN armed ELSE 0
    /\ silent' = IF closed THEN silent ELSE 0
    /\ UNCHANGED <<now, updated, settings, tsFlush, tsProbe, probeWait,
                   left, idle, jump>>

\* ikcp_interval and ikcp_nodelay.
Configure ==
    /\ interval' \in Intervals /\ nodelay' \in Nodelays
    /\ UNCHANGED <<now, updated, rxRto, closed, timers, caller>>

Next == Tick \/ SetClock \/ Update \/ Input \/ Configure

Spec == Init /\ [][Next]_vars

------------------------------------------------------------------------------
(* Properties.                                                             *)

Times == 0..(ClockRange - 1)

SetBack  == Max({0, -jump})
SetAhead == Max({0, jump})

\* A segment counts as lost, and its time out grows, only when that time out has
\* really passed, also where the clock wraps around; a clock set ahead by n can
\* cut it short by n.
NoEarlyTimeout ==
    [][\A s \in DOMAIN sndBuf \cap DOMAIN sndBuf' :
          sndBuf'[s].rto > sndBuf[s].rto
              => sndBuf[s].age + SetAhead >= sndBuf[s].rto]_vars

\* A segment is sent again at the first flush after its time out, and following
\* ikcp_check does not delay that flush; a clock set back by n may, by n.
ResentInTime ==
    \A s \in DOMAIN sndBuf :
        sndBuf[s].age <= sndBuf[s].rto + sndBuf[s].rto \div 8
                         + Longest + Slack + SetBack

\* A caller that follows ikcp_check has a flush in every interval; a clock set
\* back does not hold the flushes up for longer than the limit of ikcp_update.
FlushKeepsUp == idle <= Longest + Slack + Min({SetBack, SlapLimit + Slack})

\* As long as the window is closed the peer is asked for it: never does more than
\* IKCP_PROBE_LIMIT go by without a question (kcp.cpp:986), and two intervals, one
\* to notice the closed window and set the timer, one to find that it has run out;
\* a clock set back by n costs n more.
ProbeKeepsAsking == silent <= ProbeLimit + 2 * (Longest + Slack) + SetBack

------------------------------------------------------------------------------
(* The inductive invariant.                                                *)

Segment == [resendts : Times, rto : Nat \ {0}, xmit : 1..MaxXmit, age : Nat]

TypeOK ==
    /\ now \in Times /\ updated \in BOOLEAN
    /\ tsFlush \in Times /\ interval \in Intervals /\ nodelay \in Nodelays
    /\ rxRto \in Rtos
    /\ DOMAIN sndBuf \subseteq Segs /\ sndBuf \in [DOMAIN sndBuf -> Segment]
    /\ closed \in BOOLEAN /\ tsProbe \in Times /\ probeWait \in 0..ProbeLimit
    /\ left \in Int /\ left >= -Slack
    /\ idle \in Nat /\ armed \in Nat /\ silent \in Nat /\ jump \in Jumps \cup {0}

\* Before the first ikcp_update nothing is timed.
NotStarted ==
    /\ DOMAIN sndBuf = {} /\ probeWait = 0
    /\ left = 0 /\ idle = 0 /\ armed = 0 /\ silent = 0 /\ jump = 0

\* No segment is due at the bound, and none has been backed off further than its
\* transmissions allow.
Bounded ==
    /\ ~Exhausted
    /\ \A s \in DOMAIN sndBuf : sndBuf[s].rto <= MaxRtoAt[sndBuf[s].xmit]

Until(time) == Itimediff(time, now)

\* The next flush comes within an interval of the last, and the caller comes by then.
\* A timer set before the clock was set is off by jump: this is o, here and below.
FlushSet(o) ==
    /\ left <= Until(tsFlush) + o
    /\ idle + Until(tsFlush) + o <= Longest

\* ikcp_update saw that ts_flush is ahead, and believed in it.
FlushDelayed ==
    /\ left <= Until(tsFlush)
    /\ idle + Until(tsFlush) <= Longest + Min({SetBack, SlapLimit + Slack})

\* A segment is due when its time out has passed, one still to come at the last
\* flush (where p is how the clock was changed since).
SegSet(s, o, p) ==
    /\ \E t \in {sndBuf[s].rto, sndBuf[s].rto + sndBuf[s].rto \div 8} :
          Until(sndBuf[s].resendts) = t - sndBuf[s].age - o
    /\ Until(sndBuf[s].resendts) + p + idle > 0

\* How long a closed window may go unnoticed; a timer that is off was set before
\* the clock was.
Unnoticed(o) ==
    Longest + Slack + (IF o = 0 THEN Min({SetBack, SlapLimit + Slack}) ELSE 0)

ProbeSet(o, p) ==
    probeWait # 0 =>
        /\ Until(tsProbe) <= probeWait - armed - o
        /\ Until(tsProbe) + p + idle > 0
        /\ silent <= armed + Unnoticed(o)

\* Each timer is off by one of offs.
TimersSet(offs, p) ==
    /\ \A s \in DOMAIN sndBuf : \E o \in offs : SegSet(s, o, p)
    /\ \E o \in offs : ProbeSet(o, p)

\* Since the clock was set there was no flush.
SetSinceFlush == (FlushSet(jump) \/ FlushDelayed) /\ TimersSet({jump}, jump)

\* Since then there was one: ts_flush is right again, other timers may not be.
FlushedSinceSet == FlushSet(0) /\ TimersSet({0, jump}, 0)

IInv ==
    /\ TypeOK
    /\ ~updated => NotStarted
    /\ Bounded
    /\ probeWait = 0 => armed <= idle /\ silent <= idle
    /\ updated => SetSinceFlush \/ FlushedSinceSet

================================================================================
