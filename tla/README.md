# Tokus Tangent: specifications, model checking and proofs

Tokus Tangent is a VCV Rack plugin with which two Rack instances exchange audio
over a network. This directory holds TLA+ specifications of the plugin, the TLC
configurations that check them on small instances, and theorems about them with
proofs checked by TLAPS. Paths such as `Server.cpp` are relative to `src/src/`.

## 1. The system

| Component | State | Operations | Hard behaviour |
|---|---|---|---|
| Server module: `RadioServer.cpp`, `Server.cpp` | `moduleState`, `errorCounter`; the flags `running`, `connected`, `negotiating`, `errorState`; `serverSocket`, `clientSocket`; `blockSize`, channel counts | `process()` once per sample on Rack's audio thread; `startListen`, `stop`; `ServerLoop` on a detached thread per session | Unlocked flags shared by two threads, several early returns, one socket per object used by successive threads, retry after a failure |
| Client module: `RadioClient.cpp`, `Client.cpp` | the same without `negotiating`, plus `bufferSize`; a receive timeout on the socket | `process()`, `connectToHost`, `clientLoop` on a detached thread per attempt | As above; a failed `connect` that goes on to negotiate; a wait for buffer room that looks at no flag |
| Audio exchange: both loops, `pushData`, `getData`, `network.h` | at each end `inputBuffer`, `outputBuffer`, local and remote channel counts; packets on the way | one block from the server, one reply from the client, in turn; cable changes relabel and empty the buffers | Locked and unlocked accesses interleave; the block after a header carries no mark of its own |
| KCP: `kcp.cpp`, `ikcp.h` (vendored) | send and receive queues and buffers, `snd_una`, `snd_nxt`, `rcv_nxt`, windows, acknowledgement list, probe state | `ikcp_send`, `ikcp_recv`, `ikcp_input`, `ikcp_flush`, `ikcp_update`, `ikcp_check`, setters | Loss, repetition and reordering of datagrams, retransmission, closed windows |
| Panels and widgets | text fields for host, port, block and buffer size; lights | drawing, JSON of the fields | what the fields say enters the sessions as a free input |
| `RadioDelay.cpp`, `plugin.cpp` | none | an empty stub; registration at load | none |

The pieces meet in three ways. `process()` calls into `Server` or `Client` and
reads their flags; the detached thread sets the flags and moves frames between the
buffers and the socket; the two threads of a connection exchange packets. Of
KCP the program calls only `ikcp_create` (`Client.cpp:174`) and never uses the
result: the connection is meant to be a stream. It is modelled because it is
part of the repository and the transport the program was being moved to.

What makes each part correct: a session has one network thread, its flags tell the
truth, nothing is changed without its lock while the other thread uses it, and
after a failure the module comes back to where it can be used; the exchange
neither deadlocks nor loses its framing, and plays frames in order and with the
channel count they were read with; KCP delivers messages whole, once
and in order, within its windows, and in the end.

## 2. The modules

| Module | Models | Run by |
|---|---|---|
| `ServerSession` | one Server module: audio thread against `ServerLoop` threads | `MCServerSession` |
| `ServerSessionProofs` | theorems about it | TLAPS |
| `ClientSession` | one Client module: audio thread against `clientLoop` threads, with time | `MCClientSession` |
| `ClientSessionProofs` | theorems about it | TLAPS |
| `Stream` | one established connection: four threads, four deques, two byte streams | `MCStream` |
| `StreamProofs` | theorems about it | TLAPS |
| `LossyFifo` | what one direction of `Stream` promises | `INSTANCE` in `Stream` |
| `Kcp` | one direction of a KCP conversation over a lossy network, in message and stream mode | `MCKcp` |
| `ReliableQueue` | what `Kcp` promises | `INSTANCE` in `Kcp` |
| `KcpProofs` | theorems about `Kcp` | TLAPS |
| `KcpClock` | `ikcp_update`, `ikcp_check` and the timers, against a clock that wraps around | `MCKcpClock` |
| `KcpClockProofs` | theorems about it | TLAPS |
| `ReceiveBuffer` | `rcv_buf` and `rcv_queue` as lists in memory, with `sn` that wraps around | `MCReceiveBuffer` |
| `ReceiveBufferProofs` | theorems about it | TLAPS |
| `IQueue` | the intrusive lists of `ikcp.h` | extended by `ReceiveBuffer` |
| `Reorder` | what `ReceiveBuffer` promises | `INSTANCE` in `ReceiveBuffer` |
| `KcpWire` | the header of a segment as bytes, with theorems about it | TLAPS |
| `Facts` | lemmas about sets, sequences and numbers that several proofs cite | TLAPS |

The sessions and the stream are separate because they vary independently: a session
knows of a block only how long the buffers are, the stream knows nothing of
failures, after which the session empties both buffers. The modules of KCP divide
one control block in the same way: `Kcp` has the protocol and leaves time and
memory out, `KcpClock` has time and leaves open what is acknowledged and what is
new, `ReceiveBuffer` has the memory of the receiving end and leaves open what the
network brings, `KcpWire` has the bytes.

### ServerSession

An action is the code between two points where the other thread can make a
difference: a blocking socket call, a store to a shared flag, a critical section.
`pc[t]` says where thread `t` stands in `ServerLoop`: `open` and `bind` (lines
145-180), `accept` (182), `decide` and `negotiate` (192-198, `negotiateSettings`),
`loop`, `send`, `recv`, `store` (204-305), `exit` and `flag` (307-313). The
actions `Process...` are one call of `RadioServer::process` each, by the state it
is called in; `ProcessNotConnected` and `ProcessStart` are the two halves of
`startListen`, because the thread may still reset `running` between the stores
to the flags and the test of `running`. Every failure the code tests for is an
action; `Faults` says which may happen. A failed `socket` takes `setsockopt` with it
(`SocketFails`); a `setsockopt` that fails on a good socket is a failure of its own
(`OptionFails`), after which the thread goes on to an `accept` that may succeed
although `errorState` is set. `optionsSet` says that this has not happened yet.

Sockets keep what later calls can notice: `serverSocket` is closed, unbound,
listening or shut; `peer` is how this end sees the connection. A `recv` that
returns 0 is not an error for the code and is an action of its own
(`ReceivedNothing`). The port is one of `Ports`; `Refused` tests it as the code does,
after `htons` has swapped its two bytes (`Server.cpp:157`).

### ClientSession

`pc[t]` follows `clientLoop` in the same way. Time is counted in calls of
`process()`: `waited[t]` grows while a thread is blocked in `recv`, and `Tick`
makes a `recv` return no later than its five seconds. So the race between the
receive timeout and the eight seconds in `ERROR_STATE` is part of the model, on
which `OneClientThread` depends. `connectToHost` refuses a `BadPort` and tells
nobody.

### Stream

A frame is its number in the order of capture and its channel count; once received it
also has the count it was read as (`as`), that of the header before its block. A deque
is a sequence whose head is its back. `Audio(e)` is the audio thread of an end:
`getData`, then `pushData`, whose emptying of the buffer for want of a cable, push,
store of the channel count and clearing of both buffers are four steps, as they are in
the code. The network threads take a step per lock, unlocked store and socket call; in
particular the channel count of a header is read in one step (`ServerBegin`,
`ClientLabel`) and the frames are popped in a later one. `replugged` records that the
cable was changed between the two, or was not yet quite changed at the first. `Adopt`,
`Flush`, `ReceiveBlock` and `StoreFrame` are code both loops have; the rest is one
end's.

### Kcp

The sender's state is `snd_queue`, `snd_buf` with the retransmission state of each
segment, `snd_una`, `snd_nxt`, `rmt_wnd`, the congestion window with `incr` and
`ssthresh`, and whether a window probe is armed; the receiver's is `rcv_queue`,
`rcv_buf`, `rcv_nxt`, the acknowledgement list and the request to tell its window.
One action is one call: `ikcp_send`, `ikcp_flush` at either end, `ikcp_input`
at either end by kind of segment, `ikcp_recv`. The network loses datagrams as
they are sent (`kept`, `Carried`), delivers them in any order, and may deliver
them again. Which timers have passed is chosen at each flush.

Data is a sequence of units. In message mode `ikcp_send` cuts what it is given into
numbered fragments, or refuses all of it. In stream mode it first fills the last
segment of `snd_queue` up (`Extension`) and may then refuse the rest
(`kcp.cpp:510`): `accepted` holds what it really took. `ReliableQueue` says, of both
modes, that what was taken comes out in order, and in message mode in whole
messages.

### KcpClock

The caller reads its clock, calls `ikcp_update`, and calls again when `ikcp_check`
says, or earlier, or up to `Slack` later; both calls are one action, `Update`.
Times are taken modulo `ClockRange` and compared by `Itimediff`. `Flush` is the part
of `ikcp_flush` that looks at the clock: which segments are due and their next
time out, and the window probe. Beside the variables of the code, each segment has
the real time since it was sent (`age`), and the model counts the real time since
the last flush (`idle`), since `ts_probe` was last set (`armed`), and, while the window
is closed, since the peer was last asked for it, or since the window closed if it has
not been asked yet (`silent`). The flush that finds the window closed only sets the
timer and asks nothing (`kcp.cpp:972`); `Ask` alone resets `silent`. `SetClock` sets the caller's clock once, forward or back; `jump` keeps
by how much, so that the properties can say what it costs.

### ReceiveBuffer

`IQueue` has the macros of `ikcp.h` as functions on a ring, a record of the links
`next` and `prev`. `Input` is `ikcp_parse_data` for a segment of any number the sender
may be at, or an old one: the walk from the tail of `rcv_buf` to its place
(`Place`), the test for a repetition, the insertion, and the move of what has
become available. `Recv`, `SetWindow` and `Release` are `ikcp_recv`, `ikcp_wndsize`
and `ikcp_release`. Nodes come from a pool and go back to it. A segment is known
by its number, which does not wrap; the code sees only `number % SnRange`.

### KcpWire

`Encode` is `ikcp_encode_seg`, `Decode` the reading at the head of the loop of
`ikcp_input`. It is constant-level: there is nothing to run.

## 3. What is checked

| Run | Question | Result |
|---|---|---|
| `server_session` | all failures, refused ports and failed `setsockopt` included, in every order with `process()` and the user | holds |
| `server_available` | does the module with a cable always come back, when `accept` and links fail? | holds |
| `server_negotiation_lost` | and when a client is lost during the negotiation? | violated |
| `server_as_built` | does CONNECTED mean that a client was accepted, with the socket the code opens? | violated |
| `client_session` | all failures and refused ports, in every order with `process()` and time; is every attempt resolved, a silent server left, the wait for room ended? | holds |
| `client_bad_port` | is every visit to CONNECTING resolved, with a port that is refused? | violated |
| `stream` | turn taking, framing, headers that tell the truth, order in both directions under cable changes | holds |
| `stream_live` | is every block answered and the answer stored? | holds |
| `kcp` | message mode: order and integrity over a bad network; can a full queue always be read? | holds |
| `kcp_live` | stream mode: delivery of all that was taken, and reopening of a closed window | holds |
| `kcp_clock` | does following `ikcp_check` ever miss a flush, a time out or a probe, and does a time out ever strike early? | holds |
| `kcp_buffers` | do lists, counters and memory agree, and are segments put in order, where `sn` wraps and the window changes? | holds |

The violated runs are defects of the code:

- *Negotiation lost.* `negotiateSettings` fails without resetting `negotiating`,
  and in NEGOTIATING `process()` does not look at `errorState`. The module stays
  in NEGOTIATING without a thread.
- *As built.* The server opens a datagram socket, on which `accept` cannot
  succeed. The failure sets `errorState`, and `errorState` makes the thread skip
  the negotiation (`Server.cpp:192`) and raise `connected`. `AcceptsClients`
  says whether `accept` can succeed; the other server runs set it TRUE, because
  the code after `accept` is written for a stream socket.
- *Bad port.* `connectToHost` refuses some ports, nobody looks at its result, and
  the module stays in CONNECTING.

Observed, without a run of its own:

- A failed `bind` returns with `running` set and no error (`Server.cpp:169`). The
  module stays in LISTENING, and `startListen` would not start another thread. A
  failed port check has the same effect on `running`, but sets `errorState`
  (`Server.cpp:161`); the module retries once and then stays in LISTENING too. A failed
  `socket` ends in a failed `bind`. `LeavesNotRunning` says that no return after
  `listen` does this and excepts these two; `server_available` leaves the failures out.
- A failed `setsockopt` on a good socket sets `errorState` and goes on
  (`Server.cpp:154`). If `accept` then succeeds, either the client is not negotiated
  with, or, when the module has retried meanwhile and cleared `errorState`, the thread
  negotiates beside a module that does not expect it, and a second thread may start.
  Without the condition `optionsSet`, TLC finds `OneServerThread`,
  `NoUnlockedClearRace`, `AcceptsOnCleanSocket`, `LoopRuns`,
  `NegotiatesWithEveryClient` and `LeavesNotRunning` violated.
- A cable changed between the reading of the channel count for a header
  (`Server.cpp:211`, `Client.cpp:290`) and the popping of the frames gives a block that
  is read with the wrong count. `LabelsMatch` says that nothing else does.
- A server without a cable never has more than one frame and sends nothing; its
  client gives up while it keeps showing CONNECTED (`Server.cpp:205`).
- The server checks its port with the two bytes swapped: it refuses the ports
  whose low byte is below four, such as 256 or 1024, and accepts 80 (`Server.cpp:159`,
  theorem `RefusedPorts`).
- The waits in ERROR_STATE last eight seconds where the comments say five
  (`RadioServer.cpp:243`, `RadioClient.cpp:223`).
- The server empties its buffers after every empty reply, since four times nothing
  is less than any captured frame (`Server.cpp:270`).
- In stream mode a caller cannot tell a refusal of all its data from one of the
  rest: `ikcp_send` returns -2 in both cases (`kcp.cpp:510`).
- `ikcp_check` may name the time out of a segment that comes before the next flush.
  From then until the flush `ikcp_update` does nothing and `ikcp_check` answers
  "now", although it is there to save such calls (`kcp.cpp:1178`).
- Without `nodelay` the time out of a segment doubles without limit; starting from
  `IKCP_RTO_MAX` it passes 2^31, and then lies in the past, before `dead_link`
  counts twenty (`kcp.cpp:1062`).
- `ikcp_update` believes in a `ts_flush` up to ten seconds ahead. After a clock was set
  back by less, nothing is flushed until it has caught up (`kcp.cpp:1159`); the time
  outs and the probe wait as long as the clock was set back, whatever that is.

### Bounds

- *Sessions.* `SampleRate = 1`: one sample stands for a second, which keeps the
  order of the waits of five and eight seconds. Two threads: as many as are needed
  for an old one to meet a new one. Lengths are exact up to `MaxIn` or `MaxOut`,
  above every threshold the code compares them with. Block and buffer sizes
  include a negative one and zero, because the code compares `size_t` with `int`.
- *Stream.* Channel counts 0 (no cable), 1 and 2, so that every kind of change
  happens; three frames captured at each end with blocks of one frame, enough for
  three rounds, a backlog and a reply longer than the block. `FloatSize`,
  `ReplySlack` and `BacklogFactor` are 1 instead of 4, 64 and 4: they bring the
  thresholds within reach. `stream_live` drops the stereo cable.
- *Kcp.* Four fragments, in messages of two; the receive window holds three, so
  that it fills with half a message at its end; a message of four is refused.
  One datagram of acknowledgements is in flight at a time, but may be kept,
  repeated and overtaken by lost ones. `FastLimit` is 0, which the code takes as
  no limit. `kcp_live` sends writes of one and of four units in segments of two, so
  that a write fills up a segment that waits, and one is refused after its head
  was taken; the receive window holds two segments and closes.
- *KcpClock.* The clock wraps after 28, twice what the longest time compared adds up
  to and therefore the least `ClockAssumption` allows, and starts anywhere. One
  segment is enough: the code looks at each on its own and `ikcp_check` takes the
  least. It may time out once and be skipped; the window closes and opens freely;
  both kinds of back-off, a change of settings at any time. `SlapLimit` is 4, below
  both jumps of the clock, so that `ts_flush` is repaired on either side of it.
- *ReceiveBuffer.* Sequence numbers wrap after 16, segments are numbered up to 20.
  Windows of two and three, changed at any time; segments up to four behind.
  Seven nodes: two full lists and the segment that just came.

### Assumptions and fairness

- The flags are plain `bool` members used by two threads. The model takes each
  access as atomic.
- `Settled`: eight seconds are longer than the few statements a thread executes
  between two calls that may block.
- Fairness of `process()`: Rack calls it for every sample. Fairness of the
  network threads: the system schedules them. Neither includes the success of a
  call that depends on the other side (`Driven` leaves those out), nor faults,
  nor anything the user does.
- The liveness of `client_session` needs no more than that: every failure remains
  possible at every attempt. `AttemptResolves` speaks of attempts that were
  started, that is with `running` up.
- `Stream` assumes a client that answers. The server's `recv` has no timeout:
  against a live client that stays silent it waits for ever.
- `Kcp`: both ends keep calling `ikcp_update`, timers pass, the reader reads, and
  a datagram sent again and again arrives in the end. Without the last,
  nothing could be delivered.
- `KcpClock` has no fairness: its properties bound how long something may take as
  long as the caller is not later than `Slack`.
- `ReceiveBuffer`: `malloc` does not fail, the nodes it can return are finitely many,
  windows are not larger than the range of sequence numbers, and no two sequence
  numbers that are compared are half the range apart (`BufferAssumption`).

## 4. What is proved

Every theorem holds for every value of the constants that satisfies the assumption
of its module. `IInv`, in the modules that have one, is the inductive invariant; TLC
confirmed it on the configurations of the runs before it was proved.

| Theorems | In | Of |
|---|---|---|
| the safety properties of the sessions' runs | `ServerSessionProofs`, `ClientSessionProofs` | a session each |
| `TypeCorrect`, `TakeTurns`, `StaysFramed`, `LabelsAreTrue`, `OutputIsUniform`, `StaysOrdered`, `ServerToClient`, `ClientToServer` | `StreamProofs` | all safety of `Stream`, both refinements |
| `TypeCorrect`, `Kept`, `WindowsHold`, `Readable`, `DeliversInOrder` | `KcpProofs` | all safety of `Kcp`, the refinement |
| `FlushesOnTime`, `ResendsInTime`, `ProbesKeepComing`, `NeverTooEarly` | `KcpClockProofs` | all properties of `KcpClock` |
| `TypeCorrect`, `StaysLinked`, `StaysSorted`, `PutsInOrder` | `ReceiveBufferProofs` | all properties of `ReceiveBuffer`, the refinement |
| `RoundTrip`, `WideWindowReadsClosed` | `KcpWire` | the header |

### The sessions

`IInv` is needed because none of the properties is inductive. `OneServerThread`, for
instance, needs to know that `running` is up whenever a thread is alive and a new
one could be started; that is false for a thread in `exit` or `flag`, for which
the proof uses `Settled`, and for one that has returned early with `running` set,
where it does no harm. `ThreadInv(t)` therefore says, for each place in the loop,
which flags and module states go with it; the rest of `IInv` is type
correctness and the properties that help each other. For the client the place
that matters is `negotiate` after a failed `connect`: `running` is down, and only
`errorCounter <= waited[t]` shows that the receive timeout comes first.

The proof that a step preserves `IInv` has one step per action. `TypeInductive`
treats types on their own, so that the main proof can use them on both sides.
`NegotiatesWithEveryClient` is an action property and follows from `IInv` before
the step, and so does `LeavesNotRunning` (`ListenersLeaveCleanly`). In the server's
`IInv` only the types and `ConnectedIsServed` are unconditional: they have an induction
of their own (`ServedInductive`), since after a failed `setsockopt` nothing else is left
to lean on. The rest, and the properties that follow from it, are stated under
`optionsSet`. `RefusedPorts` says which ports the server refuses of those the client
lets pass: the ones whose low byte is below four.

### The stream

`IInv` is proved in four layers, each inductive with the help of the ones before it:
types; `Control` (who stands where, `Lockstep`, what is in the wires, `Framing`);
`Labels` (all frames of a buffer have one channel count, in `inputBuffer` their own and
in `outputBuffer` the one they were read with); and last `ReadInv` with `Carried`, which
together say `LabelsMatch`. `ReadInv` ties the count in the header to `localSettings`
while a block is prepared, so that by `UniformInput` the frames that will be popped have
it; `Carried` is the same of the blocks on the wire. A thread that reads the count anew
finds the wire empty, by `Lockstep`, so that nothing old there has to agree with it.

The two refinements of `LossyFifo` need `OrderInv`: the frames on one way lie in four
places, the receiver's `outputBuffer`, the block it stores, the last packet in its
wire and the sender's `inputBuffer`, and read in this order their numbers ascend from
the one played last to the one captured last. Each step of the system moves frames on
each way by one of six moves (frames are dropped or left alone, played, captured,
shipped, received or stored: `EveryStepMoves`); the moves keep the order (`MovesKeepOrder`), and as
seen by the abstract specification they play a later frame or change nothing
(`MovesAreFifo`). The ways are the same for both directions, so that each move is
treated once.

### KCP

The part of `IInv` called `Core` says who may hold which numbers, what the windows
bound, that what is acknowledged, or will be by an acknowledgement not yet delivered,
is kept by the receiver, and that all copies of a segment are equal. The last two
carry `AckedIsKept`: the sender forgets a segment when an acknowledgement arrives,
perhaps long after it was written. `FullIsReadable` follows from the types: `ikcp_send`
numbers no fragment as high as the least receive window, so that a full queue holds
the rest of the message at its head. `Chained` completes `IInv`: what is outstanding,
from the head of `rcv_queue` to the tail of `snd_queue`, is numbered down to 0 in every
message.

`Outstanding` takes each segment from wherever it is. `OutstandingSegments` lays them
out by number once; after that every action is shown to drop `k` of them at the head
(`Drops(k)`, with `k` zero for all but `Recv`), and only `Send` appends. For the
refinement of `ReliableQueue` it remains that the data of what `Send` appends are the
units it accepted (`FragmentsHold`, and `ExtendedHolds` for the segment stream mode
fills up), and that what `Recv` takes is one message (`MessageIs`, `RecvLeaves`).
`Windows` is not a property of a run: it bounds the three queues by the constants.

`FlattenSeq` is recursive. What the proofs need of it, and of `MaxRtoAt` below, is
shown by induction over a set of numbers (`SetInduction` in `Facts`): the library's
theorem takes an operator as its parameter and cannot be cited.

### The clock

A timer is a time modulo `ClockRange`; what is compared is its distance to `now`, which
`DiffIs` identifies with a difference of real times as long as that is less than half
the range. The invariant therefore speaks of distances (`Until`): that of a segment is
its time out less its age, unless the clock was set since, and then it is off by
`jump`. Two phases follow one another. Until the first flush after the clock was set
(`SetSinceFlush`) all timers are off by `jump`, and `ts_flush` may besides have been
believed though it lay ahead (`FlushDelayed`). After it (`FlushedSinceSet`) `ts_flush`
is right, and each other timer is either off by `jump` or set anew. The four properties
bound how late or early a timer may be in either phase. A timer that passes is dealt
with at the next flush; therefore each was still to come at the last one, and `idle`,
the time since, bounds how far it can lie in the past.

`ClockAssumption` asks that the longest time, the longest time between two flushes
and the jump stay together below half the range: without it a distance could change
its sign. That the sets of intervals, time outs and jumps are bounded, which 32 bits
make true in the code, gives them greatest elements (`MaxIs`).

### The receive buffer

The links of all nodes are one record of two functions; what makes them two lists is
`Holds(ring, b, q)`: there are sequences `b` and `q` of distinct nodes, without a
common one, whose nodes are linked in that order through `Buf` and through `Que`, and
every other node is unlinked. `IInv` says that the lists `Nodes` reads off the links
are such sequences, that they hold the nodes in use and the counters their lengths,
`BufSorted`, and that the numbers in `rcv_queue` are those just below `rcv_nxt`
(`Waiting`), which `InOrder` needs. `Sound` says the same of any links, numbers and
counters, so that it can be used in the middle of a call: `ikcp_recv` drops nodes
first and then moves others.

The proof climbs from the macros to the calls. `FrontUnlinked` and `NodeLinked` say what
`iqueue_del` and `iqueue_add` do to one list, `BufShrinks`, `QueShrinks`, `BufGrows`
and `FrontMoves` what they do to both. `NodesAre` shows that a walk along `next`
yields the list, `PlaceIs` that the walk from the tail of `rcv_buf` stops after the last
number not above the new one and finds a repetition if there is one. The code compares
only `sn`; that this compares the numbers is `SnDistance`, which holds as long as they
are less than half the range apart (`SameSn` for equality), and therefore `PlaceIs`
needs `BufSorted`. `MovedIs` says where the loop at the end of `ikcp_parse_data`
stops: after the first `j` nodes of `rcv_buf`, which hold just the next `j` numbers,
because the next number is missing or `rcv_queue` is full.

From that, `MoveKeeps` shows that the invariant holds after the loop, and
`GoesAdvances` that the loop is `Advance` of `Reorder`. What is left for each call is
to show that it starts the loop in a sound state: with the new node at its place and
the new number among those kept (`Inserted`), or with the first nodes of `rcv_queue`
gone (`FrontDropped`). `StaysLinked` follows from `Holds`.

The walks and the loop are recursive functions in the model, bounded by the number of
nodes. That such functions exist at all, with their values where the proof needs them, is
`Recursion` in `Facts`, proved by induction over a set of numbers (`InductionUpTo`).

### The header

`KcpWire` proves `RoundTrip`: of every segment `ikcp_input` reads what
`ikcp_encode_seg` was given, except that 16 bits are left of `wnd`, 8 of `frg` and 8
of `cmd`. It rests on the lemmas that four bytes give a 32-bit number back
(`Four`), and two of them its lower half (`Two`). For `frg` and `cmd` nothing is lost,
since `ikcp_send` allows fewer than 128 fragments; for the window something is:
`WideWindowReadsClosed`.

### Only model-checked

Liveness (`ServerAvailable`, `AttemptResolves`, `LeavesSilentServer`, `StoreEnds`,
`RoundEnds`, `EventuallyDelivered`, `WindowReopens`), which is out of the prover's
reach. All other properties of the passing runs are theorems. The three violated
properties have counterexamples and nothing to prove.

## 5. What is not modelled

- *Destructors.* Both modules may be removed while a detached thread runs on the
  freed object. What follows is undefined.
- *Data races on the deques.* `NoUnlockedClearRace` shows where `clearBuffers`
  is safe. From CONNECTING to CONNECTED the client calls it beside a running
  thread; the model empties the buffer in one step.
- *Memory overruns.* A block size above what the block buffer holds, or so close below
  it that the reply, which may be 64 frames longer, runs over the end
  (`Client.cpp:236`). The capacity of the buffer is not modelled.
- *Exceptions.* `std::stoi` on the text of a field.
- *KCP:* datagrams that are malformed or cut short, several segments in one
  datagram, `ikcp_setmtu`, which may leave segments longer than the new limit
  behind, the calculation of round trip times from time stamps (`KcpClock` chooses
  `rx_rto` freely), the dead link mark, the allocator hooks and the log; what follows
  when a time out passes half the range of the clock.
- *Presentation:* lights, drawing, logging, JSON; sample values and resampling.
- `RadioDelay`, `plugin.cpp`: nothing to model.

## 6. Plan

Done, in this order: the server session with its proofs, the client session with its
proofs, the stream with its abstract FIFO, KCP with its abstract queue, the port
checks, stream mode, the clock, the lists of the receiving end, the header.

Then the proofs about `Stream`, `Kcp`, `KcpClock` and `ReceiveBuffer`. Everything the
runs check except liveness is now proved; nothing of the plan is left.
