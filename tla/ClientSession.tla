----------------------------- MODULE ClientSession -----------------------------
(***************************************************************************)
(* The life of one Client module: the audio thread, which runs             *)
(* RadioClient::process once per sample, against the detached threads      *)
(* Client::connectToHost creates, which run Client::clientLoop.            *)
(*                                                                         *)
(* Time is counted in calls of process(): the wait in ERROR_STATE and the  *)
(* timeout of a blocked recv() are measured with the same clock.  The      *)
(* output buffer is here with its length, since the thread may wait for    *)
(* the audio thread to drain it; what the blocks hold is left to Stream.   *)
(***************************************************************************)
EXTENDS Integers

CONSTANTS
    Threads,       \* the threads start() can create, one per attempt
    SampleRate,    \* calls of process() in one second
    Ports,         \* the numbers the port field may hold
    Channels,      \* channel counts a packet of the server may announce
    Lens,          \* block lengths it may announce
    PanelSizes,    \* what the buffer size field of the panel may say
    MaxOut,        \* a length of outputBuffer at or above MaxOut counts as MaxOut
    Faults         \* the failures the environment may produce

FaultKinds == {"socket", "resolve", "connect", "link"}

ASSUME ClientAssumption ==
    /\ SampleRate \in Nat \ {0}
    /\ Ports \subseteq Int
    /\ Channels \subseteq Nat /\ {0, 1} \subseteq Channels
    /\ Lens \subseteq Nat
    /\ PanelSizes \subseteq Int
    /\ MaxOut \in Nat
    /\ \A n \in Lens : (n * 22) \div 10 < MaxOut
    /\ Faults \subseteq FaultKinds

ModuleStates == {"ERROR_STATE", "NOT_CONNECTED", "CONNECTING", "CONNECTED"}

\* Where a thread stands in clientLoop; "none": not started, or returned.
PCs == {"none", "socket", "resolve", "connect", "negotiate", "recv", "payload",
        "store", "reply", "exit", "flag"}

VARIABLES
    moduleState,     \* RadioClient::moduleState
    errorCounter,    \* RadioClient::errorCounter
    starting,        \* process() stands inside connectToHost, before if (!running)
    running, connected, errorState,    \* Client's flags
    clientSocket,    \* "open" or "closed"
    peer,            \* the connection clientSocket names, as this end sees it
    remoteChannels,  \* Client::remoteSettings.inputChannels
    bufferSize,      \* Client::bufferSize
    outLen,          \* outputBuffer.size(), capped at MaxOut
    blockLen,        \* packet->len of the packet being handled
    toStore,         \* frames of it still to be stored
    waited,          \* how long each thread has been blocked in recv()
    pc               \* where each thread stands

flags  == <<running, connected, errorState>>
module == <<moduleState, errorCounter, starting>>
block  == <<blockLen, toStore>>
buffer == <<remoteChannels, bufferSize, outLen>>
vars   == <<moduleState, errorCounter, starting, running, connected, errorState,
            clientSocket, peer, remoteChannels, bufferSize, outLen, blockLen,
            toStore, waited, pc>>

Goto(t, label) ==
    /\ pc' = [pc EXCEPT ![t] = label]
    /\ waited' = [waited EXCEPT ![t] = 0]

Init ==
    /\ moduleState = "ERROR_STATE" /\ errorCounter = 0 /\ starting = FALSE
    /\ running = FALSE /\ connected = FALSE /\ errorState = FALSE
    /\ clientSocket = "closed" /\ peer = "none"
    /\ remoteChannels = 1 /\ bufferSize \in PanelSizes
    /\ outLen = MaxOut                   \* 16384 silent frames
    /\ blockLen = 0 /\ toStore = 0
    /\ waited = [t \in Threads |-> 0]
    /\ pc = [t \in Threads |-> "none"]

------------------------------------------------------------------------------
(* clientLoop: reaching the server.                                        *)

OpenSocket(t) ==
    /\ pc[t] = "socket"
    /\ clientSocket' = "open" /\ peer' = "none"
    /\ Goto(t, "resolve")
    /\ UNCHANGED <<module, flags, block, buffer>>

\* running is reset, but the thread goes on with an invalid socket.
SocketFails(t) ==
    /\ pc[t] = "socket" /\ "socket" \in Faults
    /\ running' = FALSE
    /\ clientSocket' = "closed" /\ peer' = "none"
    /\ Goto(t, "resolve")
    /\ UNCHANGED <<module, connected, errorState, block, buffer>>

Resolved(t) ==
    /\ pc[t] = "resolve"
    /\ Goto(t, "connect")
    /\ UNCHANGED <<module, flags, clientSocket, peer, block, buffer>>

\* shutdownClient()
ShutdownClient ==
    /\ running' = FALSE /\ connected' = FALSE
    /\ clientSocket' = "closed"

ResolveFails(t) ==
    /\ pc[t] = "resolve" /\ "resolve" \in Faults
    /\ ShutdownClient
    /\ errorState' = TRUE
    /\ Goto(t, "none")
    /\ UNCHANGED <<module, peer, block, buffer>>

Connected(t) ==
    /\ pc[t] = "connect" /\ clientSocket = "open"
    /\ peer' = "alive"
    /\ Goto(t, "negotiate")
    /\ UNCHANGED <<module, flags, clientSocket, block, buffer>>

\* running is reset and the error announced, but the thread goes on to
\* negotiateSettings, whose recv() may block as long as any other.
ConnectFails(t) ==
    /\ pc[t] = "connect"
    /\ clientSocket = "closed" \/ "connect" \in Faults
    /\ running' = FALSE /\ errorState' = TRUE
    /\ Goto(t, "negotiate")
    /\ UNCHANGED <<module, connected, clientSocket, peer, block, buffer>>

------------------------------------------------------------------------------
(* Blocked receives: SO_RCVTIMEO is five seconds.                          *)

\* Mutant: a timeout longer than the wait in ERROR_STATE.
ThirtySeconds == SampleRate * 30

RecvTimeout == SampleRate * 5

\* Mutant: the timeout is lifted once the two have negotiated.
BlockedNegotiating(t) == pc[t] = "negotiate"

Blocked(t) == pc[t] \in {"negotiate", "recv", "payload"}

TimedOut(t) == waited[t] = RecvTimeout

Gone == peer \in {"none", "reset"}

\* The settings of the server, all zero when it has closed the connection: a
\* recv() that returns 0 is not told from a complete one.
Negotiated(t) ==
    /\ pc[t] = "negotiate"
    /\ \/ peer = "alive" /\ remoteChannels' \in Channels /\ peer' = peer
       \/ peer = "closed" /\ remoteChannels' = 0 /\ peer' = "reset"
    /\ connected' = TRUE
    /\ Goto(t, "recv")
    /\ UNCHANGED <<module, running, errorState, clientSocket, block, bufferSize,
                   outLen>>

\* The thread gives up without announcing an error before it has shut down.
GiveUp(t) ==
    /\ running' = FALSE
    /\ Goto(t, "exit")
    /\ UNCHANGED <<module, connected, errorState, clientSocket, peer, block, buffer>>

\* Mutant: the failure neither ends the session nor shuts the socket down.
NegotiationIgnored(t) ==
    /\ pc[t] = "negotiate" /\ (Gone \/ TimedOut(t))
    /\ Goto(t, "none")
    /\ UNCHANGED <<module, flags, clientSocket, peer, block, buffer>>

NegotiationFails(t) ==
    pc[t] = "negotiate" /\ (Gone \/ TimedOut(t)) /\ GiveUp(t)

------------------------------------------------------------------------------
(* clientLoop: the exchange of blocks.                                     *)

\* A packet header: the channel count and the length of the block that follows.
\* A new channel count empties both buffers; a block to come sets bufferSize.
TakeHeader(t, ch, len) ==
    /\ remoteChannels' = ch
    /\ outLen' = IF ch # remoteChannels THEN 0 ELSE outLen
    /\ blockLen' = len
    /\ IF ch * len > 0
       THEN bufferSize' = 4 * ch * len /\ toStore' = len /\ Goto(t, "payload")
       ELSE bufferSize' = bufferSize /\ toStore' = 0 /\ Goto(t, "reply")
    /\ UNCHANGED <<module, flags, clientSocket>>

ReceiveHeader(t) ==
    /\ pc[t] = "recv" /\ peer = "alive"
    /\ \E ch \in Channels, len \in Lens : TakeHeader(t, ch, len)
    /\ peer' = peer

\* A closed connection reads as an empty packet; the answer to it resets the
\* connection.
ReceiveNothing(t) ==
    /\ pc[t] = "recv" /\ peer = "closed"
    /\ TakeHeader(t, 0, 0)
    /\ peer' = "reset"

ReceiveFails(t) == pc[t] = "recv" /\ (Gone \/ TimedOut(t)) /\ GiveUp(t)

\* The block; a closed connection leaves what is missing of it as it was.
ReceivePayload(t) ==
    /\ pc[t] = "payload" /\ peer \in {"alive", "closed"}
    /\ Goto(t, "store")
    /\ UNCHANGED <<module, flags, clientSocket, peer, block, buffer>>

\* The thread gives up and announces the error first.
GiveUpLoudly(t) ==
    /\ running' = FALSE /\ errorState' = TRUE
    /\ Goto(t, "exit")
    /\ UNCHANGED <<module, connected, clientSocket, peer, block, buffer>>

PayloadFails(t) == pc[t] = "payload" /\ (Gone \/ TimedOut(t)) /\ GiveUpLoudly(t)

\* outputBuffer.size() > n for an int n, converted to size_t.
Exceeds(len, n) == n >= 0 /\ len > n

\* Mutant: only the size set on the panel, or by the last block, bounds the buffer.
OnlyOverflow == Exceeds(outLen, bufferSize)

\* Buffer is full... wait?
Full == outLen > (blockLen * 22) \div 10 \/ Exceeds(outLen, bufferSize)

StoreFrame(t) ==
    /\ pc[t] = "store" /\ toStore > 0 /\ ~Full
    /\ outLen' = IF outLen < MaxOut THEN outLen + 1 ELSE MaxOut
    /\ toStore' = toStore - 1
    /\ UNCHANGED <<module, flags, clientSocket, peer, remoteChannels, bufferSize,
                   blockLen, waited, pc>>

StoreDone(t) ==
    /\ pc[t] = "store" /\ toStore = 0
    /\ Goto(t, "reply")
    /\ UNCHANGED <<module, flags, clientSocket, peer, block, buffer>>

\* What the client has to send goes back, header first.
Reply(t) ==
    /\ pc[t] = "reply"
    /\ Goto(t, "recv")
    /\ UNCHANGED <<module, flags, clientSocket, peer, block, buffer>>

ReplyFails(t) == pc[t] = "reply" /\ Gone /\ GiveUpLoudly(t)

\* Mutant: the thread ends without resetting the flags.
CloseSocketOnly(t) ==
    /\ pc[t] = "exit"
    /\ clientSocket' = "closed"
    /\ Goto(t, "flag")
    /\ UNCHANGED <<module, flags, peer, block, buffer>>

Exit(t) ==
    /\ pc[t] = "exit"
    /\ ShutdownClient
    /\ Goto(t, "flag")
    /\ UNCHANGED <<module, errorState, peer, block, buffer>>

Flag(t) ==
    /\ pc[t] = "flag"
    /\ errorState' = TRUE
    /\ Goto(t, "none")
    /\ UNCHANGED <<module, running, connected, clientSocket, peer, block, buffer>>

\* The server closes the connection, or the network breaks it.
LosePeer ==
    /\ "link" \in Faults /\ peer = "alive"
    /\ peer' \in {"closed", "reset"}
    /\ UNCHANGED <<module, flags, clientSocket, block, buffer, waited, pc>>

------------------------------------------------------------------------------
(* RadioClient::process, one call per sample.                              *)

\* One sample passes.  A recv() that has used up its timeout returns before.
Tick ==
    /\ \A t \in Threads : Blocked(t) => ~TimedOut(t)
    /\ waited' = [t \in Threads |-> IF Blocked(t) THEN waited[t] + 1 ELSE waited[t]]

ErrorLimit == SampleRate * 8

\* Mutant: the next attempt starts after one second.
ErrorOverAfterOne == errorCounter > SampleRate

\* Mutant: the wait is one sample longer.
ErrorOverLate == errorCounter > ErrorLimit + 1

ErrorOver == errorCounter > ErrorLimit

ProcessError ==
    /\ moduleState = "ERROR_STATE" /\ ~ErrorOver /\ Tick
    /\ errorCounter' = errorCounter + 1
    /\ UNCHANGED <<moduleState, starting, flags, clientSocket, peer, block, buffer, pc>>

\* The one assumption on speed: within eight seconds a thread gets through the
\* few statements between two calls that may block.
Settled == \A t \in Threads : pc[t] \notin {"socket", "exit", "flag"}

ProcessRetry ==
    /\ moduleState = "ERROR_STATE" /\ ErrorOver /\ Settled /\ Tick
    /\ errorCounter' = 0
    /\ moduleState' = "NOT_CONNECTED"
    /\ UNCHANGED <<starting, flags, clientSocket, peer, block, buffer, pc>>

\* bufferSamples(), clearBuffers() and connectToHost up to its test of running.
ProcessNotConnected ==
    /\ moduleState = "NOT_CONNECTED" /\ ~starting /\ Tick
    /\ outLen' = 0
    /\ errorState' = FALSE
    /\ starting' = TRUE
    /\ UNCHANGED <<moduleState, errorCounter, running, connected, clientSocket, peer,
                   remoteChannels, bufferSize, block, pc>>

MayStart == ~running

BadPort(port) == port < 1024 \/ port >= 65535

\* The rest of connectToHost for a valid port; its result is ignored.
ProcessStart ==
    /\ starting /\ \E port \in Ports : ~BadPort(port)
    /\ IF MayStart
       THEN \E t \in Threads : pc[t] = "none" /\ Goto(t, "socket")
       ELSE UNCHANGED <<pc, waited>>
    /\ running' = TRUE
    /\ starting' = FALSE
    /\ moduleState' = "CONNECTING"
    /\ UNCHANGED <<errorCounter, connected, errorState, clientSocket, peer, block, buffer>>

\* BAD PORT: nothing is started, and the module waits all the same.
ProcessBadPort ==
    /\ starting /\ \E port \in Ports : BadPort(port)
    /\ starting' = FALSE
    /\ moduleState' = "CONNECTING"
    /\ UNCHANGED <<errorCounter, flags, clientSocket, peer, block, buffer, waited, pc>>

AfterConnecting ==
    IF errorState THEN "ERROR_STATE"
    ELSE IF connected THEN "CONNECTED"
    ELSE "CONNECTING"

\* With the connection up, bufferSamples() and then clearBuffers(), unlocked and
\* beside the thread.
ProcessConnecting ==
    /\ moduleState = "CONNECTING" /\ Tick
    /\ outLen' = IF connected THEN 0 ELSE outLen
    /\ moduleState' = AfterConnecting
    /\ UNCHANGED <<errorCounter, starting, flags, clientSocket, peer, block,
                   remoteChannels, bufferSize, pc>>

\* Mutant: process() feeds the client but takes nothing from it.
NothingTaken == outLen

\* The length of outputBuffer after getData().
LengthAfterGet == IF outLen > 0 THEN outLen - 1 ELSE 0

AfterConnected ==
    IF ~connected \/ errorState THEN "ERROR_STATE" ELSE "CONNECTED"

\* interval(), which may take a new buffer size from the panel, bufferSamples()
\* and the test that ends the session; the thread is not told to stop.
ProcessConnected ==
    /\ moduleState = "CONNECTED" /\ Tick
    /\ bufferSize' \in PanelSizes \cup {bufferSize}
    /\ outLen' = LengthAfterGet
    /\ moduleState' = AfterConnected
    /\ UNCHANGED <<errorCounter, starting, flags, clientSocket, peer, block,
                   remoteChannels, pc>>

------------------------------------------------------------------------------
Process == \/ ProcessError \/ ProcessRetry \/ ProcessNotConnected \/ ProcessStart
           \/ ProcessBadPort \/ ProcessConnecting \/ ProcessConnected

ClientLoop(t) ==
    \/ OpenSocket(t) \/ SocketFails(t) \/ Resolved(t) \/ ResolveFails(t)
    \/ Connected(t) \/ ConnectFails(t) \/ Negotiated(t) \/ NegotiationFails(t)
    \/ ReceiveHeader(t) \/ ReceiveNothing(t) \/ ReceiveFails(t)
    \/ ReceivePayload(t) \/ PayloadFails(t) \/ StoreFrame(t) \/ StoreDone(t)
    \/ Reply(t) \/ ReplyFails(t) \/ Exit(t) \/ Flag(t)

Next == Process \/ LosePeer \/ \E t \in Threads : ClientLoop(t)

Spec == Init /\ [][Next]_vars

\* What a thread does whatever the server does: the calls that fail or time out
\* and the code between the calls, but no answer from the server.
Driven(t) ==
    \/ OpenSocket(t) \/ Resolved(t) \/ Connected(t)
    \/ (clientSocket = "closed" /\ ConnectFails(t))
    \/ NegotiationFails(t) \/ (peer = "closed" /\ Negotiated(t))
    \/ ReceiveNothing(t) \/ ReceiveFails(t) \/ PayloadFails(t)
    \/ (peer = "closed" /\ ReceivePayload(t))
    \/ StoreFrame(t) \/ StoreDone(t)
    \/ (~Gone /\ Reply(t)) \/ ReplyFails(t) \/ Exit(t) \/ Flag(t)

\* Rack keeps calling process() and the system keeps scheduling the thread; the
\* server may stay silent for ever.
FairSpec == Spec /\ WF_vars(Process) /\ \A t \in Threads : WF_vars(Driven(t))

------------------------------------------------------------------------------
(* Properties.                                                             *)

TypeOK ==
    /\ moduleState \in ModuleStates
    /\ errorCounter \in 0..(ErrorLimit + 1)
    /\ starting \in BOOLEAN
    /\ running \in BOOLEAN /\ connected \in BOOLEAN /\ errorState \in BOOLEAN
    /\ clientSocket \in {"open", "closed"}
    /\ peer \in {"none", "alive", "closed", "reset"}
    /\ remoteChannels \in Nat /\ bufferSize \in Int
    /\ outLen \in 0..MaxOut
    /\ blockLen \in Lens \cup {0} /\ toStore \in 0..blockLen
    /\ waited \in [Threads -> 0..RecvTimeout]
    /\ pc \in [Threads -> PCs]

Live(t) == pc[t] # "none"

\* At most one thread runs clientLoop.  After a failed connect() running is
\* already reset while the thread still waits in negotiateSettings: only that
\* recv() gives up after five seconds (Client.cpp:176) and the module waits for
\* eight (RadioClient.cpp:224) keeps the next thread from starting beside it.
OneClientThread ==
    \A t, u \in Threads : Live(t) /\ Live(u) => t = u

\* No socket is closed under a thread that still uses it: what shutdownClient
\* (Client.cpp:430) closes is the socket of the thread that calls it.
SocketOpenInExchange ==
    \A t \in Threads :
        pc[t] \in {"recv", "payload", "store", "reply"} =>
            clientSocket = "open" /\ running /\ connected

\* NOT_CONNECTED calls clearBuffers, which takes no lock (Client.cpp:128), only
\* when no thread is left.
NoUnlockedClearRace ==
    moduleState = "NOT_CONNECTED" => \A t \in Threads : ~Live(t)

\* connected and running both mean that a thread is there: no later call of
\* connectToHost is lost, and no connection is shown that nobody serves.
FlagsHaveThread ==
    running \/ connected => \E t \in Threads : Live(t)

\* The frames that wait for the audio thread are bounded by the longest block,
\* however the panel sets bufferSize (Client.cpp:272).
OutputBounded ==
    \A t \in Threads : Live(t) =>
        \E n \in Lens \cup {0} : outLen <= (n * 22) \div 10 + 1

\* Every attempt to connect ends, in a connection or in an error the module sees:
\* no path of clientLoop ends without raising one of the two flags.
AttemptResolves ==
    (moduleState = "CONNECTING" /\ running)
        ~> moduleState \in {"CONNECTED", "ERROR_STATE"}

\* The same of every visit to CONNECTING, whether connectToHost started an attempt
\* or refused the port.
ConnectingResolves ==
    moduleState = "CONNECTING" ~> moduleState \in {"CONNECTED", "ERROR_STATE"}

\* A packet's header arrives.
Heard == \E t \in Threads : pc[t] = "recv" /\ pc'[t] \in {"payload", "reply"}

\* Only a server that keeps sending keeps the module in CONNECTED: one that falls
\* silent without closing anything is noticed by the receive timeout alone
\* (Client.cpp:176, 226).
LeavesSilentServer ==
    <>[](moduleState = "CONNECTED") => []<><<Heard>>_vars

\* The wait for room in the output buffer (Client.cpp:272), which looks at no flag,
\* ends: the audio thread is always in a state that drains the buffer.
StoreEnds ==
    \A t \in Threads : pc[t] = "store" ~> pc[t] = "reply"

------------------------------------------------------------------------------
(* The inductive invariant.                                                *)

\* Where each thread stands against the flags, the module, the socket and time.
ThreadInv(t) ==
    /\ pc[t] = "socket" => running
    /\ pc[t] \in {"socket", "resolve", "connect"} =>
          ~connected /\ ~errorState /\ moduleState = "CONNECTING"
    /\ pc[t] \in {"resolve", "connect"} =>
          peer = "none" /\ (clientSocket = "open" => running)
    /\ pc[t] = "negotiate" =>
          /\ ~connected
          /\ IF errorState
             THEN /\ ~running /\ peer = "none"
                  /\ moduleState \in {"CONNECTING", "ERROR_STATE"}
                  /\ errorCounter <= waited[t]
             ELSE running /\ clientSocket = "open" /\ moduleState = "CONNECTING"
    /\ pc[t] \in {"recv", "payload", "store", "reply"} =>
          /\ running /\ connected /\ ~errorState /\ clientSocket = "open"
          /\ moduleState \in {"CONNECTING", "CONNECTED"}
    /\ pc[t] = "exit" => ~running /\ moduleState # "NOT_CONNECTED"
    /\ pc[t] = "flag" => ~running /\ ~connected /\ moduleState # "NOT_CONNECTED"

ModuleInv ==
    /\ moduleState # "ERROR_STATE" => errorCounter = 0
    /\ starting => moduleState = "NOT_CONNECTED" /\ ~errorState /\ outLen = 0

IInv ==
    /\ TypeOK /\ OneClientThread /\ NoUnlockedClearRace /\ FlagsHaveThread
    /\ OutputBounded /\ ModuleInv
    /\ \A t \in Threads : ThreadInv(t)

==============================================================================
