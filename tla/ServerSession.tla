----------------------------- MODULE ServerSession -----------------------------
(***************************************************************************)
(* The life of one Server module: the audio thread, which runs             *)
(* RadioServer::process once per sample, against the detached threads      *)
(* Server::startListen creates, which run Server::ServerLoop.  The two     *)
(* share four unlocked flags (running, connected, negotiating,             *)
(* errorState), the sockets and the length of inputBuffer.                 *)
(*                                                                         *)
(* One action is one stretch of code between two points where the other    *)
(* thread can make a difference: a blocking socket call, a store to a      *)
(* shared flag, a critical section.  Sample values, lights and text fields *)
(* are left out; what the blocks hold is Stream.tla's subject.             *)
(***************************************************************************)
EXTENDS Integers

CONSTANTS
    Threads,         \* the threads start() can create, one per session
    SampleRate,      \* calls of process() in one second
    BlockSizes,      \* what the block size field of the panel may say
    Ports,           \* the numbers the port field may hold
    Channels,        \* channel counts of the cable in INPUT_JACK; 0: unplugged
    MaxIn,           \* a length of inputBuffer at or above MaxIn counts as MaxIn
    AcceptsClients,  \* whether accept() can succeed on serverSocket at all
    Faults           \* the failures the environment may produce

FaultKinds == {"socket", "option", "bind", "accept", "negotiate", "link"}

ASSUME SessionAssumption ==
    /\ SampleRate \in Nat \ {0}
    /\ Ports \subseteq Int /\ Ports # {}
    /\ BlockSizes \subseteq Int /\ 1 \in BlockSizes
    /\ MaxIn \in Nat \ {0}
    /\ \A b \in BlockSizes : b < MaxIn
    /\ Channels \subseteq Nat /\ {0, 1} \subseteq Channels
    /\ AcceptsClients \in BOOLEAN
    /\ Faults \subseteq FaultKinds

ModuleStates ==
    {"ERROR_STATE", "NOT_CONNECTED", "LISTENING", "NEGOTIATING", "CONNECTED"}

\* Where a thread stands in ServerLoop; "none": not started, or returned.
PCs == {"none", "open", "bind", "accept", "decide", "negotiate",
        "loop", "send", "recv", "store", "exit", "flag"}

VARIABLES
    moduleState,    \* RadioServer::moduleState
    errorCounter,   \* RadioServer::errorCounter
    starting,       \* process() stands inside startListen, before its if (!running)
    jack,           \* channels of the cable now in INPUT_JACK
    blockSize,      \* Server::blockSize
    localChannels,  \* Server::localSettings.inputChannels
    inLen,          \* inputBuffer.size(), capped at MaxIn
    running, connected, negotiating, errorState,   \* Server's flags
    serverSocket,   \* "closed", "unbound", "listening" or "shut"
    peer,           \* the connection clientSocket names, as this end sees it
    pc,             \* where each thread stands
    optionsSet      \* no setsockopt() on a good socket has failed (for properties)

flags == <<running, connected, negotiating, errorState>>
panel == <<jack, blockSize, localChannels>>
vars  == <<moduleState, errorCounter, starting, jack, blockSize, localChannels,
           inLen, running, connected, negotiating, errorState, serverSocket,
           peer, pc, optionsSet>>

Goto(t, label) == pc' = [pc EXCEPT ![t] = label]

\* inputBuffer.size() > n for an int n: the comparison converts n to size_t, so
\* that a negative n exceeds every length a buffer can have.
Exceeds(len, n) == n >= 0 /\ len > n

Ready == Exceeds(inLen, blockSize)

Init ==
    /\ moduleState = "ERROR_STATE" /\ errorCounter = 0 /\ starting = FALSE
    /\ jack = 0 /\ blockSize = 1 /\ localChannels = 1
    /\ inLen = MaxIn                    \* 16384 silent frames
    /\ running = FALSE /\ connected = FALSE
    /\ negotiating = FALSE /\ errorState = FALSE
    /\ serverSocket = "closed" /\ peer = "none"
    /\ pc = [t \in Threads |-> "none"]
    /\ optionsSet = TRUE

------------------------------------------------------------------------------
(* ServerLoop: opening the socket.                                         *)

\* socket() fails, and with it setsockopt(); only the latter's error is looked at,
\* and the code goes on.
SocketFails(t) ==
    /\ pc[t] = "open" /\ "socket" \in Faults
    /\ errorState' = TRUE /\ serverSocket' = "closed"
    /\ Goto(t, "bind")
    /\ UNCHANGED <<moduleState, errorCounter, starting, panel, inLen, running,
                   connected, negotiating, peer, optionsSet>>

\* setsockopt() fails on a good socket: errorState is set and the code goes on too,
\* to an accept() that may well succeed.
OptionFails(t) ==
    /\ pc[t] = "open" /\ "option" \in Faults
    /\ errorState' = TRUE /\ serverSocket' = "unbound"
    /\ optionsSet' = FALSE
    /\ Goto(t, "bind")
    /\ UNCHANGED <<moduleState, errorCounter, starting, panel, inLen, running,
                   connected, negotiating, peer>>

OpenSocket(t) ==
    /\ pc[t] = "open"
    /\ serverSocket' = "unbound"
    /\ Goto(t, "bind")
    /\ UNCHANGED <<moduleState, errorCounter, starting, panel, inLen, flags,
                   peer, optionsSet>>

\* htons: an int becomes 16 bits wide and its two bytes change places.
Htons(port) == 256 * (port % 256) + ((port % 65536) \div 256)

\* The range check is made of the port in network order.
Refused(port) == Htons(port) < 1024 \/ Htons(port) >= 65535

\* The port check fails: running is not reset and the socket is not closed.
PortRejected(t) ==
    /\ pc[t] = "bind" /\ \E port \in Ports : Refused(port)
    /\ errorState' = TRUE
    /\ Goto(t, "none")
    /\ UNCHANGED <<moduleState, errorCounter, starting, panel, inLen, running,
                   connected, negotiating, serverSocket, peer, optionsSet>>

\* bind() fails, without a socket always: no flag changes at all.
BindFails(t) ==
    /\ pc[t] = "bind" /\ ("bind" \in Faults \/ serverSocket = "closed")
    /\ \E port \in Ports : ~Refused(port)
    /\ Goto(t, "none")
    /\ UNCHANGED <<moduleState, errorCounter, starting, panel, inLen, flags,
                   serverSocket, peer, optionsSet>>

\* bind() and listen(); the client socket of the session before is closed here.
Listen(t) ==
    /\ pc[t] = "bind" /\ serverSocket # "closed"
    /\ \E port \in Ports : ~Refused(port)
    /\ serverSocket' = "listening" /\ peer' = "none"
    /\ Goto(t, "accept")
    /\ UNCHANGED <<moduleState, errorCounter, starting, panel, inLen, flags,
                   optionsSet>>

------------------------------------------------------------------------------
(* ServerLoop: accepting and negotiating.                                  *)

Accepted(t) ==
    /\ pc[t] = "accept" /\ AcceptsClients /\ serverSocket = "listening"
    /\ peer' = "alive"
    /\ Goto(t, "decide")
    /\ UNCHANGED <<moduleState, errorCounter, starting, panel, inLen, flags,
                   serverSocket, optionsSet>>

AcceptHopeless == ~AcceptsClients \/ serverSocket # "listening"

\* Mutant: the thread returns, as it does after the other failures.
AcceptFailsAndReturns(t) ==
    /\ pc[t] = "accept"
    /\ AcceptHopeless \/ "accept" \in Faults
    /\ serverSocket' = "shut" /\ peer' = "none"
    /\ errorState' = TRUE
    /\ Goto(t, "none")
    /\ UNCHANGED <<moduleState, errorCounter, starting, panel, inLen, running,
                   connected, negotiating, optionsSet>>

AcceptFails(t) ==
    /\ pc[t] = "accept"
    /\ AcceptHopeless \/ "accept" \in Faults
    /\ serverSocket' = "shut" /\ peer' = "none"
    /\ errorState' = TRUE
    /\ Goto(t, "decide")
    /\ UNCHANGED <<moduleState, errorCounter, starting, panel, inLen, running,
                   connected, negotiating, optionsSet>>

\* The condition is !errorState && !negotiateSettings(): with errorState set the
\* thread takes the else branch, as if the negotiation had succeeded.
SkipNegotiation(t) ==
    /\ pc[t] = "decide" /\ errorState
    /\ negotiating' = FALSE /\ connected' = TRUE
    /\ Goto(t, "loop")
    /\ UNCHANGED <<moduleState, errorCounter, starting, panel, inLen, running,
                   errorState, serverSocket, peer, optionsSet>>

BeginNegotiation(t) ==
    /\ pc[t] = "decide" /\ ~errorState
    /\ negotiating' = TRUE
    /\ Goto(t, "negotiate")
    /\ UNCHANGED <<moduleState, errorCounter, starting, panel, inLen, running,
                   connected, errorState, serverSocket, peer, optionsSet>>

Negotiated(t) ==
    /\ pc[t] = "negotiate" /\ peer = "alive"
    /\ negotiating' = FALSE /\ connected' = TRUE
    /\ Goto(t, "loop")
    /\ UNCHANGED <<moduleState, errorCounter, starting, panel, inLen, running,
                   errorState, serverSocket, peer, optionsSet>>

\* negotiating is left set.
NegotiationFails(t) ==
    /\ pc[t] = "negotiate" /\ peer # "alive"
    /\ running' = FALSE
    /\ peer' = "reset"
    /\ Goto(t, "exit")
    /\ UNCHANGED <<moduleState, errorCounter, starting, panel, inLen, connected,
                   negotiating, errorState, serverSocket, optionsSet>>

------------------------------------------------------------------------------
(* ServerLoop: the exchange of blocks.                                     *)

\* What may be left after popping n frames; a capped length may hide more.
LeftAfter(n) ==
    IF inLen = MaxIn THEN (MaxIn - n)..MaxIn
    ELSE {IF inLen > n THEN inLen - n ELSE 0}

\* With no channel to send, the loop that pops the frames runs zero times.
TakeBlock(t) ==
    /\ pc[t] = "loop" /\ running /\ Ready
    /\ inLen' \in LeftAfter(IF localChannels = 0 THEN 0 ELSE blockSize)
    /\ Goto(t, "send")
    /\ UNCHANGED <<moduleState, errorCounter, starting, panel, flags,
                   serverSocket, peer, optionsSet>>

Sent(t) ==
    /\ pc[t] = "send"
    /\ Goto(t, "recv")
    /\ UNCHANGED <<moduleState, errorCounter, starting, panel, inLen, flags,
                   serverSocket, peer, optionsSet>>

\* A socket call on a connection that is gone returns SOCKET_ERROR.
Fail(t) ==
    /\ running' = FALSE
    /\ Goto(t, "exit")
    /\ UNCHANGED <<moduleState, errorCounter, starting, panel, inLen, connected,
                   negotiating, errorState, serverSocket, peer, optionsSet>>

SendFails(t) == pc[t] = "send" /\ peer \in {"none", "reset"} /\ Fail(t)

\* The header of the reply; a change of the remote channel count, or a backlog
\* above four times the reply, empties both buffers.
Received(t) ==
    /\ pc[t] = "recv" /\ peer = "alive"
    /\ inLen' \in {inLen, 0}
    /\ Goto(t, "store")
    /\ UNCHANGED <<moduleState, errorCounter, starting, panel, flags,
                   serverSocket, peer, optionsSet>>

\* recv() returns 0 once the client has closed.  Only SOCKET_ERROR is tested, so
\* the server's own header is taken for the reply; by the next call the answer
\* to what was sent into the closed connection has reset it.
ReceivedNothing(t) ==
    /\ pc[t] = "recv" /\ peer = "closed"
    /\ inLen' \in {inLen, 0}
    /\ peer' = "reset"
    /\ Goto(t, "store")
    /\ UNCHANGED <<moduleState, errorCounter, starting, panel, flags,
                   serverSocket, optionsSet>>

ReceiveFails(t) ==
    pc[t] \in {"recv", "store"} /\ peer \in {"none", "reset"} /\ Fail(t)

Store(t) ==
    /\ pc[t] = "store"
    /\ Goto(t, "loop")
    /\ UNCHANGED <<moduleState, errorCounter, starting, panel, inLen, flags,
                   serverSocket, peer, optionsSet>>

\* Mutant: connected survives the shutdown.
ShutdownSocketOnly ==
    /\ running' = FALSE /\ connected' = connected
    /\ serverSocket' = "closed"

\* shutdownServer(), called by the thread on its way out and by Server::stop.
ShutdownServer ==
    /\ running' = FALSE /\ connected' = FALSE
    /\ serverSocket' = "closed"

Exit(t) ==
    /\ pc[t] = "exit"
    /\ ShutdownServer
    /\ Goto(t, "flag")
    /\ UNCHANGED <<moduleState, errorCounter, starting, panel, inLen,
                   negotiating, errorState, peer, optionsSet>>

Flag(t) ==
    /\ pc[t] = "flag"
    /\ errorState' = TRUE
    /\ Goto(t, "none")
    /\ UNCHANGED <<moduleState, errorCounter, starting, panel, inLen, running,
                   connected, negotiating, serverSocket, peer, optionsSet>>

\* The client closes the connection, or the network breaks it: "link" once the
\* two have negotiated, "negotiate" before.
LosePeer ==
    /\ peer = "alive"
    /\ (IF connected THEN "link" ELSE "negotiate") \in Faults
    /\ peer' \in {"closed", "reset"}
    /\ UNCHANGED <<moduleState, errorCounter, starting, panel, inLen, flags,
                   serverSocket, pc, optionsSet>>

------------------------------------------------------------------------------
(* RadioServer::process, one call per sample.                              *)

ErrorLimit == SampleRate * 8

\* Mutant: one sample too late.
ErrorOverLate == errorCounter > ErrorLimit + 1

ErrorOver == errorCounter > ErrorLimit

ProcessError ==
    /\ moduleState = "ERROR_STATE" /\ ~ErrorOver
    /\ errorCounter' = errorCounter + 1
    /\ UNCHANGED <<moduleState, starting, panel, inLen, flags, serverSocket,
                   peer, pc, optionsSet>>

\* The one timing assumption: eight seconds outlast the few statements a thread
\* executes between two blocking calls, so that it is found settled: waiting for
\* the network, in its loop, or gone.
Settled ==
    \A t \in Threads : pc[t] \notin {"open", "bind", "decide", "exit", "flag"}

ProcessRetry ==
    /\ moduleState = "ERROR_STATE" /\ ErrorOver /\ Settled
    /\ errorCounter' = 0
    /\ moduleState' = "NOT_CONNECTED"
    /\ UNCHANGED <<starting, panel, inLen, flags, serverSocket, peer, pc,
                   optionsSet>>

\* Mutant: the buffers keep what the session before left in them.
UnclearedLength == inLen

\* The length of inputBuffer after Server::clearBuffers.
ClearedLength == 0

\* Mutant: the error of the session before survives.
ResetNegotiating == errorState' = errorState /\ negotiating' = FALSE

\* Mutant: the negotiation of the session before seems to be still going on.
ResetError == errorState' = FALSE /\ negotiating' = negotiating

ResetFlags == errorState' = FALSE /\ negotiating' = FALSE

\* clearBuffers(), setConnectionSettings() and startListen up to its test.
ProcessNotConnected ==
    /\ moduleState = "NOT_CONNECTED" /\ ~starting
    /\ inLen' = ClearedLength
    /\ localChannels' = 1
    /\ ResetFlags
    /\ starting' = TRUE
    /\ UNCHANGED <<moduleState, errorCounter, jack, blockSize, running,
                   connected, serverSocket, peer, pc, optionsSet>>

\* Mutant: startListen does not look whether a thread runs.
MayAlwaysStart == TRUE

MayStart == ~running

\* The rest of startListen, whose result tryToListen ignores.
ProcessStart ==
    /\ starting
    /\ IF MayStart
       THEN \E t \in Threads : pc[t] = "none" /\ Goto(t, "open")
       ELSE pc' = pc
    /\ running' = TRUE
    /\ starting' = FALSE
    /\ moduleState' = "LISTENING"
    /\ UNCHANGED <<errorCounter, panel, inLen, connected, negotiating,
                   errorState, serverSocket, peer, optionsSet>>

\* The state LISTENING leads to; the test of errorState comes last and wins.
AfterListening ==
    IF errorState THEN "ERROR_STATE"
    ELSE IF negotiating \/ connected THEN "NEGOTIATING"
    ELSE "LISTENING"

ProcessListening ==
    /\ moduleState = "LISTENING"
    /\ inLen' = ClearedLength
    /\ moduleState' = AfterListening
    /\ UNCHANGED <<errorCounter, starting, panel, flags, serverSocket, peer, pc,
                   optionsSet>>

\* errorState is not consulted here.
AfterNegotiating == IF connected THEN "CONNECTED" ELSE "NEGOTIATING"

ProcessNegotiating ==
    /\ moduleState = "NEGOTIATING"
    /\ inLen' = ClearedLength
    /\ moduleState' = AfterNegotiating
    /\ UNCHANGED <<errorCounter, starting, panel, flags, serverSocket, peer, pc,
                   optionsSet>>

\* The length of inputBuffer after pushData(frame, jack).
LengthAfterPush ==
    IF jack # localChannels THEN 0
    ELSE IF jack = 0 THEN 1
    ELSE IF inLen < MaxIn THEN inLen + 1 ELSE MaxIn

\* Mutant: the module gives up a connection on which nothing is to be sent.
MustStopWhenIdle == ~connected \/ inLen = 0

MustStop == ~connected \/ errorState

\* interval(), which may take a new block size from the panel, bufferInputSamples()
\* and the test that ends the session.
ProcessConnected ==
    /\ moduleState = "CONNECTED"
    /\ blockSize' \in BlockSizes
    /\ inLen' = LengthAfterPush
    /\ localChannels' = jack
    /\ IF MustStop
       THEN ShutdownServer /\ moduleState' = "ERROR_STATE"
       ELSE UNCHANGED <<running, connected, serverSocket, moduleState>>
    /\ UNCHANGED <<errorCounter, starting, jack, negotiating, errorState, peer,
                   pc, optionsSet>>

\* The user plugs, replaces or pulls the cable.
Patch ==
    /\ jack' \in Channels \ {jack}
    /\ UNCHANGED <<moduleState, errorCounter, starting, blockSize,
                   localChannels, inLen, flags, serverSocket, peer, pc,
                   optionsSet>>

------------------------------------------------------------------------------
Process == \/ ProcessError \/ ProcessRetry \/ ProcessNotConnected \/ ProcessStart
           \/ ProcessListening \/ ProcessNegotiating \/ ProcessConnected

ServerLoop(t) ==
    \/ SocketFails(t) \/ OptionFails(t) \/ OpenSocket(t) \/ PortRejected(t)
    \/ BindFails(t) \/ Listen(t) \/ Accepted(t) \/ AcceptFails(t)
    \/ SkipNegotiation(t) \/ BeginNegotiation(t) \/ Negotiated(t)
    \/ NegotiationFails(t)
    \/ TakeBlock(t) \/ Sent(t) \/ SendFails(t) \/ Received(t)
    \/ ReceivedNothing(t) \/ ReceiveFails(t) \/ Store(t)
    \/ Exit(t) \/ Flag(t)

Next == Process \/ LosePeer \/ Patch \/ \E t \in Threads : ServerLoop(t)

Spec == Init /\ [][Next]_vars

\* What a thread does of its own accord: everything but waiting for a client.
Driven(t) ==
    \/ OpenSocket(t) \/ Listen(t) \/ (serverSocket = "closed" /\ BindFails(t))
    \/ (AcceptHopeless /\ AcceptFails(t))
    \/ SkipNegotiation(t) \/ BeginNegotiation(t)
    \/ Negotiated(t) \/ NegotiationFails(t)
    \/ TakeBlock(t) \/ SendFails(t) \/ (peer \in {"alive", "closed"} /\ Sent(t))
    \/ Received(t) \/ ReceivedNothing(t) \/ ReceiveFails(t)
    \/ (peer \in {"alive", "closed"} /\ Store(t))
    \/ Exit(t) \/ Flag(t)

\* Rack keeps calling process() and the system keeps scheduling the threads; a
\* live client answers; nothing is assumed of faults, clients or the user.
FairSpec == Spec /\ WF_vars(Process) /\ \A t \in Threads : WF_vars(Driven(t))

------------------------------------------------------------------------------
(* Properties.                                                             *)

TypeOK ==
    /\ moduleState \in ModuleStates
    /\ errorCounter \in 0..(ErrorLimit + 1)
    /\ starting \in BOOLEAN
    /\ jack \in Channels /\ localChannels \in Nat /\ blockSize \in BlockSizes
    /\ inLen \in 0..MaxIn
    /\ running \in BOOLEAN /\ connected \in BOOLEAN
    /\ negotiating \in BOOLEAN /\ errorState \in BOOLEAN
    /\ serverSocket \in {"closed", "unbound", "listening", "shut"}
    /\ peer \in {"none", "alive", "closed", "reset"}
    /\ pc \in [Threads -> PCs]
    /\ optionsSet \in BOOLEAN

Live(t) == pc[t] # "none"

(* After a failed setsockopt() the thread goes on with errorState set (line 154), *)
(* and the next startListen clears it under the thread.  Of a client it accepts   *)
(* then the thread either knows nothing and skips the negotiation, or it negoti-  *)
(* ates beside a module that has given up; a negotiation that fails takes running *)
(* down, and a second thread may start before the first has left.  The properties *)
(* below that lean on errorState or on a single thread therefore speak of         *)
(* behaviours up to the first such failure.                                       *)

AtMostOne == \A t, u \in Threads : Live(t) /\ Live(u) => t = u

\* At most one thread runs ServerLoop: two would share serverSocket, clientSocket
\* and the buffers.  startListen (Server.cpp:355) relies on running alone.
OneServerThread == optionsSet => AtMostOne

\* A thread about to change the buffers, or in the middle of an exchange that will.
UsesBuffers(t) ==
    \/ pc[t] \in {"send", "recv", "store"}
    \/ pc[t] = "loop" /\ running /\ Ready

\* Server::clearBuffers takes no lock (Server.cpp:125), so process() may only call
\* it, as it does in these three states, while no thread uses the buffers.
NoUnlockedClearRace ==
    optionsSet /\ moduleState \in {"NOT_CONNECTED", "LISTENING", "NEGOTIATING"} =>
        \A t \in Threads : ~UsesBuffers(t)

\* A thread that waits for a client waits on a socket that listens, with clean
\* flags: neither server.stop() of the session before nor the end of an older
\* thread has closed it or left errorState or connected behind.
AcceptsOnCleanSocket ==
    optionsSet => \A t \in Threads : pc[t] = "accept" =>
        /\ serverSocket = "listening"
        /\ running /\ ~connected /\ ~negotiating /\ ~errorState

\* connected is raised only while a thread is there to serve the connection: the
\* module never shows a connection nobody serves (Server.cpp:198, 408), whatever
\* fails.
ConnectedIsServed ==
    connected => \E t \in Threads :
        pc[t] \in {"loop", "send", "recv", "store", "exit"}

\* The loop runs until a socket call fails: Server::stop never finds a thread in
\* its loop, so that it closes no socket under one (RadioServer.cpp:203, the test
\* of Server.cpp:204 being always true).
LoopRuns ==
    optionsSet => \A t \in Threads :
        pc[t] \in {"loop", "send", "recv", "store"} => running

\* A client that was accepted is negotiated with: the branch that skips the
\* negotiation (Server.cpp:192) is only taken when there is no client.
NegotiatesWithEveryClient ==
    [][optionsSet => \A t \in Threads :
          pc[t] = "decide" /\ pc'[t] = "loop" => peer = "none"]_vars

\* A thread that came as far as listen() never leaves running behind, which would
\* make every later startListen a no-op.  Before listen() the code does just that:
\* the returns of Server.cpp:161 and 169 leave running set.
LeavesNotRunning ==
    [][optionsSet => \A t \in Threads :
          pc[t] \notin {"none", "bind"} /\ pc'[t] = "none" => ~running']_vars

\* The server is of use: a client can reach it, or one is connected.
Available ==
    \/ \E t \in Threads : pc[t] = "accept" /\ ~AcceptHopeless
    \/ moduleState = "CONNECTED" /\ peer = "alive"

\* Once its cable is left in place the module always gets back to accepting a
\* client or serving one, whatever accept() and the link do.  (Without a cable, or
\* with one replaced all the time, no block is ever sent and a lost client is
\* never noticed.)
ServerAvailable ==
    (\E c \in Channels \ {0} : <>[](jack = c)) => []<>Available

\* What the Readme says of the module: it "Lets you accept a connection from a
\* remote client".  A module that shows CONNECTED has accepted one.
ConnectedMeansAccepted == moduleState = "CONNECTED" => peer # "none"

------------------------------------------------------------------------------
(* The inductive invariant.                                                *)

\* Where each thread stands against the flags, the module and the sockets.  At
\* "bind" errorState may be up for want of a socket.
ThreadInv(t) ==
    /\ pc[t] \in {"open", "bind", "accept"} =>
          running /\ ~connected /\ ~negotiating /\ inLen = 0
    /\ pc[t] \in {"open", "accept"} => ~errorState /\ moduleState = "LISTENING"
    /\ pc[t] = "bind" =>
          /\ errorState => serverSocket = "closed"
          /\ moduleState = "LISTENING" \/ (moduleState = "ERROR_STATE" /\ errorState)
    /\ pc[t] = "accept" => serverSocket = "listening"
    /\ pc[t] = "decide" =>
          /\ running /\ ~connected /\ ~negotiating
          /\ moduleState = "LISTENING" \/ (moduleState = "ERROR_STATE" /\ errorState)
          /\ errorState => peer = "none"
          /\ inLen = 0
    /\ pc[t] = "negotiate" =>
          /\ running /\ negotiating /\ ~connected /\ ~errorState
          /\ moduleState \in {"LISTENING", "NEGOTIATING"} /\ inLen = 0
    /\ pc[t] = "loop" =>
          /\ running /\ connected /\ ~negotiating
          /\ moduleState \in {"NEGOTIATING", "CONNECTED"} => ~errorState
          /\ moduleState # "CONNECTED" => inLen = 0
    /\ pc[t] \in {"send", "recv", "store"} =>
          /\ running /\ connected /\ ~negotiating /\ ~errorState
          /\ moduleState = "CONNECTED"
    /\ pc[t] = "exit" =>
          /\ ~running /\ ~errorState
          /\ IF connected THEN moduleState = "CONNECTED"
             ELSE moduleState \in {"LISTENING", "NEGOTIATING"}
    /\ pc[t] = "flag" =>
          /\ ~running /\ ~connected
          /\ moduleState # "NOT_CONNECTED"

\* Half way through startListen the buffers and the flags are clean.
StartingInv ==
    starting =>
        /\ moduleState = "NOT_CONNECTED" /\ inLen = 0
        /\ ~errorState /\ ~negotiating

IInv ==
    /\ TypeOK /\ ConnectedIsServed
    /\ optionsSet => /\ AtMostOne /\ StartingInv
                     /\ \A t \in Threads : ThreadInv(t)

==============================================================================
