-------------------------- MODULE ServerSessionProofs --------------------------
(***************************************************************************)
(* What ServerSession guarantees for every sample rate, every panel, every *)
(* set of threads and every combination of faults: IInv is inductive, and  *)
(* the safety properties follow from it.                                   *)
(***************************************************************************)
EXTENDS ServerSession, TLAPS

\* The initial state satisfies the inductive invariant.
LEMMA InitIInv == Init => IInv
<1> SUFFICES ASSUME Init PROVE IInv
  OBVIOUS
<1>1. TypeOK
  <2>1. 0 \in 0..(ErrorLimit + 1) /\ MaxIn \in 0..MaxIn
    BY SessionAssumption DEF ErrorLimit
  <2>2. 1 \in BlockSizes /\ 0 \in Channels
    BY SessionAssumption
  <2> QED
    BY <2>1, <2>2 DEF Init, TypeOK, ModuleStates, PCs
<1>2. \A t \in Threads : pc[t] = "none"
  BY DEF Init
<1>3. AtMostOne /\ \A t \in Threads : ThreadInv(t)
  BY <1>2 DEF AtMostOne, Live, ThreadInv
<1>4. ConnectedIsServed /\ StartingInv
  BY DEF Init, ConnectedIsServed, StartingInv
<1> QED
  BY <1>1, <1>3, <1>4 DEF IInv

\* The actions leave every variable in its type.
LEMMA TypeInductive == IInv /\ [Next]_vars => TypeOK'
<1> SUFFICES ASSUME IInv, [Next]_vars PROVE TypeOK'
  OBVIOUS
<1> USE SessionAssumption DEF IInv, TypeOK, ErrorLimit, ModuleStates, PCs, flags, panel, Goto
<1>1. CASE ProcessError
  BY <1>1 DEF ProcessError, ErrorOver
<1>2. CASE ProcessRetry
  BY <1>2 DEF ProcessRetry, ErrorOver, Settled
<1>3. CASE ProcessNotConnected
  <2>1. inLen' \in 0..MaxIn /\ localChannels' \in Nat
    BY <1>3 DEF ProcessNotConnected, ClearedLength
  <2> QED
    BY <1>3, <2>1 DEF ProcessNotConnected, ResetFlags
<1>4. CASE ProcessStart
  BY <1>4 DEF ProcessStart, MayStart
<1>5. CASE ProcessListening
  BY <1>5 DEF ProcessListening, AfterListening, ClearedLength
<1>6. CASE ProcessNegotiating
  BY <1>6 DEF ProcessNegotiating, AfterNegotiating, ClearedLength
<1>7. CASE ProcessConnected
  <2>1. inLen' \in 0..MaxIn /\ localChannels' \in Nat
    BY <1>7 DEF ProcessConnected, LengthAfterPush
  <2>2. running' \in BOOLEAN /\ connected' \in BOOLEAN
    BY <1>7 DEF ProcessConnected, ShutdownServer
  <2>3. /\ serverSocket' \in {"closed", "unbound", "listening", "shut"}
        /\ moduleState' \in ModuleStates
    BY <1>7 DEF ProcessConnected, ShutdownServer
  <2> QED
    BY <1>7, <2>1, <2>2, <2>3 DEF ProcessConnected
<1>8. CASE LosePeer
  BY <1>8 DEF LosePeer
<1>9. CASE Patch
  BY <1>9 DEF Patch
<1>10. CASE \E t \in Threads : ServerLoop(t)
  <2> SUFFICES ASSUME NEW t \in Threads, ServerLoop(t) PROVE TypeOK'
    BY <1>10
  <2>1. CASE SocketFails(t)
    BY <2>1 DEF SocketFails
  <2>2. CASE OptionFails(t)
    BY <2>2 DEF OptionFails
  <2>3. CASE OpenSocket(t)
    BY <2>3 DEF OpenSocket
  <2>4. CASE PortRejected(t)
    BY <2>4 DEF PortRejected
  <2>5. CASE BindFails(t)
    BY <2>5 DEF BindFails
  <2>6. CASE Listen(t)
    BY <2>6 DEF Listen
  <2>7. CASE Accepted(t)
    BY <2>7 DEF Accepted
  <2>8. CASE AcceptFails(t)
    BY <2>8 DEF AcceptFails
  <2>9. CASE SkipNegotiation(t)
    BY <2>9 DEF SkipNegotiation
  <2>10. CASE BeginNegotiation(t)
    BY <2>10 DEF BeginNegotiation
  <2>11. CASE Negotiated(t)
    BY <2>11 DEF Negotiated
  <2>12. CASE NegotiationFails(t)
    BY <2>12 DEF NegotiationFails
  <2>13. CASE TakeBlock(t)
    BY <2>13 DEF TakeBlock, LeftAfter, Ready, Exceeds
  <2>14. CASE Sent(t)
    BY <2>14 DEF Sent
  <2>15. CASE SendFails(t)
    BY <2>15 DEF SendFails, Fail
  <2>16. CASE Received(t)
    BY <2>16 DEF Received
  <2>17. CASE ReceivedNothing(t)
    BY <2>17 DEF ReceivedNothing
  <2>18. CASE ReceiveFails(t)
    BY <2>18 DEF ReceiveFails, Fail
  <2>19. CASE Store(t)
    BY <2>19 DEF Store
  <2>20. CASE Exit(t)
    BY <2>20 DEF Exit, ShutdownServer
  <2>21. CASE Flag(t)
    BY <2>21 DEF Flag
  <2> QED
    BY <2>1, <2>2, <2>3, <2>4, <2>5, <2>6, <2>7, <2>8, <2>9, <2>10, <2>11, <2>12, <2>13, <2>14, <2>15, <2>16, <2>17, <2>18, <2>19, <2>20, <2>21 DEF ServerLoop
<1>11. CASE UNCHANGED vars
  BY <1>11 DEF vars
<1> QED
  BY <1>1, <1>2, <1>3, <1>4, <1>5, <1>6, <1>7, <1>8, <1>9, <1>10, <1>11 DEF Next, Process

\* connected is raised by a thread at the loop and lowered before it leaves.
LEMMA ServedInductive == IInv /\ [Next]_vars => ConnectedIsServed'
<1> SUFFICES ASSUME IInv, [Next]_vars PROVE ConnectedIsServed'
  OBVIOUS
<1> USE DEF IInv, TypeOK, PCs, flags, Goto, ConnectedIsServed
<1>1. CASE Process
  BY <1>1 DEF Process, ProcessError, ProcessRetry, ProcessNotConnected, ProcessStart,
        ProcessListening, ProcessNegotiating, ProcessConnected, ShutdownServer
<1>2. CASE LosePeer \/ Patch \/ UNCHANGED vars
  BY <1>2 DEF LosePeer, Patch, vars
<1>3. CASE \E t \in Threads : ServerLoop(t)
  <2>1. PICK t \in Threads : ServerLoop(t)
    BY <1>3
  <2>2. CASE Exit(t)
    BY <2>2 DEF Exit, ShutdownServer
  <2>3. CASE pc'[t] \in {"loop", "send", "recv", "store", "exit"}
    BY <2>3
  <2>4. CASE /\ connected' = connected
             /\ pc[t] \notin {"loop", "send", "recv", "store", "exit"}
             /\ \A u \in Threads : u # t => pc'[u] = pc[u]
    BY <2>4
  <2> QED
    BY <2>1, <2>2, <2>3, <2>4 DEF ServerLoop, Fail, SocketFails, OptionFails, OpenSocket,
          PortRejected, BindFails, Listen, Accepted, AcceptFails, SkipNegotiation,
          BeginNegotiation, Negotiated, NegotiationFails, TakeBlock, Sent, SendFails,
          Received, ReceivedNothing, ReceiveFails, Store, Flag
<1> QED
  BY <1>1, <1>2, <1>3 DEF Next

\* The flags, the module's state and the threads keep their relation.
LEMMA StepIInv == IInv /\ [Next]_vars => IInv'
<1> SUFFICES ASSUME IInv, [Next]_vars PROVE IInv'
  OBVIOUS
<1> DEFINE Rest == AtMostOne /\ StartingInv /\ \A u \in Threads : ThreadInv(u)
<1> TypeOK' /\ ConnectedIsServed'
  BY TypeInductive, ServedInductive
<1> SUFFICES ASSUME optionsSet' PROVE Rest'
  BY DEF IInv
<1> optionsSet /\ Rest
  <2>1. optionsSet
    BY DEF Next, Process, ServerLoop, vars, ProcessError, ProcessRetry, ProcessNotConnected,
        ProcessStart, ProcessListening, ProcessNegotiating, ProcessConnected, LosePeer,
        Patch, Fail, SocketFails, OptionFails, OpenSocket, PortRejected, BindFails,
        Listen, Accepted, AcceptFails, SkipNegotiation, BeginNegotiation, Negotiated,
        NegotiationFails, TakeBlock, Sent, SendFails, Received, ReceivedNothing,
        ReceiveFails, Store, Exit, Flag
  <2> QED
    BY <2>1 DEF IInv
<1> USE DEF IInv, TypeOK, ModuleStates, PCs, flags, panel, Goto, AtMostOne, ConnectedIsServed, StartingInv, ThreadInv, Live
<1>1. CASE ProcessError
  BY <1>1 DEF ProcessError, ErrorOver
<1>2. CASE ProcessRetry
  BY <1>2 DEF ProcessRetry, ErrorOver, Settled
<1>3. CASE ProcessNotConnected
  BY <1>3 DEF ProcessNotConnected, ClearedLength, ResetFlags
<1>4. CASE ProcessStart
  BY <1>4 DEF ProcessStart, MayStart
<1>5. CASE ProcessListening
  BY <1>5 DEF ProcessListening, AfterListening, ClearedLength
<1>6. CASE ProcessNegotiating
  BY <1>6 DEF ProcessNegotiating, AfterNegotiating, ClearedLength
<1>7. CASE ProcessConnected
  BY <1>7 DEF ProcessConnected, LengthAfterPush, MustStop, ShutdownServer
<1>8. CASE LosePeer
  BY <1>8 DEF LosePeer
<1>9. CASE Patch
  BY <1>9 DEF Patch
<1>10. CASE \E t \in Threads : ServerLoop(t)
  <2> SUFFICES ASSUME NEW t \in Threads, ServerLoop(t) PROVE Rest'
    BY <1>10
  <2>1. CASE SocketFails(t)
    BY <2>1 DEF SocketFails
  <2>2. CASE OptionFails(t)
    BY <2>2 DEF OptionFails
  <2>3. CASE OpenSocket(t)
    BY <2>3 DEF OpenSocket
  <2>4. CASE PortRejected(t)
    BY <2>4 DEF PortRejected
  <2>5. CASE BindFails(t)
    BY <2>5 DEF BindFails
  <2>6. CASE Listen(t)
    BY <2>6 DEF Listen
  <2>7. CASE Accepted(t)
    BY <2>7 DEF Accepted
  <2>8. CASE AcceptFails(t)
    BY <2>8 DEF AcceptFails
  <2>9. CASE SkipNegotiation(t)
    BY <2>9 DEF SkipNegotiation
  <2>10. CASE BeginNegotiation(t)
    BY <2>10 DEF BeginNegotiation
  <2>11. CASE Negotiated(t)
    BY <2>11 DEF Negotiated
  <2>12. CASE NegotiationFails(t)
    BY <2>12 DEF NegotiationFails
  <2>13. CASE TakeBlock(t)
    <3>1. moduleState = "CONNECTED" /\ ~errorState
      BY <2>13, SessionAssumption DEF TakeBlock, Ready, Exceeds
    <3> QED
      BY <2>13, <3>1 DEF TakeBlock
  <2>14. CASE Sent(t)
    BY <2>14 DEF Sent
  <2>15. CASE SendFails(t)
    BY <2>15 DEF SendFails, Fail
  <2>16. CASE Received(t)
    BY <2>16 DEF Received
  <2>17. CASE ReceivedNothing(t)
    BY <2>17 DEF ReceivedNothing
  <2>18. CASE ReceiveFails(t)
    BY <2>18 DEF ReceiveFails, Fail
  <2>19. CASE Store(t)
    BY <2>19 DEF Store
  <2>20. CASE Exit(t)
    BY <2>20 DEF Exit, ShutdownServer
  <2>21. CASE Flag(t)
    BY <2>21 DEF Flag
  <2> QED
    BY <2>1, <2>2, <2>3, <2>4, <2>5, <2>6, <2>7, <2>8, <2>9, <2>10, <2>11, <2>12, <2>13, <2>14, <2>15, <2>16, <2>17, <2>18, <2>19, <2>20, <2>21 DEF ServerLoop
<1>11. CASE UNCHANGED vars
  BY <1>11 DEF vars
<1> QED
  BY <1>1, <1>2, <1>3, <1>4, <1>5, <1>6, <1>7, <1>8, <1>9, <1>10, <1>11 DEF Next, Process

\* The inductive invariant holds in every reachable state.
THEOREM Invariance == Spec => []IInv
BY InitIInv, StepIInv, PTL DEF Spec

------------------------------------------------------------------------------
\* Every variable keeps its type: in particular errorCounter never runs past the
\* eight seconds it counts (RadioServer.cpp:244).
THEOREM TypeCorrect == Spec => []TypeOK
<1>1. IInv => TypeOK
  BY DEF IInv
<1> QED
  BY <1>1, Invariance, PTL

\* startListen never creates a second thread beside a living one (Server.cpp:355),
\* whatever else fails and however often the module retries, up to the first failed
\* setsockopt (Server.cpp:154).
THEOREM SingleThread == Spec => []OneServerThread
<1>1. IInv => OneServerThread
  BY DEF IInv, OneServerThread
<1> QED
  BY <1>1, Invariance, PTL

\* clearBuffers, which takes no lock (Server.cpp:125), is never called while a
\* thread uses the buffers, up to the first failed setsockopt.
THEOREM ClearIsSafe == Spec => []NoUnlockedClearRace
<1>1. IInv => NoUnlockedClearRace
  <2> SUFFICES ASSUME IInv, optionsSet, NEW t \in Threads, UsesBuffers(t),
                      moduleState \in {"NOT_CONNECTED", "LISTENING", "NEGOTIATING"}
               PROVE  FALSE
    BY DEF NoUnlockedClearRace
  <2>1. ThreadInv(t) /\ pc[t] \notin {"send", "recv", "store"}
    BY DEF IInv, ThreadInv
  <2>2. pc[t] = "loop" /\ Ready
    BY <2>1 DEF UsesBuffers
  <2>3. inLen = 0 /\ blockSize \in Int
    BY <2>1, <2>2, SessionAssumption DEF ThreadInv, IInv, TypeOK
  <2> QED
    BY <2>2, <2>3 DEF Ready, Exceeds
<1> QED
  BY <1>1, Invariance, PTL

\* A thread waits in accept() on a listening socket and with clean flags, whatever
\* the session before left (Server.cpp:183, 351), up to the first failed setsockopt.
THEOREM CleanAccept == Spec => []AcceptsOnCleanSocket
<1>1. IInv => AcceptsOnCleanSocket
  BY DEF IInv, ThreadInv, AcceptsOnCleanSocket
<1> QED
  BY <1>1, Invariance, PTL

\* connected is up only while a thread stands in the exchange (Server.cpp:198),
\* whatever fails.
THEOREM ConnectionServed == Spec => []ConnectedIsServed
<1>1. IInv => ConnectedIsServed
  BY DEF IInv
<1> QED
  BY <1>1, Invariance, PTL

\* Only a failed socket call ends the loop of Server.cpp:204, up to the first failed
\* setsockopt.
THEOREM LoopEndsByErrorOnly == Spec => []LoopRuns
<1>1. IInv => LoopRuns
  BY DEF IInv, ThreadInv, LoopRuns
<1> QED
  BY <1>1, Invariance, PTL

\* The branch that skips the negotiation is taken without a client only
\* (Server.cpp:192), up to the first failed setsockopt.
THEOREM ClientsAreNegotiatedWith == Spec => NegotiatesWithEveryClient
<1> DEFINE Skips == optionsSet => \A t \in Threads :
                       pc[t] = "decide" /\ pc'[t] = "loop" => peer = "none"
<1>1. IInv /\ [Next]_vars => [Skips]_vars
  <2> SUFFICES ASSUME IInv, Next, optionsSet, NEW u \in Threads,
                      pc[u] = "decide", pc'[u] = "loop"
               PROVE  peer = "none"
    OBVIOUS
  <2>1. ThreadInv(u) /\ pc \in [Threads -> PCs]
    BY DEF IInv, TypeOK
  <2>2. ~Process /\ ~LosePeer /\ ~Patch
    BY <2>1 DEF Process, ProcessError, ProcessRetry, ProcessNotConnected,
          ProcessStart, ProcessListening, ProcessNegotiating, ProcessConnected,
          LosePeer, Patch, Goto
  <2>3. PICK t \in Threads : ServerLoop(t)
    BY <2>2 DEF Next
  <2>4. errorState
    BY <2>1, <2>3 DEF ServerLoop, Goto, Fail, SocketFails, OptionFails, OpenSocket,
          PortRejected, BindFails, Listen, Accepted, AcceptFails, SkipNegotiation,
          BeginNegotiation, Negotiated, NegotiationFails, TakeBlock, Sent,
          SendFails, Received, ReceivedNothing, ReceiveFails, Store, Exit, Flag
  <2> QED
    BY <2>1, <2>4 DEF ThreadInv
<1> QED
  BY <1>1, Invariance, PTL DEF Spec, NegotiatesWithEveryClient

\* A thread that listened leaves running down when it returns: nothing but a failed
\* bind() or a refused port can make a later startListen a no-op (Server.cpp:308), up
\* to the first failed setsockopt.
THEOREM ListenersLeaveCleanly == Spec => LeavesNotRunning
<1> DEFINE Leaves == optionsSet => \A t \in Threads :
                       pc[t] \notin {"none", "bind"} /\ pc'[t] = "none" => ~running'
<1>1. IInv /\ [Next]_vars => [Leaves]_vars
  <2> SUFFICES ASSUME IInv, Next, optionsSet, NEW u \in Threads,
                      pc[u] \notin {"none", "bind"}, pc'[u] = "none"
               PROVE  ~running'
    OBVIOUS
  <2>1. ThreadInv(u) /\ pc \in [Threads -> PCs]
    BY DEF IInv, TypeOK
  <2>2. ~Process /\ ~LosePeer /\ ~Patch
    BY <2>1 DEF Process, ProcessError, ProcessRetry, ProcessNotConnected,
          ProcessStart, ProcessListening, ProcessNegotiating, ProcessConnected,
          LosePeer, Patch, Goto
  <2>3. PICK t \in Threads : ServerLoop(t)
    BY <2>2 DEF Next
  <2>4. Flag(u)
    BY <2>1, <2>3 DEF ServerLoop, Goto, Fail, SocketFails, OptionFails, OpenSocket,
          PortRejected, BindFails, Listen, Accepted, AcceptFails, SkipNegotiation,
          BeginNegotiation, Negotiated, NegotiationFails, TakeBlock, Sent,
          SendFails, Received, ReceivedNothing, ReceiveFails, Store, Exit, Flag
  <2> QED
    BY <2>1, <2>4 DEF ThreadInv, Flag
<1> QED
  BY <1>1, Invariance, PTL DEF Spec, LeavesNotRunning

------------------------------------------------------------------------------
\* Of the ports a client may name, the server refuses those whose low byte is below
\* four, 1024 and 5376 among them: its check sees the bytes swapped (Server.cpp:159).
THEOREM RefusedPorts ==
    ASSUME NEW port \in Nat, 1024 <= port, port < 65535
    PROVE  Refused(port) <=> port % 256 < 4
<1> DEFINE low  == port % 256
           high == port \div 256
<1>1. low \in Nat /\ low < 256
  OBVIOUS
<1>2. high \in Nat
  OBVIOUS
<1>3. port = (256 * high) + low
  OBVIOUS
<1>4. high < 256
  OBVIOUS
<1>5. port % 65536 = port
  OBVIOUS
<1>6. Htons(port) = (256 * low) + high
  BY <1>5 DEF Htons
<1> HIDE DEF low, high
<1>7. (256 * low) + high < 1024 <=> low < 4
  BY <1>1, <1>2, <1>4
<1>8. (256 * low) + high < 65535
  BY <1>1, <1>2, <1>3, <1>4
<1>9. Refused(port) <=> low < 4
  BY <1>1, <1>2, <1>6, <1>7, <1>8 DEF Refused
<1> QED
  BY <1>9 DEF low

================================================================================
