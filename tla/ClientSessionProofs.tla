-------------------------- MODULE ClientSessionProofs --------------------------
(***************************************************************************)
(* What ClientSession guarantees for every sample rate, every panel, every *)
(* set of threads, every server and every combination of faults.           *)
(***************************************************************************)
EXTENDS ClientSession, TLAPS

\* The initial state satisfies the inductive invariant.
LEMMA InitIInv == Init => IInv
<1> SUFFICES ASSUME Init PROVE IInv
  OBVIOUS
<1>1. TypeOK
  <2>1. /\ 0 \in 0..(ErrorLimit + 1) /\ 0 \in 0..RecvTimeout
        /\ MaxOut \in 0..MaxOut /\ PanelSizes \subseteq Int
    BY ClientAssumption DEF ErrorLimit, RecvTimeout
  <2>2. pc \in [Threads -> PCs] /\ waited \in [Threads -> 0..RecvTimeout]
    BY <2>1 DEF Init, PCs
  <2>3. blockLen \in Lens \cup {0} /\ toStore \in 0..blockLen
    BY DEF Init
  <2> QED
    BY <2>1, <2>2, <2>3 DEF Init, TypeOK, ModuleStates
<1>2. \A t \in Threads : pc[t] = "none"
  BY DEF Init
<1>3. /\ OneClientThread /\ NoUnlockedClearRace /\ OutputBounded
      /\ \A t \in Threads : ThreadInv(t)
  BY <1>2 DEF OneClientThread, NoUnlockedClearRace, OutputBounded, Live, ThreadInv
<1>4. FlagsHaveThread /\ ModuleInv
  BY DEF Init, FlagsHaveThread, ModuleInv
<1> QED
  BY <1>1, <1>3, <1>4 DEF IInv

\* The actions leave every variable in its type.
LEMMA TypeInductive == IInv /\ [Next]_vars => TypeOK'
<1> SUFFICES ASSUME IInv, [Next]_vars PROVE TypeOK'
  OBVIOUS
<1> USE ClientAssumption
    DEF IInv, TypeOK, ErrorLimit, RecvTimeout, ModuleStates, PCs, flags, module, block,
        buffer, Goto
<1>1. CASE ProcessError
  BY <1>1 DEF ProcessError, ErrorOver, ErrorLimit, Tick, Blocked, TimedOut
<1>2. CASE ProcessRetry
  BY <1>2 DEF ProcessRetry, ErrorOver, Settled, ErrorLimit, RecvTimeout, Tick, Blocked, TimedOut
<1>3. CASE ProcessNotConnected
  <2>1. running' \in BOOLEAN /\ connected' \in BOOLEAN /\ errorState' \in BOOLEAN
    BY <1>3 DEF ProcessNotConnected, Tick, Blocked, TimedOut
  <2>2. pc' \in [Threads -> PCs] /\ waited' \in [Threads -> 0..RecvTimeout]
    BY <1>3 DEF ProcessNotConnected, Tick, Blocked, TimedOut
  <2> QED
    BY <1>3, <2>1, <2>2 DEF ProcessNotConnected, Tick, Blocked, TimedOut
<1>4. CASE ProcessStart
  <2>1. running' \in BOOLEAN /\ connected' \in BOOLEAN /\ errorState' \in BOOLEAN
    BY <1>4 DEF ProcessStart, MayStart
  <2>2. pc' \in [Threads -> PCs] /\ waited' \in [Threads -> 0..RecvTimeout]
    BY <1>4 DEF ProcessStart, MayStart
  <2> QED
    BY <1>4, <2>1, <2>2 DEF ProcessStart, MayStart
<1>5. CASE ProcessBadPort
  BY <1>5 DEF ProcessBadPort
<1>6. CASE ProcessConnecting
  BY <1>6 DEF ProcessConnecting, AfterConnecting, Tick, Blocked, TimedOut
<1>7. CASE ProcessConnected
  BY <1>7 DEF ProcessConnected, AfterConnected, LengthAfterGet, Tick, Blocked, TimedOut
<1>8. CASE LosePeer
  BY <1>8 DEF LosePeer
<1>9. CASE \E t \in Threads : ClientLoop(t)
  <2> SUFFICES ASSUME NEW t \in Threads, ClientLoop(t) PROVE TypeOK'
    BY <1>9
  <2>1. CASE OpenSocket(t)
    BY <2>1 DEF OpenSocket
  <2>2. CASE SocketFails(t)
    <3>1. running' \in BOOLEAN /\ connected' \in BOOLEAN /\ errorState' \in BOOLEAN
      BY <2>2 DEF SocketFails
    <3>2. pc' \in [Threads -> PCs] /\ waited' \in [Threads -> 0..RecvTimeout]
      BY <2>2 DEF SocketFails
    <3> QED
      BY <2>2, <3>1, <3>2 DEF SocketFails
  <2>3. CASE Resolved(t)
    BY <2>3 DEF Resolved
  <2>4. CASE ResolveFails(t)
    <3>1. running' \in BOOLEAN /\ connected' \in BOOLEAN /\ errorState' \in BOOLEAN
      BY <2>4 DEF ResolveFails, ShutdownClient
    <3>2. pc' \in [Threads -> PCs] /\ waited' \in [Threads -> 0..RecvTimeout]
      BY <2>4 DEF ResolveFails, ShutdownClient
    <3> QED
      BY <2>4, <3>1, <3>2 DEF ResolveFails, ShutdownClient
  <2>5. CASE Connected(t)
    BY <2>5 DEF Connected
  <2>6. CASE ConnectFails(t)
    <3>1. running' \in BOOLEAN /\ connected' \in BOOLEAN /\ errorState' \in BOOLEAN
      BY <2>6 DEF ConnectFails
    <3>2. pc' \in [Threads -> PCs] /\ waited' \in [Threads -> 0..RecvTimeout]
      BY <2>6 DEF ConnectFails
    <3> QED
      BY <2>6, <3>1, <3>2 DEF ConnectFails
  <2>7. CASE Negotiated(t)
    <3>1. running' \in BOOLEAN /\ connected' \in BOOLEAN /\ errorState' \in BOOLEAN
      BY <2>7 DEF Negotiated
    <3>2. pc' \in [Threads -> PCs] /\ waited' \in [Threads -> 0..RecvTimeout]
      BY <2>7 DEF Negotiated
    <3> QED
      BY <2>7, <3>1, <3>2 DEF Negotiated
  <2>8. CASE NegotiationFails(t)
    <3>1. running' \in BOOLEAN /\ connected' \in BOOLEAN /\ errorState' \in BOOLEAN
      BY <2>8 DEF NegotiationFails, GiveUp
    <3>2. pc' \in [Threads -> PCs] /\ waited' \in [Threads -> 0..RecvTimeout]
      BY <2>8 DEF NegotiationFails, GiveUp
    <3> QED
      BY <2>8, <3>1, <3>2 DEF NegotiationFails, GiveUp
  <2>9. CASE ReceiveHeader(t)
    BY <2>9 DEF ReceiveHeader, TakeHeader
  <2>10. CASE ReceiveNothing(t)
    BY <2>10 DEF ReceiveNothing, TakeHeader
  <2>11. CASE ReceiveFails(t)
    <3>1. running' \in BOOLEAN /\ connected' \in BOOLEAN /\ errorState' \in BOOLEAN
      BY <2>11 DEF ReceiveFails, GiveUp
    <3>2. pc' \in [Threads -> PCs] /\ waited' \in [Threads -> 0..RecvTimeout]
      BY <2>11 DEF ReceiveFails, GiveUp
    <3> QED
      BY <2>11, <3>1, <3>2 DEF ReceiveFails, GiveUp
  <2>12. CASE ReceivePayload(t)
    BY <2>12 DEF ReceivePayload
  <2>13. CASE PayloadFails(t)
    <3>1. running' \in BOOLEAN /\ connected' \in BOOLEAN /\ errorState' \in BOOLEAN
      BY <2>13 DEF PayloadFails, GiveUpLoudly
    <3>2. pc' \in [Threads -> PCs] /\ waited' \in [Threads -> 0..RecvTimeout]
      BY <2>13 DEF PayloadFails, GiveUpLoudly
    <3> QED
      BY <2>13, <3>1, <3>2 DEF PayloadFails, GiveUpLoudly
  <2>14. CASE StoreFrame(t)
    BY <2>14 DEF StoreFrame, Full
  <2>15. CASE StoreDone(t)
    BY <2>15 DEF StoreDone
  <2>16. CASE Reply(t)
    BY <2>16 DEF Reply
  <2>17. CASE ReplyFails(t)
    <3>1. running' \in BOOLEAN /\ connected' \in BOOLEAN /\ errorState' \in BOOLEAN
      BY <2>17 DEF ReplyFails, GiveUpLoudly, Gone
    <3>2. pc' \in [Threads -> PCs] /\ waited' \in [Threads -> 0..RecvTimeout]
      BY <2>17 DEF ReplyFails, GiveUpLoudly, Gone
    <3> QED
      BY <2>17, <3>1, <3>2 DEF ReplyFails, GiveUpLoudly, Gone
  <2>18. CASE Exit(t)
    <3>1. running' \in BOOLEAN /\ connected' \in BOOLEAN /\ errorState' \in BOOLEAN
      BY <2>18 DEF Exit, ShutdownClient
    <3>2. pc' \in [Threads -> PCs] /\ waited' \in [Threads -> 0..RecvTimeout]
      BY <2>18 DEF Exit, ShutdownClient
    <3> QED
      BY <2>18, <3>1, <3>2 DEF Exit, ShutdownClient
  <2>19. CASE Flag(t)
    BY <2>19 DEF Flag
  <2> QED
    BY <2>1, <2>2, <2>3, <2>4, <2>5, <2>6, <2>7, <2>8, <2>9, <2>10, <2>11, <2>12, <2>13, <2>14, <2>15, <2>16, <2>17, <2>18, <2>19 DEF ClientLoop
<1>10. CASE UNCHANGED vars
  BY <1>10 DEF vars
<1> QED
  BY <1>1, <1>2, <1>3, <1>4, <1>5, <1>6, <1>7, <1>8, <1>9, <1>10 DEF Next, Process

\* The flags, the module's state, the clock and the threads keep their relation.
LEMMA StepIInv == IInv /\ [Next]_vars => IInv'
<1> SUFFICES ASSUME IInv, [Next]_vars PROVE IInv'
  OBVIOUS
<1> DEFINE Rest == /\ OneClientThread /\ NoUnlockedClearRace /\ FlagsHaveThread
                   /\ OutputBounded /\ ModuleInv
                   /\ \A u \in Threads : ThreadInv(u)
<1> TypeOK'
  BY TypeInductive
<1> SUFFICES Rest'
  BY DEF IInv
<1> USE ClientAssumption
    DEF IInv, TypeOK, ModuleStates, PCs, flags, module, block, buffer, Goto, Live,
        OneClientThread, NoUnlockedClearRace, FlagsHaveThread, OutputBounded,
        ModuleInv, ThreadInv
<1>1. CASE ProcessError
  BY <1>1 DEF ProcessError, ErrorOver, ErrorLimit, Tick, Blocked, TimedOut
<1>2. CASE ProcessRetry
  BY <1>2 DEF ProcessRetry, ErrorOver, Settled, ErrorLimit, RecvTimeout, Tick, Blocked, TimedOut
<1>3. CASE ProcessNotConnected
  BY <1>3 DEF ProcessNotConnected, Tick, Blocked, TimedOut
<1>4. CASE ProcessStart
  BY <1>4 DEF ProcessStart, MayStart
<1>5. CASE ProcessBadPort
  BY <1>5 DEF ProcessBadPort
<1>6. CASE ProcessConnecting
  BY <1>6 DEF ProcessConnecting, AfterConnecting, Tick, Blocked, TimedOut
<1>7. CASE ProcessConnected
  BY <1>7 DEF ProcessConnected, AfterConnected, LengthAfterGet, Tick, Blocked, TimedOut
<1>8. CASE LosePeer
  BY <1>8 DEF LosePeer
<1>9. CASE \E t \in Threads : ClientLoop(t)
  <2> SUFFICES ASSUME NEW t \in Threads, ClientLoop(t) PROVE Rest'
    BY <1>9
  <2>1. CASE OpenSocket(t)
    BY <2>1 DEF OpenSocket
  <2>2. CASE SocketFails(t)
    BY <2>2 DEF SocketFails
  <2>3. CASE Resolved(t)
    BY <2>3 DEF Resolved
  <2>4. CASE ResolveFails(t)
    BY <2>4 DEF ResolveFails, ShutdownClient
  <2>5. CASE Connected(t)
    BY <2>5 DEF Connected
  <2>6. CASE ConnectFails(t)
    BY <2>6 DEF ConnectFails
  <2>7. CASE Negotiated(t)
    BY <2>7 DEF Negotiated
  <2>8. CASE NegotiationFails(t)
    BY <2>8 DEF NegotiationFails, GiveUp
  <2>9. CASE ReceiveHeader(t)
    BY <2>9 DEF ReceiveHeader, TakeHeader
  <2>10. CASE ReceiveNothing(t)
    BY <2>10 DEF ReceiveNothing, TakeHeader
  <2>11. CASE ReceiveFails(t)
    BY <2>11 DEF ReceiveFails, GiveUp
  <2>12. CASE ReceivePayload(t)
    BY <2>12 DEF ReceivePayload
  <2>13. CASE PayloadFails(t)
    BY <2>13 DEF PayloadFails, GiveUpLoudly
  <2>14. CASE StoreFrame(t)
    BY <2>14 DEF StoreFrame, Full
  <2>15. CASE StoreDone(t)
    BY <2>15 DEF StoreDone
  <2>16. CASE Reply(t)
    BY <2>16 DEF Reply
  <2>17. CASE ReplyFails(t)
    BY <2>17 DEF ReplyFails, GiveUpLoudly, Gone
  <2>18. CASE Exit(t)
    BY <2>18 DEF Exit, ShutdownClient
  <2>19. CASE Flag(t)
    BY <2>19 DEF Flag
  <2> QED
    BY <2>1, <2>2, <2>3, <2>4, <2>5, <2>6, <2>7, <2>8, <2>9, <2>10, <2>11, <2>12, <2>13, <2>14, <2>15, <2>16, <2>17, <2>18, <2>19 DEF ClientLoop
<1>10. CASE UNCHANGED vars
  BY <1>10 DEF vars
<1> QED
  BY <1>1, <1>2, <1>3, <1>4, <1>5, <1>6, <1>7, <1>8, <1>9, <1>10 DEF Next, Process

\* The inductive invariant holds in every reachable state.
THEOREM Invariance == Spec => []IInv
BY InitIInv, StepIInv, PTL DEF Spec

------------------------------------------------------------------------------
\* Every variable keeps its type: no recv() outlasts its timeout and errorCounter
\* never runs past the eight seconds it counts (RadioClient.cpp:224).
THEOREM TypeCorrect == Spec => []TypeOK
<1>1. IInv => TypeOK
  BY DEF IInv
<1> QED
  BY <1>1, Invariance, PTL

\* connectToHost never creates a second thread beside a living one
\* (Client.cpp:375), since a recv() gives up before the module tries again.
THEOREM SingleThread == Spec => []OneClientThread
<1>1. IInv => OneClientThread
  BY DEF IInv
<1> QED
  BY <1>1, Invariance, PTL

\* While a thread exchanges blocks its socket is open and both flags are up
\* (Client.cpp:218-334).
THEOREM SocketStaysOpen == Spec => []SocketOpenInExchange
<1>1. IInv => SocketOpenInExchange
  BY DEF IInv, ThreadInv, SocketOpenInExchange
<1> QED
  BY <1>1, Invariance, PTL

\* When NOT_CONNECTED clears the buffers without a lock no thread is left
\* (Client.cpp:128, RadioClient.cpp:215).
THEOREM ClearIsSafe == Spec => []NoUnlockedClearRace
<1>1. IInv => NoUnlockedClearRace
  BY DEF IInv
<1> QED
  BY <1>1, Invariance, PTL

\* running and connected are up only while a thread is there (Client.cpp:375, 427).
THEOREM FlagsServed == Spec => []FlagsHaveThread
<1>1. IInv => FlagsHaveThread
  BY DEF IInv
<1> QED
  BY <1>1, Invariance, PTL

\* The output buffer never holds more than 2.2 times the longest block and one
\* frame (Client.cpp:272).
THEOREM OutputStaysBounded == Spec => []OutputBounded
<1>1. IInv => OutputBounded
  BY DEF IInv
<1> QED
  BY <1>1, Invariance, PTL

================================================================================
