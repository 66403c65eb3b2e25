------------------------------ MODULE StreamProofs ------------------------------
(***************************************************************************)
(* What Stream guarantees for every block length, every choice of cables   *)
(* and every length of a session; at the end, that both directions         *)
(* implement LossyFifo: whatever is dropped on the way, frames are played  *)
(* in the order of their capture and none twice.                           *)
(***************************************************************************)
EXTENDS Stream, SequenceTheorems, TLAPS

------------------------------------------------------------------------------
(* What is popped, packed and sent.                                        *)

LEMMA FunctionIsSeq ==
    ASSUME NEW S, NEW n \in Nat, NEW f \in [1..n -> S]
    PROVE  f \in Seq(S) /\ Len(f) = n
<1>1. f \in Seq(S)
  BY SeqDef
<1> QED
  BY <1>1, LenProperties, SMT

\* Popping n frames always gives n frames: silence fills up.
LEMMA PoppedIsBlock ==
    ASSUME NEW q \in Seq(Frames), NEW n \in Nat
    PROVE  Popped(q, n) \in Seq(Frames) /\ Len(Popped(q, n)) = n
<1>1. Silence \in Frames
  BY DEF Silence, Frames
<1>2. \A i \in 1..n : i <= Len(q) => q[i] \in Frames
  BY LenProperties, ElementOfSeq, SMT
<1>3. Popped(q, n) \in [1..n -> Frames]
  BY <1>1, <1>2 DEF Popped
<1> QED
  BY <1>3, FunctionIsSeq

\* What is left is the tail end.
LEMMA LeftIsEnd ==
    ASSUME NEW q \in Seq(Frames), NEW n \in Nat
    PROVE  /\ Left(q, n) \in Seq(Frames)
           /\ \A i \in DOMAIN Left(q, n) : i + n \in DOMAIN q /\ Left(q, n)[i] = q[i + n]
<1>1. \A i \in (n + 1)..Len(q) : q[i] \in Frames
  BY LenProperties, ElementOfSeq, SMT
<1>2. /\ Left(q, n) \in Seq(Frames)
      /\ Len(Left(q, n)) = IF n + 1 <= Len(q) THEN Len(q) - n ELSE 0
      /\ \A i \in 1..(Len(q) - n) : Left(q, n)[i] = q[i + n]
  BY <1>1, SubSeqProperties, LenProperties, SMT DEF Left
<1>3. DOMAIN Left(q, n) = 1..Len(Left(q, n)) /\ DOMAIN q = 1..Len(q) /\ Len(q) \in Nat
  BY <1>2, LenProperties
<1>4. CASE n + 1 <= Len(q)
  <2>1. DOMAIN Left(q, n) = 1..(Len(q) - n)
    BY <1>2, <1>3, <1>4
  <2>2. \A i \in 1..(Len(q) - n) : i + n \in 1..Len(q)
    BY <1>3, SMT
  <2> QED
    BY <1>2, <1>3, <2>1, <2>2
<1>5. CASE ~(n + 1 <= Len(q))
  <2>1. DOMAIN Left(q, n) = 1..0
    BY <1>2, <1>3, <1>5
  <2> QED
    BY <1>2, <2>1, SMT
<1> QED
  BY <1>4, <1>5

\* A header without its block, and with it.
LEMMA PacketTypes ==
    ASSUME NEW h \in Headers, NEW q \in Seq(Frames)
    PROVE  Packet(h) \in Items /\ Block(h, q) \in Items
<1>1. <<>> \in Seq(Frames)
  BY EmptySeq
<1> QED
  BY <1>1 DEF Packet, Block, Items

LEMMA BytesIsNat ==
    ASSUME NEW h \in Headers PROVE Bytes(h) \in Nat
<1>1. \A m, n \in Nat : m * n \in Nat
  BY SMT
<1>2. FloatSize \in Nat /\ h.ch \in Nat /\ h.len \in Nat
  BY StreamAssumption DEF Headers
<1>3. FloatSize * h.ch \in Nat
  BY <1>1, <1>2
<1> QED
  BY <1>1, <1>2, <1>3 DEF Bytes

\* A queue without its head.
LEMMA TailKeeps ==
    ASSUME NEW S, NEW s \in Seq(S), s # <<>>
    PROVE  /\ Head(s) \in S /\ Tail(s) \in Seq(S)
           /\ Head(s) = s[1] /\ Len(s) \in Nat \ {0} /\ Len(Tail(s)) = Len(s) - 1
           /\ \A i \in DOMAIN Tail(s) : i + 1 \in DOMAIN s /\ Tail(s)[i] = s[i + 1]
<1>1. Tail(s) \in Seq(S) /\ Head(s) \in S /\ Len(s) \in Nat \ {0}
  BY HeadTailProperties, EmptySeq
<1> QED
  BY <1>1, HeadTailProperties, LenProperties, SMT

LEMMA AppendAdds ==
    ASSUME NEW S, NEW s \in Seq(S), NEW x \in S
    PROVE  /\ Append(s, x) \in Seq(S) /\ Append(s, x) # <<>>
           /\ DOMAIN Append(s, x) = DOMAIN s \cup {Len(s) + 1}
           /\ \A i \in DOMAIN s : Append(s, x)[i] = s[i]
           /\ Append(s, x)[Len(s) + 1] = x
  BY AppendProperties, LenProperties, SMT

------------------------------------------------------------------------------
(* Types.                                                                  *)

LEMMA InitTyped == Init => TypeOK
<1> SUFFICES ASSUME Init PROVE TypeOK
  OBVIOUS
<1>1. <<>> \in Seq(Frames) /\ <<>> \in Seq(Received) /\ <<>> \in Seq(Items)
  BY EmptySeq
<1> QED
  BY <1>1, StreamAssumption DEF Init, TypeOK, Ends, Headers, AudioPCs, NetPCs

\* What Ship leaves in the buffer and puts on the wire.
LEMMA ShipTyped ==
    ASSUME TypeOK, NEW e \in Ends, NEW to \in Ends, NEW h \in Headers, Ship(e, h, to)
    PROVE  in' \in [Ends -> Seq(Frames)] /\ wire' \in [Ends -> Seq(Items)]
<1>1. Packet(h) \in Items /\ Block(h, Popped(in[e], h.len)) \in Items
  BY PacketTypes, PoppedIsBlock DEF TypeOK, Headers
<1>2. Left(in[e], h.len) \in Seq(Frames)
  BY LeftIsEnd DEF TypeOK, Headers
<1>3. wire[to] \o <<Packet(h), Block(h, Popped(in[e], h.len))>> \in Seq(Items)
  <2>1. <<Packet(h), Block(h, Popped(in[e], h.len))>> \in Seq(Items)
    BY <1>1
  <2> QED
    BY <2>1, ConcatProperties DEF TypeOK
<1>4. Append(wire[to], Packet(h)) \in Seq(Items)
  BY <1>1, AppendProperties DEF TypeOK
<1>5. in \in [Ends -> Seq(Frames)] /\ wire \in [Ends -> Seq(Items)]
  BY DEF TypeOK
<1> QED
  BY <1>2, <1>3, <1>4, <1>5 DEF Ship

\* The frame of a cable of c channels goes into inputBuffer, or is dropped.
Puts(e, c) ==
    /\ (c = 0) = (audio[e] = "put")
    /\ cable' = [cable EXCEPT ![e] = c]
    /\ in' = [in EXCEPT ![e] = IF e = "server" \/ ClientTakes(@)
                               THEN Append(@, [id |-> captured[e] + 1, ch |-> c])
                               ELSE @]
    /\ audio' = [audio EXCEPT ![e] = IF c = local[e] THEN "get" ELSE "relabel"]
    /\ replugged' = [replugged EXCEPT ![e] = @ \/ (Preparing(e) /\ c # local[e])]

LEMMA PutsOne ==
    ASSUME NEW e \in Ends, AudioPut(e)
    PROVE  \E c \in Channels : Puts(e, c)
  BY DEF AudioPut, Puts, AudioGoto

LEMMA PutTyped ==
    ASSUME TypeOK, NEW e \in Ends, NEW c \in Channels, Puts(e, c)
    PROVE  /\ [id |-> captured[e] + 1, ch |-> c] \in Frames
           /\ in' \in [Ends -> Seq(Frames)]
           /\ in'[e] \in {in[e], Append(in[e], [id |-> captured[e] + 1, ch |-> c])}
           /\ \A x \in Ends \ {e} : in'[x] = in[x]
<1> DEFINE frame == [id |-> captured[e] + 1, ch |-> c]
<1>1. frame \in Frames /\ in[e] \in Seq(Frames)
  BY StreamAssumption DEF TypeOK, Frames
<1>2. in' = [in EXCEPT ![e] = IF e = "server" \/ ClientTakes(@) THEN Append(@, frame) ELSE @]
  BY DEF Puts
<1> HIDE DEF frame
<1>3. Append(in[e], frame) \in Seq(Frames)
  BY <1>1, AppendProperties
<1>4. /\ in' \in [Ends -> Seq(Frames)] /\ in'[e] \in {in[e], Append(in[e], frame)}
      /\ \A x \in Ends \ {e} : in'[x] = in[x]
  BY <1>1, <1>2, <1>3 DEF TypeOK
<1> QED
  BY <1>1, <1>4 DEF frame

LEMMA AudioTyped == ASSUME TypeOK, NEW e \in Ends, Audio(e) PROVE TypeOK'
<1> USE DEF AudioGoto, ClearQueues, queues
<1>1. CASE AudioGet(e)
  <2>1. CASE out[e] = <<>>
    BY <1>1, <2>1 DEF AudioGet, TypeOK, AudioPCs
  <2>2. CASE out[e] # <<>>
    <3>1. Tail(out[e]) \in Seq(Received) /\ Head(out[e]) \in Received
      BY <2>2, TailKeeps DEF TypeOK
    <3>2. Head(out[e]).id \in Nat
      BY <3>1 DEF Received
    <3>3. played' \in [Ends -> [times : Nat, id : Nat]]
      <4> DEFINE now == IF Head(out[e]).id = 0 THEN played[e]
                        ELSE [times |-> played[e].times + 1, id |-> Head(out[e]).id]
      <4>1. played[e] \in [times : Nat, id : Nat]
        BY DEF TypeOK
      <4>2. now \in [times : Nat, id : Nat]
        BY <3>2, <4>1
      <4>3. played' = [played EXCEPT ![e] = now]
        BY <1>1, <2>2 DEF AudioGet
      <4> QED
        BY <4>2, <4>3 DEF TypeOK
    <3> QED
      BY <1>1, <2>2, <3>1, <3>3 DEF AudioGet, TypeOK, AudioPCs
  <2> QED
    BY <2>1, <2>2
<1>2. CASE AudioEmpty(e)
  BY <1>2, EmptySeq DEF AudioEmpty, TypeOK, AudioPCs
<1>6. CASE AudioPut(e)
  <2> PICK c \in Channels : Puts(e, c)
    BY <1>6, PutsOne
  <2>1. c \in Nat /\ in' \in [Ends -> Seq(Frames)]
    BY PutTyped, StreamAssumption
  <2>2. captured[e] + 1 \in Nat
    BY DEF TypeOK
  <2>3. cable' \in [Ends -> Nat] /\ captured' \in [Ends -> Nat]
    BY <1>6, <2>1, <2>2 DEF Puts, AudioPut, TypeOK
  <2>4. audio' \in [Ends -> AudioPCs] /\ replugged' \in [Ends -> BOOLEAN]
    BY DEF Puts, TypeOK, AudioPCs, Preparing
  <2> QED
    BY <1>6, <2>1, <2>3, <2>4 DEF AudioPut, TypeOK
<1>3. CASE AudioSkip(e)
  BY <1>3 DEF AudioSkip, TypeOK, AudioPCs
<1>4. CASE AudioRelabel(e)
  BY <1>4 DEF AudioRelabel, TypeOK, AudioPCs
<1>5. CASE AudioClear(e)
  BY <1>5, EmptySeq DEF AudioClear, TypeOK, AudioPCs
<1> QED
  BY <1>1, <1>2, <1>3, <1>4, <1>5, <1>6 DEF Audio

LEMMA SharedTyped == ASSUME TypeOK, NEW e \in Ends, Shared(e) PROVE TypeOK'
<1> USE DEF NetGoto, ClearQueues, queues
<1>1. CASE ReceiveHeader(e)
  <2>1. Head(wire[e]) \in Items /\ Tail(wire[e]) \in Seq(Items)
    BY <1>1, TailKeeps DEF ReceiveHeader, TypeOK
  <2>2. Head(wire[e]).hdr \in Headers
    BY <2>1 DEF Items
  <2> QED
    BY <1>1, <2>1, <2>2 DEF ReceiveHeader, TypeOK, NetPCs
<1>2. CASE Adopt(e)
  <2>1. header[e].ch \in Nat
    BY DEF TypeOK, Headers
  <2> QED
    BY <1>2, <2>1 DEF Adopt, TypeOK, NetPCs, AfterFlush, ExpectBlock
<1>3. CASE Flush(e)
  BY <1>3, EmptySeq DEF Flush, TypeOK, NetPCs, AfterFlush, ExpectBlock
<1>4. CASE ReceiveBlock(e)
  <2> DEFINE fs == Head(wire[e]).frames
             read == [i \in DOMAIN fs |-> ReadAs(fs[i], header[e].ch)]
  <2>1. Head(wire[e]) \in Items /\ Tail(wire[e]) \in Seq(Items)
    BY <1>4, TailKeeps DEF ReceiveBlock, TypeOK
  <2>2. read \in Seq(Received)
    <3>4. fs \in Seq(Frames)
      BY <2>1 DEF Items
    <3>1. Len(fs) \in Nat /\ DOMAIN fs = 1..Len(fs) /\ \A i \in 1..Len(fs) : fs[i] \in Frames
      BY <3>4, LenProperties, ElementOfSeq
    <3>2. header[e].ch \in Nat
      BY DEF TypeOK, Headers
    <3>3. read \in [1..Len(fs) -> Received]
      BY <3>1, <3>2 DEF Frames, Received, ReadAs
    <3> QED
      BY <3>1, <3>3, FunctionIsSeq
  <2>3. block' = [block EXCEPT ![e] = read]
    BY <1>4 DEF ReceiveBlock
  <2> HIDE DEF read
  <2>4. block' \in [Ends -> Seq(Received)]
    BY <2>2, <2>3 DEF TypeOK
  <2>5. wire' \in [Ends -> Seq(Items)] /\ pc' \in [Ends -> NetPCs]
    BY <1>4, <2>1 DEF ReceiveBlock, TypeOK, NetPCs
  <2> QED
    BY <1>4, <2>4, <2>5 DEF ReceiveBlock, TypeOK
<1>5. CASE StoreFrame(e)
  <2>1. Head(block[e]) \in Received /\ Tail(block[e]) \in Seq(Received)
    BY <1>5, TailKeeps DEF StoreFrame, TypeOK
  <2>2. Append(out[e], Head(block[e])) \in Seq(Received)
    BY <2>1, AppendProperties DEF TypeOK
  <2> QED
    BY <1>5, <2>1, <2>2 DEF StoreFrame, TypeOK
<1>6. CASE StoreDone(e)
  BY <1>6 DEF StoreDone, TypeOK, NetPCs, AfterStore
<1> QED
  BY <1>1, <1>2, <1>3, <1>4, <1>5, <1>6 DEF Shared

LEMMA TypeInductive == TypeOK /\ [Next]_vars => TypeOK'
<1> SUFFICES ASSUME TypeOK, [Next]_vars PROVE TypeOK'
  OBVIOUS
<1> USE DEF NetGoto, ClearQueues, queues, Ends
<1>1. CASE ServerBegin
  <2>1. header' \in [Ends -> Headers]
    BY <1>1, StreamAssumption DEF ServerBegin, TypeOK, Headers
  <2>2. Changing("server") \in BOOLEAN
    BY DEF Changing
  <2>3. replugged' \in [Ends -> BOOLEAN]
    BY <1>1, <2>2 DEF ServerBegin, TypeOK
  <2>4. pc' \in [Ends -> NetPCs]
    BY <1>1 DEF ServerBegin, TypeOK, NetPCs
  <2> QED
    BY <1>1, <2>1, <2>3, <2>4 DEF ServerBegin, TypeOK
<1>2. CASE ServerSend
  <2>1. in' \in [Ends -> Seq(Frames)] /\ wire' \in [Ends -> Seq(Items)]
    BY <1>2, ShipTyped DEF ServerSend, TypeOK
  <2> QED
    BY <1>2, <2>1 DEF ServerSend, TypeOK, NetPCs
<1>3. CASE ServerBacklog
  <2>1. <<>> \in Seq(Frames) /\ <<>> \in Seq(Received)
    BY EmptySeq
  <2>2. in' \in [Ends -> Seq(Frames)] /\ out' \in [Ends -> Seq(Received)]
    <3>1. in \in [Ends -> Seq(Frames)] /\ out \in [Ends -> Seq(Received)]
      BY DEF TypeOK
    <3>2. UNCHANGED <<in, out>> \/ ClearQueues("server")
      BY <1>3 DEF ServerBacklog
    <3> QED
      BY <2>1, <3>1, <3>2
  <2>3. pc' \in [Ends -> NetPCs]
    BY <1>3 DEF ServerBacklog, TypeOK, NetPCs, ExpectBlock
  <2> QED
    BY <1>3, <2>2, <2>3 DEF ServerBacklog, TypeOK
<1>4. CASE ClientMeasure
  <2>1. Len(in["client"]) \in Nat
    BY LenProperties DEF TypeOK
  <2>2. ReplyLen(header["client"]) \in Nat
    <3>1. header["client"].len + ReplySlack \in Nat
      <4>1. header["client"] \in Headers
        BY DEF TypeOK
      <4> QED
        BY <4>1, StreamAssumption DEF Headers
    <3> QED
      BY <2>1, <3>1 DEF ReplyLen, Min
  <2> QED
    BY <1>4, <2>2 DEF ClientMeasure, TypeOK, NetPCs, Headers
<1>5. CASE ClientLabel
  <2>1. header' \in [Ends -> Headers]
    BY <1>5 DEF ClientLabel, TypeOK, Headers
  <2>2. Changing("client") \in BOOLEAN
    BY DEF Changing
  <2>3. replugged' \in [Ends -> BOOLEAN]
    BY <1>5, <2>2 DEF ClientLabel, TypeOK
  <2>4. pc' \in [Ends -> NetPCs]
    BY <1>5 DEF ClientLabel, TypeOK, NetPCs
  <2> QED
    BY <1>5, <2>1, <2>3, <2>4 DEF ClientLabel, TypeOK
<1>6. CASE ClientReply
  <2>1. in' \in [Ends -> Seq(Frames)] /\ wire' \in [Ends -> Seq(Items)]
    BY <1>6, ShipTyped DEF ClientReply, TypeOK
  <2> QED
    BY <1>6, <2>1 DEF ClientReply, TypeOK, NetPCs
<1>7. CASE UNCHANGED vars
  BY <1>7 DEF vars, TypeOK
<1>8. CASE ClientResize
  <2>1. Bytes(header["client"]) \in Int
    BY BytesIsNat DEF TypeOK
  <2> QED
    BY <1>8, <2>1 DEF ClientResize, TypeOK, NetPCs
<1> QED
  BY <1>1, <1>2, <1>3, <1>4, <1>5, <1>6, <1>7, <1>8, AudioTyped, SharedTyped
     DEF Next, ServerThread, ClientThread

------------------------------------------------------------------------------
(* Turn taking and framing.                                                *)

Control == PcInv /\ Lockstep /\ WireInv /\ Framing

\* What Ship puts on an empty wire.
Sent(h, q) == IF Bytes(h) > 0 THEN <<Packet(h), Block(h, Popped(q, h.len))>>
                              ELSE <<Packet(h)>>

LEMMA ShipSends ==
    ASSUME TypeOK, NEW e \in Ends, NEW to \in Ends, NEW h \in Headers,
           Ship(e, h, to), wire[to] = <<>>
    PROVE  wire' = [wire EXCEPT ![to] = Sent(h, in[e])]
<1>1. CASE Bytes(h) > 0
  <2> DEFINE both == <<Packet(h), Block(h, Popped(in[e], h.len))>>
  <2>1. both \in Seq(Items)
    BY PacketTypes, PoppedIsBlock DEF TypeOK, Headers
  <2>2. <<>> \o both = both
    BY <2>1, ConcatEmptySeq
  <2> QED
    BY <1>1, <2>2 DEF Ship, Sent
<1>2. CASE ~(Bytes(h) > 0)
  <2>1. Append(<<>>, Packet(h)) = <<Packet(h)>>
    OBVIOUS
  <2> QED
    BY <1>2, <2>1 DEF Ship, Sent
<1> QED
  BY <1>1, <1>2

\* It begins with a header, and the block the header announces follows.
LEMMA SentIsFramed ==
    ASSUME NEW h \in Headers, NEW q \in Seq(Frames)
    PROVE  /\ Sent(h, q) # <<>> /\ Head(Sent(h, q)).kind = "header"
           /\ Announces(Head(Sent(h, q)).hdr, Tail(Sent(h, q)))
           /\ \A i \in DOMAIN Sent(h, q) : Sent(h, q)[i].hdr = h
<1>1. CASE Bytes(h) > 0
  <2> DEFINE b == Block(h, Popped(q, h.len))
  <2>1. Sent(h, q) = <<Packet(h), b>>
    BY <1>1 DEF Sent
  <2>2. Head(Sent(h, q)) = Packet(h) /\ Tail(Sent(h, q)) = <<b>>
    BY <2>1
  <2>3. Packet(h).kind = "header" /\ Packet(h).hdr = h
    BY DEF Packet
  <2>4. b.kind = "block" /\ b.hdr = h /\ Len(b.frames) = h.len
    BY PoppedIsBlock DEF Block, Headers
  <2>5. Announces(h, <<b>>)
    BY <1>1, <2>4 DEF Announces
  <2>6. Sent(h, q) # <<>> /\ \A i \in DOMAIN Sent(h, q) : i \in {1, 2}
    BY <2>1
  <2> HIDE DEF b
  <2> QED
    BY <2>1, <2>2, <2>3, <2>4, <2>5, <2>6
<1>2. CASE ~(Bytes(h) > 0)
  <2>1. Sent(h, q) = <<Packet(h)>>
    BY <1>2 DEF Sent
  <2>2. Head(Sent(h, q)) = Packet(h) /\ Tail(Sent(h, q)) = <<>>
    BY <2>1
  <2>3. Packet(h).kind = "header" /\ Packet(h).hdr = h
    BY DEF Packet
  <2>4. Announces(h, <<>>)
    BY <1>2 DEF Announces
  <2> QED
    BY <2>1, <2>2, <2>3, <2>4
<1> QED
  BY <1>1, <1>2

\* A header that announces a block is followed by one packet, the others by none.
LEMMA Announced ==
    ASSUME NEW h \in Headers, NEW items \in Seq(Items), Announces(h, items)
    PROVE  /\ Bytes(h) > 0 => items # <<>> /\ Tail(items) = <<>>
           /\ ~(Bytes(h) > 0) => items = <<>>
<1>1. CASE Bytes(h) > 0
  <2>1. Len(items) = 1
    BY <1>1 DEF Announces
  <2>2. items # <<>>
    BY <2>1, EmptySeq
  <2>3. Tail(items) \in Seq(Items) /\ Len(Tail(items)) = 0
    BY <2>1, <2>2, TailKeeps
  <2> QED
    BY <1>1, <2>2, <2>3, EmptySeq
<1>2. CASE ~(Bytes(h) > 0)
  BY <1>2 DEF Announces
<1> QED
  BY <1>1, <1>2

LEMMA ControlInitially == Init => Control
  BY DEF Init, Control, PcInv, Lockstep, WireInv, Framing, Ends

LEMMA SharedKeepsControl ==
    ASSUME TypeOK, Control, NEW e \in Ends, Shared(e)
    PROVE  Control'
<1> USE DEF NetGoto, Control, PcInv, Lockstep, WireInv, Framing, Ends
<1>0. header[e] \in Headers /\ wire[e] \in Seq(Items)
  BY DEF TypeOK
<1>1. CASE ReceiveHeader(e)
  BY <1>1 DEF ReceiveHeader, TypeOK
<1>2. CASE Adopt(e)
  BY <1>0, <1>2, Announced DEF Adopt, AfterFlush, ExpectBlock, TypeOK
<1>3. CASE Flush(e)
  BY <1>0, <1>3, Announced DEF Flush, AfterFlush, ExpectBlock, TypeOK
<1>4. CASE ReceiveBlock(e)
  <2>1. Tail(wire[e]) = <<>>
    BY <1>0, <1>4, Announced DEF ReceiveBlock
  <2> QED
    BY <1>4, <2>1 DEF ReceiveBlock, TypeOK
<1>5. CASE StoreFrame(e)
  BY <1>5 DEF StoreFrame
<1>6. CASE StoreDone(e)
  BY <1>6 DEF StoreDone, AfterStore, TypeOK
<1> QED
  BY <1>1, <1>2, <1>3, <1>4, <1>5, <1>6 DEF Shared

LEMMA ControlInductive == TypeOK /\ Control /\ [Next]_vars => Control'
<1> SUFFICES ASSUME TypeOK, Control, [Next]_vars PROVE Control'
  OBVIOUS
<1> USE DEF NetGoto, Control, PcInv, Lockstep, WireInv, Framing, Ends
<1>0. \A e \in Ends : header[e] \in Headers /\ wire[e] \in Seq(Items) /\ in[e] \in Seq(Frames)
  BY DEF TypeOK
<1>1. CASE ServerBegin
  BY <1>1 DEF ServerBegin, TypeOK
<1>2. CASE ServerSend
  <2>1. wire["client"] = <<>> /\ pc["client"] = "recv"
    BY <1>2 DEF ServerSend
  <2>2. wire' = [wire EXCEPT !["client"] = Sent(header["server"], in["server"])]
    BY <1>0, <1>2, <2>1, ShipSends DEF ServerSend
  <2> QED
    BY <1>0, <1>2, <2>1, <2>2, SentIsFramed DEF ServerSend, TypeOK
<1>3. CASE ServerBacklog
  BY <1>0, <1>3, Announced DEF ServerBacklog, ExpectBlock, TypeOK
<1>4. CASE ClientMeasure
  BY <1>4 DEF ClientMeasure, TypeOK
<1>5. CASE ClientLabel
  BY <1>5 DEF ClientLabel, TypeOK
<1>6. CASE ClientReply
  <2>1. wire["server"] = <<>> /\ pc["server"] = "recv"
    BY <1>6 DEF ClientReply
  <2>2. wire' = [wire EXCEPT !["server"] = Sent(header["client"], in["client"])]
    BY <1>0, <1>6, <2>1, ShipSends DEF ClientReply
  <2> QED
    BY <1>0, <1>6, <2>1, <2>2, SentIsFramed DEF ClientReply, TypeOK
<1>7. CASE \E e \in Ends : Audio(e)
  BY <1>7 DEF Audio, AudioGet, AudioEmpty, AudioPut, AudioSkip, AudioRelabel, AudioClear
<1>8. CASE UNCHANGED vars
  BY <1>8 DEF vars
<1>9. CASE ClientResize
  BY <1>9 DEF ClientResize, TypeOK
<1> QED
  BY <1>1, <1>2, <1>3, <1>4, <1>5, <1>6, <1>7, <1>8, <1>9, SharedKeepsControl
     DEF Next, ServerThread, ClientThread

------------------------------------------------------------------------------
(* Channel counts.                                                         *)

Labels == UniformInput /\ LabelInv /\ UniformOutput

LEMMA LabelsInitially == Init => Labels
  BY DEF Init, Labels, UniformInput, LabelInv, UniformOutput, Changing, Ends

\* Emptied buffers have no frame with a wrong channel count.
LEMMA ClearKeepsLabels ==
    ASSUME TypeOK, NEW e \in Ends, ClearQueues(e)
    PROVE  /\ DOMAIN in'[e] = {} /\ DOMAIN out'[e] = {}
           /\ \A x \in Ends \ {e} : in'[x] = in[x] /\ out'[x] = out[x]
<1>1. DOMAIN <<>> = {}
  OBVIOUS
<1> QED
  BY <1>1 DEF ClearQueues, TypeOK

\* A frame with the count of the frames in a queue leaves the queue uniform.
LEMMA AppendKeepsCount ==
    ASSUME NEW q \in Seq(Frames), NEW x \in Frames, NEW c, x.ch = c,
           \A i \in DOMAIN q : q[i].ch = c
    PROVE  \A i \in DOMAIN Append(q, x) : Append(q, x)[i].ch = c
<1> DEFINE r == Append(q, x)
<1>1. /\ DOMAIN r = DOMAIN q \cup {Len(q) + 1}
      /\ \A i \in DOMAIN q : r[i] = q[i]
      /\ r[Len(q) + 1] = x
  BY AppendAdds
<1> HIDE DEF r
<1>2. \A i \in DOMAIN r : r[i].ch = c
  BY <1>1
<1> QED
  BY <1>2 DEF r

\* The same for the frames that were received.
LEMMA AppendKeepsReading ==
    ASSUME NEW q \in Seq(Received), NEW x \in Received, NEW c, x.as = c,
           \A i \in DOMAIN q : q[i].as = c
    PROVE  \A i \in DOMAIN Append(q, x) : Append(q, x)[i].as = c
<1> DEFINE r == Append(q, x)
<1>1. /\ DOMAIN r = DOMAIN q \cup {Len(q) + 1}
      /\ \A i \in DOMAIN q : r[i] = q[i]
      /\ r[Len(q) + 1] = x
  BY AppendAdds
<1> HIDE DEF r
<1>2. \A i \in DOMAIN r : r[i].as = c
  BY <1>1
<1> QED
  BY <1>2 DEF r

LEMMA AudioKeepsLabels ==
    ASSUME TypeOK, Labels, NEW e \in Ends, Audio(e)
    PROVE  Labels'
<1> USE DEF AudioGoto, Labels, UniformInput, LabelInv, UniformOutput, Changing
<1>1. CASE AudioGet(e)
  <2>1. \A i \in DOMAIN out'[e] : out'[e][i].as = remote[e] \/ pc[e] = "flush"
    <3>1. CASE out[e] = <<>>
      BY <1>1, <3>1 DEF AudioGet
    <3>2. CASE out[e] # <<>>
      <4>1. out'[e] = Tail(out[e]) /\ out[e] \in Seq(Received)
        BY <1>1, <3>2 DEF AudioGet, TypeOK
      <4> QED
        BY <3>2, <4>1, TailKeeps
    <3> QED
      BY <3>1, <3>2
  <2>2. \A x \in Ends \ {e} : out'[x] = out[x] /\ audio'[x] = audio[x]
    BY <1>1 DEF AudioGet, TypeOK
  <2>3. UNCHANGED <<in, local, remote, pc, header, block>> /\ audio[e] = "get"
    BY <1>1 DEF AudioGet
  <2> QED
    BY <2>1, <2>2, <2>3
<1>2. CASE AudioEmpty(e)
  <2>1. /\ DOMAIN in'[e] = {} /\ \A x \in Ends \ {e} : in'[x] = in[x]
        /\ audio[e] = "push" /\ \A x \in Ends \ {e} : audio'[x] = audio[x]
        /\ UNCHANGED <<out, local, remote, pc, header, block>>
    <3>1. DOMAIN <<>> = {}
      OBVIOUS
    <3> QED
      BY <1>2, <3>1 DEF AudioEmpty, TypeOK
  <2>2. UniformInput'
    BY <2>1
  <2>3. LabelInv' /\ UniformOutput'
    BY <2>1
  <2> QED
    BY <2>2, <2>3
<1>6. CASE AudioPut(e)
  <2> PICK c \in Channels : Puts(e, c)
    BY <1>6, PutsOne
  <2> DEFINE frame == [id |-> captured[e] + 1, ch |-> c]
  <2>1. /\ frame \in Frames /\ frame.ch = c /\ in[e] \in Seq(Frames)
        /\ in'[e] \in {in[e], Append(in[e], frame)}
        /\ \A x \in Ends \ {e} : in'[x] = in[x]
    BY PutTyped DEF TypeOK
  <2> HIDE DEF frame
  <2>2. \A i \in DOMAIN in[e] : in[e][i].ch = local[e]
    BY <1>6 DEF AudioPut
  <2>3. c = local[e] => \A i \in DOMAIN in'[e] : in'[e][i].ch = local[e]
    <3>1. CASE in'[e] = in[e]
      BY <2>2, <3>1
    <3>2. CASE in'[e] = Append(in[e], frame)
      BY <2>1, <2>2, <3>2, AppendKeepsCount
    <3> QED
      BY <2>1, <3>1, <3>2
  <2>4. /\ audio'[e] = IF c = local[e] THEN "get" ELSE "relabel"
        /\ \A x \in Ends \ {e} : audio'[x] = audio[x]
    BY DEF Puts, TypeOK
  <2>5. UNCHANGED <<out, local, remote, pc, header, block>>
    BY <1>6 DEF AudioPut
  <2>6. UniformInput'
    BY <2>1, <2>3, <2>4, <2>5
  <2>7. LabelInv' /\ UniformOutput'
    BY <2>5
  <2> QED
    BY <2>6, <2>7
<1>3. CASE AudioSkip(e)
  BY <1>3 DEF AudioSkip, TypeOK, queues
<1>4. CASE AudioRelabel(e)
  BY <1>4 DEF AudioRelabel, TypeOK, queues
<1>5. CASE AudioClear(e)
  <2>1. /\ UNCHANGED <<local, remote, pc, header, block>>
        /\ \A x \in Ends \ {e} : audio'[x] = audio[x]
    BY <1>5 DEF AudioClear, TypeOK
  <2>2. /\ DOMAIN in'[e] = {} /\ DOMAIN out'[e] = {}
        /\ \A x \in Ends \ {e} : in'[x] = in[x] /\ out'[x] = out[x]
    BY <1>5, ClearKeepsLabels DEF AudioClear
  <2> QED
    BY <2>1, <2>2
<1> QED
  BY <1>1, <1>2, <1>3, <1>4, <1>5, <1>6 DEF Audio

LEMMA SharedKeepsLabels ==
    ASSUME TypeOK, Control, Labels, NEW e \in Ends, Shared(e)
    PROVE  Labels'
<1> USE DEF NetGoto, Labels, UniformInput, LabelInv, UniformOutput, Changing
<1>1. CASE ReceiveHeader(e)
  BY <1>1 DEF ReceiveHeader, TypeOK, queues
<1>2. CASE Adopt(e)
  <2>1. /\ remote'[e] = header[e].ch /\ UNCHANGED <<in, out, local, audio, header, block>>
        /\ \A x \in Ends \ {e} : remote'[x] = remote[x] /\ pc'[x] = pc[x]
        /\ pc[e] = "adopt"
    BY <1>2 DEF Adopt, TypeOK, queues
  <2>2. pc'[e] # "flush" => remote'[e] = remote[e]
    BY <1>2 DEF Adopt, Changed, TypeOK
  <2> QED
    BY <2>1, <2>2
<1>3. CASE Flush(e)
  <2>1. /\ pc'[e] \in {"backlog", "resize", "store"} /\ pc[e] = "flush"
        /\ \A x \in Ends \ {e} : pc'[x] = pc[x]
        /\ UNCHANGED <<local, remote, audio, header, block>>
    BY <1>3 DEF Flush, AfterFlush, ExpectBlock, TypeOK
  <2> QED
    BY <1>3, <2>1, ClearKeepsLabels DEF Flush
<1>4. CASE ReceiveBlock(e)
  <2>1. \A i \in DOMAIN block'[e] : block'[e][i].as = header[e].ch
    <3> DEFINE fs == Head(wire[e]).frames
    <3>1. block'[e] = [i \in DOMAIN fs |-> ReadAs(fs[i], header[e].ch)]
      BY <1>4 DEF ReceiveBlock, TypeOK
    <3> HIDE DEF fs
    <3> QED
      BY <3>1 DEF ReadAs
  <2>2. /\ pc'[e] = "store" /\ pc[e] = "block"
        /\ \A x \in Ends \ {e} : pc'[x] = pc[x] /\ block'[x] = block[x]
        /\ UNCHANGED <<in, out, local, remote, audio, header>>
    BY <1>4 DEF ReceiveBlock, TypeOK, queues
  <2> QED
    BY <2>1, <2>2
<1>5. CASE StoreFrame(e)
  <2>1. /\ block[e] \in Seq(Received) /\ block[e] # <<>> /\ out[e] \in Seq(Received)
        /\ pc[e] = "store"
        /\ out'[e] = Append(out[e], Head(block[e])) /\ block'[e] = Tail(block[e])
        /\ \A x \in Ends \ {e} : out'[x] = out[x] /\ block'[x] = block[x]
        /\ UNCHANGED <<in, local, remote, audio, pc, header>>
    BY <1>5 DEF StoreFrame, TypeOK
  <2>2. /\ Head(block[e]) \in Received /\ Head(block[e]).as = remote[e]
        /\ \A i \in DOMAIN block'[e] : block'[e][i].as = remote[e]
    <3>1. 1 \in DOMAIN block[e]
      BY <2>1, TailKeeps, LenProperties, SMT
    <3> QED
      BY <2>1, <3>1, TailKeeps
  <2>3. \A i \in DOMAIN out'[e] : out'[e][i].as = remote[e]
    <3>1. \A i \in DOMAIN out[e] : out[e][i].as = remote[e]
      BY <2>1
    <3> QED
      BY <2>1, <2>2, <3>1, AppendKeepsReading
  <2>4. UniformInput'
    BY <2>1
  <2>5. LabelInv'
    <3> SUFFICES ASSUME NEW x \in Ends
                 PROVE  /\ pc'[x] \in {"flush", "backlog", "resize", "block", "store"}
                              => remote'[x] = header'[x].ch
                        /\ \A i \in DOMAIN block'[x] :
                              pc'[x] = "store" /\ block'[x][i].as = remote'[x]
      OBVIOUS
    <3>1. CASE x = e
      BY <2>1, <2>2, <3>1
    <3>2. CASE x # e
      <4>1. block'[x] = block[x] /\ UNCHANGED <<pc, remote, header>>
        BY <2>1, <3>2
      <4> QED
        BY <4>1
    <3> QED
      BY <3>1, <3>2
  <2>6. UniformOutput'
    BY <2>1, <2>3
  <2> QED
    BY <2>4, <2>5, <2>6
<1>6. CASE StoreDone(e)
  <2>1. /\ DOMAIN block[e] = {} /\ pc[e] = "store" /\ pc'[e] \in {"idle", "measure"}
        /\ \A x \in Ends \ {e} : pc'[x] = pc[x]
        /\ UNCHANGED <<in, out, local, remote, audio, header, block>>
    BY <1>6 DEF StoreDone, AfterStore, TypeOK, queues
  <2> QED
    BY <2>1
<1> QED
  BY <1>1, <1>2, <1>3, <1>4, <1>5, <1>6 DEF Shared

\* What Ship leaves in the buffer is part of what was there.
LEMMA ShipKeepsLabels ==
    ASSUME TypeOK, NEW e \in Ends, NEW to \in Ends, NEW h \in Headers, Ship(e, h, to)
    PROVE  /\ \A x \in Ends \ {e} : in'[x] = in[x]
           /\ \A i \in DOMAIN in'[e] : \E k \in DOMAIN in[e] : in'[e][i] = in[e][k]
<1>1. in[e] \in Seq(Frames) /\ h.len \in Nat
  BY DEF TypeOK, Headers
<1>2. \A i \in DOMAIN Left(in[e], h.len) :
          \E k \in DOMAIN in[e] : Left(in[e], h.len)[i] = in[e][k]
  BY <1>1, LeftIsEnd
<1> QED
  BY <1>2 DEF Ship, TypeOK

LEMMA LabelsInductive == TypeOK /\ Control /\ Labels /\ [Next]_vars => Labels'
<1> SUFFICES ASSUME TypeOK, Control, Labels, [Next]_vars PROVE Labels'
  OBVIOUS
<1> USE DEF NetGoto, Labels, UniformInput, LabelInv, UniformOutput, Changing, Ends
<1>0. header["server"] \in Headers /\ header["client"] \in Headers
  BY DEF TypeOK
<1>1. CASE ServerBegin
  BY <1>1 DEF ServerBegin, TypeOK, queues
<1>2. CASE ServerSend
  <2>1. /\ pc["server"] = "send" /\ pc' = [pc EXCEPT !["server"] = "recv"]
        /\ UNCHANGED <<out, local, remote, audio, header, block>>
    BY <1>2 DEF ServerSend
  <2>2. /\ in'["client"] = in["client"]
        /\ \A i \in DOMAIN in'["server"] :
              \E k \in DOMAIN in["server"] : in'["server"][i] = in["server"][k]
    BY <1>0, <1>2, ShipKeepsLabels DEF ServerSend
  <2>3. UniformInput'
    BY <2>1, <2>2
  <2>4. LabelInv'
    BY <2>1 DEF TypeOK
  <2>5. UniformOutput'
    BY <2>1 DEF TypeOK
  <2> QED
    BY <2>3, <2>4, <2>5
<1>3. CASE ServerBacklog
  <2>1. /\ pc["server"] = "backlog" /\ pc'["server"] \in {"block", "store"}
        /\ pc'["client"] = pc["client"]
        /\ UNCHANGED <<local, remote, audio, header, block>>
        /\ ClearQueues("server") \/ UNCHANGED <<in, out>>
    BY <1>3 DEF ServerBacklog, ExpectBlock, TypeOK, queues
  <2> QED
    BY <2>1, ClearKeepsLabels
<1>4. CASE ClientMeasure
  BY <1>4 DEF ClientMeasure, TypeOK, queues
<1>5. CASE ClientLabel
  BY <1>5 DEF ClientLabel, TypeOK, queues
<1>6. CASE ClientReply
  <2>1. /\ pc["client"] = "reply" /\ pc' = [pc EXCEPT !["client"] = "recv"]
        /\ UNCHANGED <<out, local, remote, audio, header, block>>
    BY <1>6 DEF ClientReply
  <2>2. /\ in'["server"] = in["server"]
        /\ \A i \in DOMAIN in'["client"] :
              \E k \in DOMAIN in["client"] : in'["client"][i] = in["client"][k]
    BY <1>0, <1>6, ShipKeepsLabels DEF ClientReply
  <2>3. UniformInput'
    BY <2>1, <2>2
  <2>4. LabelInv'
    BY <2>1 DEF TypeOK
  <2>5. UniformOutput'
    BY <2>1 DEF TypeOK
  <2> QED
    BY <2>3, <2>4, <2>5
<1>7. CASE UNCHANGED vars
  BY <1>7 DEF vars
<1>8. CASE ClientResize
  BY <1>8 DEF ClientResize, TypeOK, queues
<1> QED
  BY <1>1, <1>2, <1>3, <1>4, <1>5, <1>6, <1>7, <1>8, SharedKeepsLabels, AudioKeepsLabels
     DEF Next, ServerThread, ClientThread

------------------------------------------------------------------------------
(* What a header says of its block.                                        *)

\* The blocks among some packets are labelled as their frames were captured.
Labelled(items) == \A i \in DOMAIN items : AllOf(items[i].frames, items[i].hdr.ch)

Carried == \A e \in Ends : ~replugged[e] => Labelled(wire[Other(e)])

LEMMA EmptyIsLabelled == Labelled(<<>>)
  BY DEF Labelled

\* Actions that leave the wires alone, and those that take a packet off.
LEMMA TailIsLabelled ==
    ASSUME NEW items \in Seq(Items), items # <<>>, Labelled(items)
    PROVE  Labelled(Tail(items))
<1>1. \A i \in DOMAIN Tail(items) : i + 1 \in DOMAIN items /\ Tail(items)[i] = items[i + 1]
  BY TailKeeps
<1> QED
  BY <1>1 DEF Labelled

\* The silence among the frames popped has no label.
LEMMA SentIsLabelled ==
    ASSUME NEW h \in Headers, NEW q \in Seq(Frames), AllOf(q, h.ch)
    PROVE  Labelled(Sent(h, q))
<1>1. AllOf(<<>>, h.ch)
  BY DEF AllOf
<1>2. AllOf(Popped(q, h.len), h.ch)
  <2> DEFINE t == Popped(q, h.len)
  <2>1. DOMAIN q = 1..Len(q) /\ Len(q) \in Nat /\ Silence.id = 0
    BY LenProperties DEF Silence
  <2>2. t = [i \in 1..h.len |-> IF i <= Len(q) THEN q[i] ELSE Silence]
    BY DEF Popped
  <2> HIDE DEF t
  <2>3. \A i \in DOMAIN t : t[i].id # 0 => i \in DOMAIN q /\ t[i] = q[i]
    BY <2>1, <2>2 DEF Headers
  <2>4. AllOf(t, h.ch)
    BY <2>3 DEF AllOf
  <2> QED
    BY <2>4 DEF t
<1>3. CASE Bytes(h) > 0
  <2> DEFINE b == Block(h, Popped(q, h.len))
             p == Packet(h)
  <2>1. p.frames = <<>> /\ p.hdr = h /\ b.frames = Popped(q, h.len) /\ b.hdr = h
    BY DEF Packet, Block
  <2>2. Sent(h, q) = <<p, b>>
    BY <1>3 DEF Sent
  <2> HIDE DEF p, b
  <2>3. \A i \in DOMAIN <<p, b>> : <<p, b>>[i] \in {p, b}
    OBVIOUS
  <2> QED
    BY <1>1, <1>2, <2>1, <2>2, <2>3 DEF Labelled
<1>4. CASE ~(Bytes(h) > 0)
  <2> DEFINE p == Packet(h)
  <2>1. p.frames = <<>> /\ p.hdr = h
    BY DEF Packet
  <2>2. Sent(h, q) = <<p>>
    BY <1>4 DEF Sent
  <2> HIDE DEF p
  <2>3. \A i \in DOMAIN <<p>> : <<p>>[i] = p
    OBVIOUS
  <2> QED
    BY <1>1, <2>1, <2>2, <2>3 DEF Labelled
<1> QED
  BY <1>3, <1>4

\* While a block is prepared localSettings keeps the count that was read, unless the
\* cable is changed.
LEMMA ReadInductive == TypeOK /\ Control /\ ReadInv /\ [Next]_vars => ReadInv'
<1> SUFFICES ASSUME TypeOK, Control, ReadInv, [Next]_vars PROVE ReadInv'
  OBVIOUS
<1> USE DEF NetGoto, AudioGoto, ReadInv, Preparing, Changing
<1>1. CASE ServerBegin
  <2>1. /\ header'["server"].ch = local["server"]
        /\ replugged'["server"] = Changing("server") /\ UNCHANGED <<local, audio>>
        /\ header'["client"] = header["client"] /\ pc'["client"] = pc["client"]
        /\ replugged'["client"] = replugged["client"]
    BY <1>1 DEF ServerBegin, TypeOK, Ends
  <2> QED
    BY <2>1 DEF Ends
<1>2. CASE ClientLabel
  <2>1. /\ header'["client"].ch = local["client"]
        /\ replugged'["client"] = Changing("client") /\ UNCHANGED <<local, audio>>
        /\ header'["server"] = header["server"] /\ pc'["server"] = pc["server"]
        /\ replugged'["server"] = replugged["server"]
    BY <1>2 DEF ClientLabel, TypeOK, Headers, Ends
  <2> QED
    BY <2>1 DEF Ends
<1>3. CASE ServerSend \/ ClientReply
  BY <1>3 DEF ServerSend, ClientReply, TypeOK, Ends
<1>4. CASE ServerBacklog
  BY <1>4 DEF ServerBacklog, ExpectBlock, TypeOK, Ends
<1>5. CASE ClientMeasure \/ ClientResize
  BY <1>5 DEF ClientMeasure, ClientResize, TypeOK, Ends
<1>6. ASSUME NEW e \in Ends, Shared(e) PROVE ReadInv'
  <2>1. CASE ReceiveHeader(e) \/ ReceiveBlock(e)
    BY <1>6, <2>1 DEF ReceiveHeader, ReceiveBlock, TypeOK
  <2>2. CASE Adopt(e) \/ Flush(e)
    BY <1>6, <2>2 DEF Adopt, Flush, AfterFlush, ExpectBlock, TypeOK
  <2>3. CASE StoreFrame(e) \/ StoreDone(e)
    BY <1>6, <2>3 DEF StoreFrame, StoreDone, AfterStore, TypeOK
  <2> QED
    BY <1>6, <2>1, <2>2, <2>3 DEF Shared
<1>7. ASSUME NEW e \in Ends, Audio(e) PROVE ReadInv'
  <2>1. CASE AudioGet(e) \/ AudioEmpty(e) \/ AudioSkip(e)
    BY <1>7, <2>1 DEF AudioGet, AudioEmpty, AudioSkip, TypeOK
  <2>2. CASE AudioPut(e)
    <3> PICK c \in Channels : Puts(e, c)
      BY <1>7, <2>2, PutsOne
    <3>1. UNCHANGED <<local, pc, header>>
      BY <2>2 DEF AudioPut
    <3>2. /\ \A x \in Ends \ {e} : audio'[x] = audio[x] /\ replugged'[x] = replugged[x]
          /\ audio'[e] = IF c = local[e] THEN "get" ELSE "relabel"
          /\ replugged'[e] = (replugged[e] \/ (Preparing(e) /\ c # local[e]))
      BY <1>7 DEF Puts, TypeOK
    <3> QED
      BY <3>1, <3>2
  <2>3. CASE AudioRelabel(e) \/ AudioClear(e)
    BY <1>7, <2>3 DEF AudioRelabel, AudioClear, TypeOK
  <2> QED
    BY <1>7, <2>1, <2>2, <2>3 DEF Audio
<1>8. CASE UNCHANGED vars
  BY <1>8 DEF vars
<1> QED
  BY <1>1, <1>2, <1>3, <1>4, <1>5, <1>6, <1>7, <1>8
     DEF Next, ServerThread, ClientThread, Ends

\* So the frames it may pop have that count.
LEMMA PreparedIsUniform ==
    ASSUME ReadInv, UniformInput, NEW e \in Ends, Preparing(e), ~replugged[e]
    PROVE  AllOf(in[e], header[e].ch)
  BY DEF ReadInv, UniformInput, AllOf

\* A step of a network thread that takes nothing from a wire and puts nothing on one.
LEMMA KeptIsCarried ==
    ASSUME Carried, UNCHANGED wire, \A e \in Ends : ~replugged'[e] => ~replugged[e]
    PROVE  Carried'
  BY DEF Carried

LEMMA ShortenedIsCarried ==
    ASSUME TypeOK, Carried, NEW x \in Ends, wire[x] # <<>>,
           wire' = [wire EXCEPT ![x] = Tail(@)], UNCHANGED replugged
    PROVE  Carried'
<1> SUFFICES ASSUME NEW e \in Ends, ~replugged[e] PROVE Labelled(wire'[Other(e)])
  BY DEF Carried
<1>1. Other(e) \in Ends /\ Labelled(wire[Other(e)])
  BY DEF Carried, Other, Ends
<1>2. wire[x] \in Seq(Items)
  BY DEF TypeOK
<1>3. CASE Other(e) = x
  <2>1. wire'[Other(e)] = Tail(wire[x]) /\ Labelled(wire[x])
    BY <1>1, <1>3 DEF TypeOK
  <2> QED
    BY <1>2, <2>1, TailIsLabelled
<1>4. CASE Other(e) # x
  BY <1>1, <1>4 DEF TypeOK
<1> QED
  BY <1>3, <1>4

LEMMA SentIsCarried ==
    ASSUME TypeOK, Carried, ReadInv, UniformInput, NEW e \in Ends, Preparing(e),
           wire' = [wire EXCEPT ![Other(e)] = Sent(header[e], in[e])],
           UNCHANGED replugged
    PROVE  Carried'
<1> SUFFICES ASSUME NEW x \in Ends, ~replugged[x] PROVE Labelled(wire'[Other(x)])
  BY DEF Carried
<1>1. header[e] \in Headers /\ in[e] \in Seq(Frames) /\ Other(e) \in Ends
  BY DEF TypeOK, Other, Ends
<1>2. CASE x = e
  <2>1. AllOf(in[e], header[e].ch)
    BY <1>2, PreparedIsUniform
  <2>2. wire'[Other(x)] = Sent(header[e], in[e])
    BY <1>1, <1>2 DEF TypeOK
  <2> QED
    BY <1>1, <2>1, <2>2, SentIsLabelled
<1>3. CASE x # e
  <2>1. Other(x) # Other(e)
    BY <1>3 DEF Other, Ends
  <2>2. wire'[Other(x)] = wire[Other(x)]
    BY <2>1 DEF TypeOK, Other, Ends
  <2> QED
    BY <2>2 DEF Carried
<1> QED
  BY <1>2, <1>3

LEMMA CarriedInductive ==
    TypeOK /\ Control /\ UniformInput /\ ReadInv /\ Carried /\ [Next]_vars => Carried'
<1> SUFFICES ASSUME TypeOK, Control, UniformInput, ReadInv, Carried, [Next]_vars
             PROVE  Carried'
  OBVIOUS
<1>0. \A e \in Ends : header[e] \in Headers
  BY DEF TypeOK
<1>1. CASE ServerBegin
  <2>1. /\ wire["client"] = <<>> /\ UNCHANGED wire
        /\ replugged'["client"] = replugged["client"]
    BY <1>1 DEF ServerBegin, Control, Lockstep, TypeOK, Ends
  <2> QED
    BY <2>1, EmptyIsLabelled DEF Carried, Other, Ends
<1>2. CASE ClientLabel
  <2>1. /\ wire["server"] = <<>> /\ UNCHANGED wire
        /\ replugged'["server"] = replugged["server"]
    BY <1>2 DEF ClientLabel, Control, Lockstep, TypeOK, Ends
  <2> QED
    BY <2>1, EmptyIsLabelled DEF Carried, Other, Ends
<1>3. CASE ServerSend
  <2>1. "server" \in Ends /\ "client" \in Ends /\ Other("server") = "client"
    BY DEF Ends, Other
  <2>2. wire["client"] = <<>> /\ Preparing("server") /\ UNCHANGED replugged
    BY <1>3 DEF ServerSend, Control, Lockstep, Preparing
  <2>3. wire' = [wire EXCEPT !["client"] = Sent(header["server"], in["server"])]
    BY <1>0, <1>3, <2>1, <2>2, ShipSends DEF ServerSend
  <2> QED
    BY <2>1, <2>2, <2>3, SentIsCarried
<1>4. CASE ClientReply
  <2>1. "server" \in Ends /\ "client" \in Ends /\ Other("client") = "server"
    BY DEF Ends, Other
  <2>2. wire["server"] = <<>> /\ Preparing("client") /\ UNCHANGED replugged
    BY <1>4 DEF ClientReply, Control, Lockstep, Preparing
  <2>3. wire' = [wire EXCEPT !["server"] = Sent(header["client"], in["client"])]
    BY <1>0, <1>4, <2>1, <2>2, ShipSends DEF ClientReply
  <2> QED
    BY <2>1, <2>2, <2>3, SentIsCarried
<1>5. CASE ServerBacklog \/ ClientMeasure \/ ClientResize \/ UNCHANGED vars
  BY <1>5, KeptIsCarried DEF ServerBacklog, ClientMeasure, ClientResize, vars
<1>6. ASSUME NEW e \in Ends, Shared(e) PROVE Carried'
  <2>1. CASE ReceiveHeader(e) \/ ReceiveBlock(e)
    <3>1. wire[e] # <<>> /\ wire' = [wire EXCEPT ![e] = Tail(@)] /\ UNCHANGED replugged
      BY <2>1 DEF ReceiveHeader, ReceiveBlock
    <3> QED
      BY <1>6, <3>1, ShortenedIsCarried
  <2>2. CASE Adopt(e) \/ Flush(e) \/ StoreFrame(e) \/ StoreDone(e)
    BY <2>2, KeptIsCarried DEF Adopt, Flush, StoreFrame, StoreDone
  <2> QED
    BY <1>6, <2>1, <2>2 DEF Shared
<1>7. ASSUME NEW e \in Ends, Audio(e) PROVE Carried'
  <2>1. CASE AudioPut(e)
    <3> PICK c \in Channels : Puts(e, c)
      BY <1>7, <2>1, PutsOne
    <3>1. UNCHANGED wire /\ \A x \in Ends : ~replugged'[x] => ~replugged[x]
      BY <1>7, <2>1 DEF AudioPut, Puts, TypeOK
    <3> QED
      BY <3>1, KeptIsCarried
  <2>2. CASE ~AudioPut(e)
    BY <1>7, <2>2, KeptIsCarried
       DEF Audio, AudioGet, AudioEmpty, AudioSkip, AudioRelabel, AudioClear
  <2> QED
    BY <2>1, <2>2
<1> QED
  BY <1>1, <1>2, <1>3, <1>4, <1>5, <1>6, <1>7 DEF Next, ServerThread, ClientThread, Ends

\* What is said of a block while it is prepared, and on the wire.
LEMMA MatchIsCarried == UniformInput /\ ReadInv => (LabelsMatch <=> Carried)
  BY PreparedIsUniform DEF LabelsMatch, Carried, Labelled

------------------------------------------------------------------------------
(* The invariants.                                                         *)

\* Each layer is inductive given those before it: IInv is inductive.
THEOREM Invariance == Spec => []IInv
<1>1. Init => IInv
  <2>1. Init => ReadInv /\ LabelsMatch
    BY DEF Init, ReadInv, LabelsMatch, Preparing, Other, Ends
  <2> QED
    BY <2>1, InitTyped, ControlInitially, LabelsInitially DEF IInv, Control, Labels
<1>2. IInv /\ [Next]_vars => IInv'
  <2> SUFFICES ASSUME IInv, [Next]_vars PROVE IInv'
    OBVIOUS
  <2>1. TypeOK /\ Control /\ Labels /\ ReadInv /\ Carried
    BY MatchIsCarried DEF IInv, Control, Labels
  <2>2. TypeOK' /\ Control' /\ Labels' /\ ReadInv' /\ Carried'
    BY <2>1, TypeInductive, ControlInductive, LabelsInductive, ReadInductive,
       CarriedInductive DEF Labels
  <2>3. LabelsMatch'
    <3>1. UniformInput' /\ ReadInv' => (LabelsMatch' <=> Carried')
      BY MatchIsCarried, PTL
    <3> QED
      BY <2>2, <3>1 DEF Labels
  <2> QED
    BY <2>2, <2>3 DEF IInv, Control, Labels
<1> QED
  BY <1>1, <1>2, PTL DEF Spec

\* Every variable keeps its type.
THEOREM TypeCorrect == Spec => []TypeOK
<1>1. IInv => TypeOK
  BY DEF IInv
<1> QED
  BY <1>1, Invariance, PTL

\* The two network threads take turns and never wait for one another.
THEOREM TakeTurns == Spec => []Lockstep
<1>1. IInv => Lockstep
  BY DEF IInv
<1> QED
  BY <1>1, Invariance, PTL

\* The two ends agree on where a packet begins, whatever cables are changed and when.
THEOREM StaysFramed == Spec => []Framing
<1>1. IInv => Framing
  BY DEF IInv
<1> QED
  BY <1>1, Invariance, PTL

\* A header says the channel count of the frames in its block, unless the cable is
\* changed while the block is prepared.
THEOREM LabelsAreTrue == Spec => []LabelsMatch
<1>1. IInv => LabelsMatch
  BY DEF IInv
<1> QED
  BY <1>1, Invariance, PTL

\* What the audio thread may play was read with the channel count of its output.
THEOREM OutputIsUniform == Spec => []UniformOutput
<1>1. IInv => UniformOutput
  BY DEF IInv
<1> QED
  BY <1>1, Invariance, PTL

------------------------------------------------------------------------------
(* The order of frames: what each movement does to the four places.        *)

\* Emptied places are in order.
LEMMA EmptyIsOrdered ==
    ASSUME NEW s, NEW lo \in Nat, NEW hi \in Nat
    PROVE  Within(<<>>, lo, hi) /\ Ascending(<<>>) /\ Before(<<>>, s) /\ Before(s, <<>>)
  BY DEF Within, Ascending, Before

LEMMA DropKeepsOrder ==
    ASSUME NEW o, NEW b, NEW t, NEW q, NEW lo \in Nat, NEW hi \in Nat,
           Ordered(o, b, t, q, lo, hi),
           NEW o2 \in {o, <<>>}, NEW t2 \in {t, <<>>}, NEW q2 \in {q, <<>>}
    PROVE  Ordered(o2, b, t2, q2, lo, hi)
  BY EmptyIsOrdered DEF Ordered

\* getData: the head of the first place is newer than what was played, and older
\* than everything else.
LEMMA PlayKeepsOrder ==
    ASSUME NEW o \in Seq(Received), NEW b \in Seq(Received), NEW t \in Seq(Frames),
           NEW q \in Seq(Frames), NEW lo \in Nat, NEW hi \in Nat,
           Ordered(o, b, t, q, lo, hi), o # <<>>,
           NEW id, id = Head(o).id
    PROVE  /\ id = 0 => Ordered(Tail(o), b, t, q, lo, hi)
           /\ id # 0 => id \in (lo + 1)..hi /\ Ordered(Tail(o), b, t, q, id, hi)
<1>1. /\ Head(o) = o[1] /\ 1 \in DOMAIN o
      /\ \A i \in DOMAIN Tail(o) : i + 1 \in DOMAIN o /\ Tail(o)[i] = o[i + 1]
  BY TailKeeps, LenProperties, SMT
<1>2. Head(o) \in Received
  BY TailKeeps
<1>3. id \in Nat
  BY <1>2 DEF Received
<1>5. \A i \in DOMAIN Tail(o) : i \in Nat \ {0}
  BY TailKeeps, LenProperties, SMT
<1>6. /\ Within(Tail(o), lo, hi) /\ Ascending(Tail(o))
      /\ Before(Tail(o), b) /\ Before(Tail(o), t) /\ Before(Tail(o), q)
  <2>1. Within(Tail(o), lo, hi) /\ Before(Tail(o), b) /\ Before(Tail(o), t) /\ Before(Tail(o), q)
    BY <1>1 DEF Ordered, Within, Before
  <2>2. Ascending(Tail(o))
    BY <1>1, <1>5 DEF Ordered, Ascending
  <2> QED
    BY <2>1, <2>2
<1>7. ASSUME id # 0
      PROVE  /\ id \in (lo + 1)..hi
             /\ \A s \in {Tail(o), b, t, q} : Within(s, id, hi)
  <2>1. lo < id /\ id <= hi
    BY <1>1, <1>7 DEF Ordered, Within
  <2>2. Within(Tail(o), id, hi)
    <3>1. ASSUME NEW i \in DOMAIN Tail(o), Tail(o)[i].id # 0
          PROVE  id < Tail(o)[i].id /\ Tail(o)[i].id <= hi
      BY <1>1, <1>5, <1>6, <1>7, <3>1 DEF Ordered, Ascending, Within
    <3> QED
      BY <3>1 DEF Within
  <2>3. Within(b, id, hi) /\ Within(t, id, hi) /\ Within(q, id, hi)
    BY <1>1, <1>7 DEF Ordered, Within, Before
  <2> QED
    BY <1>3, <2>1, <2>2, <2>3
<1> QED
  BY <1>6, <1>7 DEF Ordered

\* pushData: the newest frame goes behind the others, or is dropped.
LEMMA CaptureKeepsOrder ==
    ASSUME NEW o \in Seq(Received), NEW b \in Seq(Received), NEW t \in Seq(Frames),
           NEW q \in Seq(Frames), NEW lo \in Nat, NEW hi \in Nat, lo <= hi,
           Ordered(o, b, t, q, lo, hi), NEW x \in Frames, x.id = hi + 1
    PROVE  /\ Ordered(o, b, t, q, lo, hi + 1)
           /\ Ordered(o, b, t, Append(q, x), lo, hi + 1)
<1>1. \A s \in {o, b, t, q} : \A i \in DOMAIN s : i \in Nat /\ s[i].id \in Nat
  <2>1. \A s \in Seq(Frames) : \A i \in DOMAIN s : s[i] \in Frames /\ i \in Nat
    BY LenProperties, ElementOfSeq
  <2>2. \A s \in Seq(Received) : \A i \in DOMAIN s : s[i] \in Received /\ i \in Nat
    BY LenProperties, ElementOfSeq
  <2> QED
    BY <2>1, <2>2 DEF Frames, Received
<1>2. \A s \in {o, b, t, q} : Within(s, lo, hi + 1)
  BY <1>1 DEF Ordered, Within
<1>3. /\ DOMAIN Append(q, x) = DOMAIN q \cup {Len(q) + 1}
      /\ \A i \in DOMAIN q : Append(q, x)[i] = q[i] /\ i <= Len(q)
      /\ Append(q, x)[Len(q) + 1] = x /\ Len(q) \in Nat
  BY AppendAdds, LenProperties, SMT
<1>4. Within(Append(q, x), lo, hi + 1)
  BY <1>2, <1>3 DEF Within
<1>5. Ascending(Append(q, x))
  BY <1>1, <1>3 DEF Ordered, Ascending, Within
<1>6. \A s \in {o, b, t} : Before(s, Append(q, x))
  <2>1. ASSUME NEW s \in {o, b, t}, Within(s, lo, hi), Before(s, q)
        PROVE  Before(s, Append(q, x))
    <3> DEFINE r == Append(q, x)
    <3>1. ASSUME NEW i \in DOMAIN s, NEW j \in DOMAIN r, s[i].id # 0, r[j].id # 0
          PROVE  s[i].id < r[j].id
      <4>1. CASE j \in DOMAIN q
        BY <1>3, <2>1, <3>1, <4>1 DEF Before
      <4>2. CASE j = Len(q) + 1
        <5>1. s[i].id \in Nat /\ s[i].id <= hi
          BY <1>1, <2>1, <3>1 DEF Within
        <5> QED
          BY <1>3, <4>2, <5>1
      <4> QED
        BY <1>3, <3>1, <4>1, <4>2
    <3> HIDE DEF r
    <3>2. Before(s, r)
      BY <3>1 DEF Before
    <3> QED
      BY <3>2 DEF r
  <2>2. \A s \in {o, b, t} : Within(s, lo, hi) /\ Before(s, q)
    BY DEF Ordered
  <2> QED
    BY <2>1, <2>2
<1> QED
  BY <1>2, <1>4, <1>5, <1>6 DEF Ordered

\* Popping a block moves the oldest frames into an empty wire, and silence with them.
LEMMA ShipKeepsOrder ==
    ASSUME NEW o \in Seq(Received), NEW b \in Seq(Received), NEW q \in Seq(Frames),
           NEW lo \in Nat, NEW hi \in Nat, NEW n \in Nat,
           Ordered(o, b, <<>>, q, lo, hi)
    PROVE  Ordered(o, b, Popped(q, n), Left(q, n), lo, hi)
<1> DEFINE t == Popped(q, n)
           r == Left(q, n)
<1>1. /\ \A i \in DOMAIN t : i \in 1..n /\ (t[i].id # 0 => i \in DOMAIN q /\ t[i] = q[i])
      /\ \A i \in DOMAIN r : i \in Nat \ {0} /\ i + n \in DOMAIN q /\ r[i] = q[i + n]
  <2>1. \A i \in DOMAIN t : i \in 1..n /\ (t[i].id # 0 => i \in DOMAIN q /\ t[i] = q[i])
    <3>1. DOMAIN q = 1..Len(q) /\ Len(q) \in Nat /\ Silence.id = 0
      BY LenProperties DEF Silence
    <3>2. t = [i \in 1..n |-> IF i <= Len(q) THEN q[i] ELSE Silence]
      BY DEF Popped
    <3> HIDE DEF t
    <3> QED
      BY <3>1, <3>2
  <2>2. \A i \in DOMAIN r : i + n \in DOMAIN q /\ r[i] = q[i + n]
    BY LeftIsEnd
  <2>3. r \in Seq(Frames)
    BY LeftIsEnd
  <2>4. \A i \in DOMAIN r : i \in Nat \ {0}
    BY <2>3, LenProperties, SMT
  <2> QED
    BY <2>1, <2>2, <2>4
<1> HIDE DEF t, r
<1>2. \A i \in DOMAIN q : q[i].id # 0 => lo < q[i].id /\ q[i].id <= hi
  BY DEF Ordered, Within
<1>3. \A i, j \in DOMAIN q : i < j /\ q[i].id # 0 /\ q[j].id # 0 => q[i].id < q[j].id
  BY DEF Ordered, Ascending
<1>4. Within(t, lo, hi) /\ Within(r, lo, hi)
  BY <1>1, <1>2 DEF Within
<1>5. Ascending(t)
  BY <1>1, <1>3 DEF Ascending
<1>6. Ascending(r)
  <2>1. \A i, j \in DOMAIN r : i < j => i + n < j + n
    BY <1>1
  <2> QED
    BY <1>1, <1>3, <2>1 DEF Ascending
<1>7. Before(t, r)
  <2>1. \A i \in DOMAIN t, j \in DOMAIN r : i < j + n
    BY <1>1
  <2> QED
    BY <1>1, <1>3, <2>1 DEF Before
<1>8. \A s \in {o, b} : Before(s, t) /\ Before(s, r)
  BY <1>1 DEF Ordered, Before
<1> QED
  BY <1>4, <1>5, <1>6, <1>7, <1>8 DEF Ordered, t, r

\* Reading a block into an empty one keeps the numbers of its frames.
LEMMA ReceiveKeepsOrder ==
    ASSUME NEW o, NEW t, NEW q, NEW lo \in Nat, NEW hi \in Nat,
           Ordered(o, <<>>, t, q, lo, hi),
           NEW b, DOMAIN b = DOMAIN t, \A i \in DOMAIN t : b[i].id = t[i].id
    PROVE  Ordered(o, b, <<>>, q, lo, hi)
<1>1. Within(b, lo, hi) /\ Ascending(b) /\ Before(o, b) /\ Before(b, q)
  BY DEF Ordered, Within, Ascending, Before
<1> QED
  BY <1>1, EmptyIsOrdered DEF Ordered

\* Storing a frame moves it from the head of one place behind the next.
LEMMA StoreKeepsOrder ==
    ASSUME NEW o \in Seq(Received), NEW b \in Seq(Received), NEW t, NEW q,
           NEW lo \in Nat, NEW hi \in Nat,
           Ordered(o, b, t, q, lo, hi), b # <<>>
    PROVE  Ordered(Append(o, Head(b)), Tail(b), t, q, lo, hi)
<1> DEFINE p == Append(o, Head(b))
           r == Tail(b)
<1>1. /\ Head(b) = b[1] /\ 1 \in DOMAIN b /\ Head(b) \in Received
      /\ \A i \in DOMAIN r : i \in Nat \ {0} /\ i + 1 \in DOMAIN b /\ r[i] = b[i + 1]
  BY TailKeeps, LenProperties, SMT
<1>2. /\ DOMAIN p = DOMAIN o \cup {Len(o) + 1}
      /\ \A i \in DOMAIN o : p[i] = o[i] /\ i <= Len(o) /\ i \in Nat
      /\ p[Len(o) + 1] = b[1] /\ Len(o) \in Nat
  BY <1>1, AppendAdds, LenProperties, SMT
<1> HIDE DEF p, r
<1>3. /\ \A i \in DOMAIN o, j \in DOMAIN b :
            o[i].id # 0 /\ b[j].id # 0 => o[i].id < b[j].id
      /\ \A i, j \in DOMAIN b : i < j /\ b[i].id # 0 /\ b[j].id # 0 => b[i].id < b[j].id
      /\ \A i, j \in DOMAIN o : i < j /\ o[i].id # 0 /\ o[j].id # 0 => o[i].id < o[j].id
  BY DEF Ordered, Before, Ascending
<1>4. Within(p, lo, hi) /\ Within(r, lo, hi)
  BY <1>1, <1>2 DEF Ordered, Within
<1>5. Ascending(p)
  BY <1>1, <1>2, <1>3 DEF Ascending
<1>6. Ascending(r)
  <2>1. \A i, j \in DOMAIN r : i < j => i + 1 < j + 1
    BY <1>1
  <2> QED
    BY <1>1, <1>3, <2>1 DEF Ascending
<1>7. Before(p, r)
  <2>1. \A j \in DOMAIN r : j + 1 \in DOMAIN b /\ 1 < j + 1 /\ r[j] = b[j + 1]
    BY <1>1
  <2> QED
    BY <1>1, <1>2, <1>3, <2>1 DEF Before
<1>8. \A s \in {t, q} : Before(p, s) /\ Before(r, s)
  BY <1>1, <1>2 DEF Ordered, Before
<1> QED
  BY <1>4, <1>5, <1>6, <1>7, <1>8 DEF Ordered, p, r

------------------------------------------------------------------------------
(* The movements of one direction.                                         *)

\* What is on the way to d, from the end that captures it to the end that plays it.
Way(d) ==
    /\ played[d].id <= captured[Other(d)]
    /\ Ordered(out[d], block[d], Travelling(d), in[Other(d)],
               played[d].id, captured[Other(d)])

\* Neither end captures or plays.
Still(d) == played'[d] = played[d] /\ captured'[Other(d)] = captured[Other(d)]

\* Places may be emptied.
Drop(d) ==
    /\ out'[d] \in {out[d], <<>>} /\ block'[d] = block[d]
    /\ Travelling(d)' \in {Travelling(d), <<>>}
    /\ in'[Other(d)] \in {in[Other(d)], <<>>}
    /\ Still(d)

\* Silence is played, or a frame.
Plays(d) ==
    /\ out[d] # <<>> /\ out'[d] = Tail(out[d]) /\ block'[d] = block[d]
    /\ Travelling(d)' = Travelling(d) /\ in'[Other(d)] = in[Other(d)]
    /\ played'[d] = IF Head(out[d]).id = 0 THEN played[d]
                    ELSE [times |-> played[d].times + 1, id |-> Head(out[d]).id]
    /\ captured'[Other(d)] = captured[Other(d)]

\* A frame is captured, and kept or not.
Captures(d) ==
    /\ out'[d] = out[d] /\ block'[d] = block[d] /\ Travelling(d)' = Travelling(d)
    /\ \E x \in Frames : /\ x.id = captured[Other(d)] + 1
                         /\ in'[Other(d)] \in {in[Other(d)], Append(in[Other(d)], x)}
    /\ captured'[Other(d)] = captured[Other(d)] + 1 /\ played'[d] = played[d]

Ships(d) ==
    /\ out'[d] = out[d] /\ block'[d] = block[d]
    /\ Travelling(d) = <<>>
    /\ \E n \in Nat : /\ Travelling(d)' = Popped(in[Other(d)], n)
                      /\ in'[Other(d)] = Left(in[Other(d)], n)
    /\ Still(d)

Receives(d) ==
    /\ out'[d] = out[d] /\ in'[Other(d)] = in[Other(d)]
    /\ block[d] = <<>> /\ DOMAIN block'[d] = DOMAIN Travelling(d)
    /\ \A i \in DOMAIN Travelling(d) : block'[d][i].id = Travelling(d)[i].id
    /\ Travelling(d)' = <<>>
    /\ Still(d)

Stores(d) ==
    /\ block[d] # <<>> /\ block'[d] = Tail(block[d])
    /\ out'[d] = Append(out[d], Head(block[d]))
    /\ Travelling(d)' = Travelling(d) /\ in'[Other(d)] = in[Other(d)]
    /\ Still(d)

Moves(d) ==
    Drop(d) \/ Plays(d) \/ Captures(d) \/ Ships(d) \/ Receives(d) \/ Stores(d)

LEMMA TravellingIsSeq ==
    ASSUME TypeOK, NEW d \in Ends PROVE Travelling(d) \in Seq(Frames)
<1>1. wire[d] \in Seq(Items) /\ <<>> \in Seq(Frames)
  BY EmptySeq DEF TypeOK
<1>2. CASE wire[d] # <<>>
  <2>1. Len(wire[d]) \in DOMAIN wire[d]
    BY <1>1, <1>2, TailKeeps, LenProperties, SMT
  <2>2. wire[d][Len(wire[d])] \in Items
    BY <1>1, <2>1, LenProperties, ElementOfSeq
  <2> QED
    BY <1>2, <2>2 DEF Travelling, Items
<1> QED
  BY <1>1, <1>2 DEF Travelling

\* Every movement keeps the order.
LEMMA MovesKeepOrder ==
    ASSUME TypeOK, NEW d \in Ends, Way(d), Moves(d) PROVE Way(d)'
<1> DEFINE o == out[d]
           b == block[d]
           t == Travelling(d)
           q == in[Other(d)]
           lo == played[d].id
           hi == captured[Other(d)]
<1>1. Other(d) \in Ends
  BY DEF Other, Ends
<1>2. /\ o \in Seq(Received) /\ b \in Seq(Received) /\ t \in Seq(Frames) /\ q \in Seq(Frames)
      /\ lo \in Nat /\ hi \in Nat
  BY <1>1, TravellingIsSeq DEF TypeOK
<1>3. lo <= hi /\ Ordered(o, b, t, q, lo, hi)
  BY DEF Way
<1>4. CASE Drop(d)
  <2>1. Ordered(out'[d], b, Travelling(d)', in'[Other(d)], lo, hi)
    BY <1>2, <1>3, <1>4, DropKeepsOrder DEF Drop
  <2> QED
    BY <1>3, <1>4, <2>1 DEF Drop, Still, Way
<1>5. CASE Plays(d)
  <2>1. /\ Head(o).id = 0 => Ordered(Tail(o), b, t, q, lo, hi)
        /\ Head(o).id # 0 =>
              Head(o).id \in (lo + 1)..hi /\ Ordered(Tail(o), b, t, q, Head(o).id, hi)
    BY <1>2, <1>3, <1>5, PlayKeepsOrder DEF Plays
  <2>2. played'[d].id = IF Head(o).id = 0 THEN lo ELSE Head(o).id
    BY <1>5 DEF Plays
  <2>3. played'[d].id <= hi
    BY <1>2, <1>3, <2>1, <2>2
  <2> QED
    BY <1>5, <2>1, <2>2, <2>3 DEF Plays, Way
<1>6. CASE Captures(d)
  <2> PICK x \in Frames : x.id = hi + 1 /\ in'[Other(d)] \in {q, Append(q, x)}
    BY <1>6 DEF Captures
  <2>1. /\ Ordered(o, b, t, q, lo, hi + 1)
        /\ Ordered(o, b, t, Append(q, x), lo, hi + 1)
    <3>1. x.id = hi + 1
      OBVIOUS
    <3> HIDE DEF o, b, t, q, lo, hi
    <3> QED
      BY <1>2, <1>3, <3>1, CaptureKeepsOrder
  <2>2. Ordered(o, b, t, in'[Other(d)], lo, hi + 1)
    BY <2>1
  <2>3. lo <= hi + 1
    BY <1>2, <1>3
  <2> QED
    BY <1>6, <2>2, <2>3 DEF Captures, Way
<1>7. CASE Ships(d)
  <2> PICK n \in Nat : Travelling(d)' = Popped(q, n) /\ in'[Other(d)] = Left(q, n)
    BY <1>7 DEF Ships
  <2>1. Ordered(o, b, Popped(q, n), Left(q, n), lo, hi)
    BY <1>2, <1>3, <1>7, ShipKeepsOrder DEF Ships
  <2> QED
    BY <1>3, <1>7, <2>1 DEF Ships, Still, Way
<1>8. CASE Receives(d)
  <2>1. Ordered(o, block'[d], <<>>, q, lo, hi)
    BY <1>2, <1>3, <1>8, ReceiveKeepsOrder DEF Receives
  <2> QED
    BY <1>3, <1>8, <2>1 DEF Receives, Still, Way
<1>9. CASE Stores(d)
  <2>1. Ordered(Append(o, Head(b)), Tail(b), t, q, lo, hi)
    BY <1>2, <1>3, <1>9, StoreKeepsOrder DEF Stores
  <2> QED
    BY <1>3, <1>9, <2>1 DEF Stores, Still, Way
<1> QED
  BY <1>4, <1>5, <1>6, <1>7, <1>8, <1>9 DEF Moves

------------------------------------------------------------------------------
(* Every step of the system is a movement on each of the two ways.         *)

\* A step that touches neither the wire to d nor the frames of d's way.
LEMMA Elsewhere ==
    ASSUME NEW d \in Ends, wire'[d] = wire[d], out'[d] = out[d], block'[d] = block[d],
           in'[Other(d)] = in[Other(d)], Still(d)
    PROVE  Drop(d)
  BY DEF Drop, Travelling

LEMMA AudioMoves ==
    ASSUME TypeOK, NEW e \in Ends, Audio(e), NEW d \in Ends
    PROVE  Moves(d)
<1> USE DEF Other, Ends, Still
<1>1. CASE AudioGet(e)
  <2>1. UNCHANGED <<in, block, wire, captured>>
    BY <1>1 DEF AudioGet
  <2>2. CASE d = e
    <3>1. CASE out[e] = <<>>
      BY <1>1, <2>1, <3>1, Elsewhere DEF AudioGet, Moves
    <3>2. CASE out[e] # <<>>
      BY <1>1, <2>1, <2>2, <3>2 DEF AudioGet, TypeOK, Moves, Plays, Travelling
    <3> QED
      BY <3>1, <3>2
  <2>3. CASE d # e
    <3>1. out'[d] = out[d] /\ played'[d] = played[d]
      BY <1>1, <2>3 DEF AudioGet, TypeOK
    <3> QED
      BY <2>1, <3>1, Elsewhere DEF Moves
  <2> QED
    BY <2>2, <2>3
<1>2. CASE AudioEmpty(e)
  <2>1. /\ UNCHANGED <<out, block, wire, captured, played>>
        /\ \A x \in Ends : in'[x] \in {in[x], <<>>}
    BY <1>2 DEF AudioEmpty, TypeOK
  <2>2. Other(d) \in Ends
    OBVIOUS
  <2> QED
    BY <2>1, <2>2 DEF Moves, Drop, Travelling
<1>5. CASE AudioPut(e)
  <2> PICK c \in Channels : Puts(e, c)
    BY <1>5, PutsOne
  <2> DEFINE frame == [id |-> captured[e] + 1, ch |-> c]
  <2>1. UNCHANGED <<out, block, wire, played>>
    BY <1>5 DEF AudioPut
  <2>2. /\ frame \in Frames /\ frame.id = captured[e] + 1
        /\ in'[e] \in {in[e], Append(in[e], frame)}
        /\ \A x \in Ends \ {e} : in'[x] = in[x]
    BY PutTyped
  <2> HIDE DEF frame
  <2>3. /\ captured'[e] = captured[e] + 1
        /\ \A x \in Ends \ {e} : captured'[x] = captured[x]
    BY <1>5 DEF AudioPut, TypeOK
  <2>4. CASE e = Other(d)
    <3>1. Captures(d)
      BY <2>1, <2>2, <2>3, <2>4 DEF Captures, Travelling
    <3> QED
      BY <3>1 DEF Moves
  <2>5. CASE e # Other(d)
    <3>1. in'[Other(d)] = in[Other(d)] /\ captured'[Other(d)] = captured[Other(d)]
      BY <2>2, <2>3, <2>5
    <3> QED
      BY <2>1, <3>1, Elsewhere DEF Moves
  <2> QED
    BY <2>4, <2>5
<1>3. CASE AudioSkip(e) \/ AudioRelabel(e)
  BY <1>3, Elsewhere DEF AudioSkip, AudioRelabel, queues, Moves
<1>4. CASE AudioClear(e)
  BY <1>4 DEF AudioClear, ClearQueues, TypeOK, Moves, Drop, Travelling
<1> QED
  BY <1>1, <1>2, <1>3, <1>4, <1>5 DEF Audio

\* What Ship does to the way it ships on, and to the other one.
LEMMA ShipMoves ==
    ASSUME TypeOK, NEW d \in Ends, NEW h \in Headers, Ship(Other(d), h, d),
           wire[d] = <<>>, UNCHANGED <<out, block, captured, played>>
    PROVE  Moves(d) /\ Moves(Other(d))
<1> DEFINE e == Other(d)
<1>1. e \in Ends /\ e # d /\ Other(e) = d /\ in[e] \in Seq(Frames)
  BY DEF Other, Ends, TypeOK
<1>2. wire' = [wire EXCEPT ![d] = Sent(h, in[e])]
  BY <1>1, ShipSends
<1>3. wire'[d] = Sent(h, in[e]) /\ wire'[e] = wire[e] /\ in'[d] = in[d]
  BY <1>1, <1>2 DEF TypeOK, Ship
<1>4. Travelling(d) = <<>>
  BY DEF Travelling
<1>5. CASE Bytes(h) > 0
  <2> DEFINE packet == Block(h, Popped(in[e], h.len))
  <2>1. wire'[d] = <<Packet(h), packet>>
    BY <1>3, <1>5 DEF Sent
  <2>2. wire'[d] # <<>> /\ wire'[d][Len(wire'[d])] = packet
    BY <2>1
  <2>3. Travelling(d)' = Popped(in[e], h.len)
    BY <2>2 DEF Travelling, Block
  <2>4. in'[e] = Left(in[e], h.len) /\ h.len \in Nat
    BY <1>1, <1>5 DEF Ship, TypeOK, Headers
  <2> QED
    BY <1>1, <1>3, <1>4, <2>3, <2>4, Elsewhere DEF Moves, Ships, Still
<1>6. CASE ~(Bytes(h) > 0)
  <2>1. wire'[d] = <<Packet(h)>>
    BY <1>3, <1>6 DEF Sent
  <2>2. wire'[d] # <<>> /\ wire'[d][Len(wire'[d])] = Packet(h)
    BY <2>1
  <2>3. Travelling(d)' = <<>>
    BY <2>2 DEF Travelling, Packet
  <2>4. in'[e] = in[e]
    BY <1>6 DEF Ship
  <2> QED
    BY <1>1, <1>3, <1>4, <2>3, <2>4, Elsewhere DEF Moves, Drop, Still
<1> QED
  BY <1>5, <1>6

\* The last packet stays the last when the header before it is taken off.
LEMMA HeaderMoves ==
    ASSUME TypeOK, NEW d \in Ends, wire[d] # <<>>, wire'[d] = Tail(wire[d])
    PROVE  Travelling(d)' \in {Travelling(d), <<>>}
<1>1. wire[d] \in Seq(Items)
  BY DEF TypeOK
<1>2. CASE Tail(wire[d]) = <<>>
  BY <1>2 DEF Travelling
<1>3. CASE Tail(wire[d]) # <<>>
  <2>1. Tail(wire[d]) \in Seq(Items) /\ Len(Tail(wire[d])) = Len(wire[d]) - 1
    BY <1>1, TailKeeps
  <2>2. Len(Tail(wire[d])) \in DOMAIN Tail(wire[d]) /\ Len(wire[d]) \in Nat
    BY <1>1, <1>3, <2>1, TailKeeps, LenProperties, SMT
  <2>3. Tail(wire[d])[Len(Tail(wire[d]))] = wire[d][Len(Tail(wire[d])) + 1]
    BY <1>1, <2>2, TailKeeps
  <2>4. Len(Tail(wire[d])) + 1 = Len(wire[d])
    BY <2>1, <2>2
  <2>5. Tail(wire[d])[Len(Tail(wire[d]))] = wire[d][Len(wire[d])]
    BY <2>3, <2>4
  <2> QED
    BY <1>3, <2>5 DEF Travelling
<1> QED
  BY <1>2, <1>3

LEMMA SharedMoves ==
    ASSUME TypeOK, Control, Labels, NEW e \in Ends, Shared(e), NEW d \in Ends
    PROVE  Moves(d)
<1> USE DEF Still
<1>1. CASE ReceiveHeader(e)
  <2>1. UNCHANGED <<in, out, block, captured, played>> /\ wire[e] # <<>>
    BY <1>1 DEF ReceiveHeader, queues
  <2>2. CASE d = e
    <3>1. wire'[e] = Tail(wire[e])
      BY <1>1 DEF ReceiveHeader, TypeOK
    <3>2. Travelling(d)' \in {Travelling(d), <<>>}
      BY <2>1, <2>2, <3>1, HeaderMoves
    <3> QED
      BY <2>1, <3>2 DEF Moves, Drop
  <2>3. CASE d # e
    <3>1. wire'[d] = wire[d]
      BY <1>1, <2>3 DEF ReceiveHeader, TypeOK
    <3> QED
      BY <2>1, <3>1, Elsewhere DEF Moves
  <2> QED
    BY <2>2, <2>3
<1>2. CASE Adopt(e) \/ StoreDone(e)
  BY <1>2, Elsewhere DEF Adopt, StoreDone, queues, Moves
<1>3. CASE Flush(e)
  BY <1>3 DEF Flush, ClearQueues, TypeOK, Moves, Drop, Travelling, Other, Ends
<1>4. CASE ReceiveBlock(e)
  <2>1. UNCHANGED <<in, out, captured, played>> /\ wire[e] # <<>> /\ pc[e] = "block"
    BY <1>4 DEF ReceiveBlock, queues
  <2>2. CASE d = e
    <3>1. header[e] \in Headers /\ wire[e] \in Seq(Items) /\ block[e] \in Seq(Received)
      BY DEF TypeOK
    <3>2. Len(wire[e]) = 1 /\ Tail(wire[e]) = <<>>
      <4>1. Announces(header[e], wire[e])
        BY <2>1 DEF Control, Framing
      <4>2. Bytes(header[e]) > 0
        BY <2>1, <4>1 DEF Announces
      <4> QED
        BY <3>1, <4>1, <4>2, Announced DEF Announces
    <3>3. Head(wire[e]) = wire[e][1]
      BY <2>1, <3>1, TailKeeps
    <3>4. Head(wire[e]).frames = Travelling(e)
      BY <2>1, <3>2, <3>3 DEF Travelling
    <3>5. wire'[e] = <<>>
      BY <1>4, <3>2 DEF ReceiveBlock, TypeOK
    <3>6. block[e] = <<>>
      <4>1. DOMAIN block[e] = {}
        BY <2>1 DEF Labels, LabelInv
      <4>2. Len(block[e]) \in Nat /\ DOMAIN block[e] = 1..Len(block[e])
        BY <3>1, LenProperties
      <4>3. Len(block[e]) = 0
        <5>1. \A n \in Nat : 1..n = {} => n = 0
          OBVIOUS
        <5> QED
          BY <4>1, <4>2, <5>1
      <4> QED
        BY <3>1, <4>3, EmptySeq
    <3>7. block'[e] = [i \in DOMAIN Travelling(e) |->
                          ReadAs(Travelling(e)[i], header[e].ch)]
      BY <1>4, <3>4 DEF ReceiveBlock, TypeOK
    <3>8. \A i \in DOMAIN Travelling(e) : block'[e][i].id = Travelling(e)[i].id
      BY <3>7 DEF ReadAs
    <3>9. Travelling(e)' = <<>>
      BY <3>5 DEF Travelling
    <3>10. DOMAIN block'[e] = DOMAIN Travelling(e)
      BY <3>7
    <3> QED
      BY <2>1, <2>2, <3>6, <3>8, <3>9, <3>10 DEF Moves, Receives
  <2>3. CASE d # e
    <3>1. wire'[d] = wire[d] /\ block'[d] = block[d]
      BY <1>4, <2>3 DEF ReceiveBlock, TypeOK
    <3> QED
      BY <2>1, <3>1, Elsewhere DEF Moves
  <2> QED
    BY <2>2, <2>3
<1>5. CASE StoreFrame(e)
  <2>1. UNCHANGED <<in, wire, captured, played>> /\ block[e] # <<>>
    BY <1>5 DEF StoreFrame
  <2>2. CASE d = e
    <3>1. out'[e] = Append(out[e], Head(block[e])) /\ block'[e] = Tail(block[e])
      BY <1>5 DEF StoreFrame, TypeOK
    <3> QED
      BY <2>1, <2>2, <3>1 DEF Moves, Stores, Travelling
  <2>3. CASE d # e
    <3>1. out'[d] = out[d] /\ block'[d] = block[d]
      BY <1>5, <2>3 DEF StoreFrame, TypeOK
    <3> QED
      BY <2>1, <3>1, Elsewhere DEF Moves
  <2> QED
    BY <2>2, <2>3
<1> QED
  BY <1>1, <1>2, <1>3, <1>4, <1>5 DEF Shared

LEMMA EveryStepMoves ==
    ASSUME IInv, [Next]_vars, NEW d \in Ends
    PROVE  Moves(d)
<1>0. /\ TypeOK /\ Control /\ Labels
      /\ \A e \in Ends : header[e] \in Headers
  BY DEF IInv, Control, Labels, TypeOK
<1>1. CASE ServerSend
  <2>1. wire["client"] = <<>> /\ UNCHANGED <<out, block, captured, played>>
    BY <1>0, <1>1 DEF ServerSend, Control, Lockstep
  <2>2. Other("client") = "server" /\ d \in {"client", Other("client")}
    BY DEF Other, Ends
  <2>3. Moves("client") /\ Moves(Other("client"))
    BY <1>0, <1>1, <2>1, <2>2, ShipMoves DEF ServerSend, Ends
  <2> QED
    BY <2>2, <2>3
<1>2. CASE ClientReply
  <2>1. wire["server"] = <<>> /\ UNCHANGED <<out, block, captured, played>>
    BY <1>0, <1>2 DEF ClientReply, Control, Lockstep
  <2>2. Other("server") = "client" /\ d \in {"server", Other("server")}
    BY DEF Other, Ends
  <2>3. Moves("server") /\ Moves(Other("server"))
    BY <1>0, <1>2, <2>1, <2>2, ShipMoves DEF ClientReply, Ends
  <2> QED
    BY <2>2, <2>3
<1>3. CASE ServerBegin \/ ClientMeasure \/ ClientLabel \/ ClientResize \/ UNCHANGED vars
  BY <1>3, Elsewhere DEF ServerBegin, ClientMeasure, ClientLabel, ClientResize, vars, queues,
                         Moves, Still
<1>4. CASE ServerBacklog
  <2>1. UNCHANGED <<block, wire, captured, played>>
    BY <1>4 DEF ServerBacklog
  <2>2. \A e \in Ends : in'[e] \in {in[e], <<>>} /\ out'[e] \in {out[e], <<>>}
    BY <1>0, <1>4 DEF ServerBacklog, ClearQueues, queues, TypeOK, Ends
  <2>3. Other(d) \in Ends
    BY DEF Other, Ends
  <2> QED
    BY <2>1, <2>2, <2>3 DEF Moves, Drop, Travelling, Still
<1> QED
  BY <1>0, <1>1, <1>2, <1>3, <1>4, AudioMoves, SharedMoves
     DEF Next, ServerThread, ClientThread, Ends

------------------------------------------------------------------------------
(* The order, and the refinement.                                          *)

LEMMA WayInitially == Init => OrderInv
<1> SUFFICES ASSUME Init, NEW d \in Ends PROVE Way(d)
  BY DEF OrderInv, Way
<1>1. Other(d) \in Ends
  BY DEF Other, Ends
<1>2. /\ played[d].id = 0 /\ captured[Other(d)] = 0
      /\ out[d] = <<>> /\ block[d] = <<>> /\ wire[d] = <<>> /\ in[Other(d)] = <<>>
  BY <1>1 DEF Init
<1> QED
  BY <1>2, EmptyIsOrdered DEF Way, Ordered, Travelling

\* What is on its way to an end was captured after what has been played, and is in
\* order, through both queues, the wire and the block being stored.
THEOREM StaysOrdered == Spec => []OrderInv
<1>1. IInv /\ OrderInv /\ [Next]_vars => OrderInv'
  <2> SUFFICES ASSUME IInv, OrderInv, [Next]_vars, NEW d \in Ends PROVE Way(d)'
    BY DEF OrderInv, Way
  <2>1. Moves(d)
    BY EveryStepMoves
  <2> QED
    BY <2>1, MovesKeepOrder DEF OrderInv, Way, IInv
<1> QED
  BY <1>1, WayInitially, Invariance, PTL DEF Spec

\* A movement is a step of LossyFifo, or leaves its variables alone.
LEMMA MovesAreFifo ==
    ASSUME TypeOK, NEW d \in Ends, Way(d), Moves(d)
    PROVE  \/ captured'[Other(d)] = captured[Other(d)] + 1 /\ played'[d] = played[d]
           \/ /\ \E id \in (played[d].id + 1)..captured[Other(d)] :
                    played'[d] = [times |-> played[d].times + 1, id |-> id]
              /\ captured'[Other(d)] = captured[Other(d)]
           \/ played'[d] = played[d] /\ captured'[Other(d)] = captured[Other(d)]
<1>1. CASE Plays(d) /\ Head(out[d]).id # 0
  <2>1. 1 \in DOMAIN out[d] /\ Head(out[d]) = out[d][1] /\ out[d][1] \in Received
    BY <1>1, TailKeeps, LenProperties, SMT DEF Plays, TypeOK
  <2>2. out[d][1].id \in Nat /\ played[d].id \in Nat /\ captured[Other(d)] \in Nat
    BY <2>1 DEF Received, TypeOK, Other, Ends
  <2>3. played[d].id < out[d][1].id /\ out[d][1].id <= captured[Other(d)]
    BY <1>1, <2>1 DEF Way, Ordered, Within
  <2> QED
    BY <1>1, <2>1, <2>2, <2>3 DEF Plays
<1> QED
  BY <1>1 DEF Moves, Drop, Plays, Captures, Ships, Receives, Stores, Still

\* The client plays what the server captures in order and at most once.
THEOREM ServerToClient == Spec => ServerAudioInOrder
<1>1. Init => ToClient!FifoInit
  BY DEF Init, ToClient!FifoInit, Ends
<1>2. IInv /\ OrderInv /\ [Next]_vars
      => [ToClient!Capture \/ ToClient!Play]_<<captured["server"], played["client"]>>
  <2> SUFFICES ASSUME IInv, OrderInv, [Next]_vars
               PROVE  \/ ToClient!Capture \/ ToClient!Play
                      \/ UNCHANGED <<captured["server"], played["client"]>>
    OBVIOUS
  <2>1. "client" \in Ends /\ Other("client") = "server"
    BY DEF Ends, Other
  <2>2. TypeOK /\ Way("client") /\ Moves("client")
    BY <2>1, EveryStepMoves DEF IInv, OrderInv, Way
  <2> QED
    BY <2>1, <2>2, MovesAreFifo DEF ToClient!Capture, ToClient!Play
<1> QED
  BY <1>1, <1>2, Invariance, StaysOrdered, PTL DEF Spec, ServerAudioInOrder, ToClient!FifoSpec

\* The server plays what the client captures in order and at most once.
THEOREM ClientToServer == Spec => ClientAudioInOrder
<1>1. Init => ToServer!FifoInit
  BY DEF Init, ToServer!FifoInit, Ends
<1>2. IInv /\ OrderInv /\ [Next]_vars
      => [ToServer!Capture \/ ToServer!Play]_<<captured["client"], played["server"]>>
  <2> SUFFICES ASSUME IInv, OrderInv, [Next]_vars
               PROVE  \/ ToServer!Capture \/ ToServer!Play
                      \/ UNCHANGED <<captured["client"], played["server"]>>
    OBVIOUS
  <2>1. "server" \in Ends /\ Other("server") = "client"
    BY DEF Ends, Other
  <2>2. TypeOK /\ Way("server") /\ Moves("server")
    BY <2>1, EveryStepMoves DEF IInv, OrderInv, Way
  <2> QED
    BY <2>1, <2>2, MovesAreFifo DEF ToServer!Capture, ToServer!Play
<1> QED
  BY <1>1, <1>2, Invariance, StaysOrdered, PTL DEF Spec, ClientAudioInOrder, ToServer!FifoSpec

================================================================================
