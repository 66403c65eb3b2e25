--------------------------------- MODULE Stream --------------------------------
(***************************************************************************)
(* The exchange of audio over one established connection: the loops of     *)
(* Server::ServerLoop and Client::clientLoop, the two streams between      *)
(* them, and at each end the audio thread, which takes a frame out of      *)
(* outputBuffer (getData) and puts one into inputBuffer (pushData) for     *)
(* every sample.                                                           *)
(*                                                                         *)
(* One action is one critical section, one store to an unlocked variable   *)
(* the other thread reads, or one call on a socket.  A frame is its number *)
(* in the order of capture and the channel count of its cable; once it has *)
(* been received it also has the count it was received as, that of the     *)
(* header before its block.  A deque is a sequence whose head is its back, *)
(* the frame that leaves next.                                             *)
(***************************************************************************)
EXTENDS Integers, Sequences

CONSTANTS
    Channels,       \* channel counts of the cables
    BlockLen,       \* Server::blockSize
    FloatSize,      \* sizeof(float): 4
    ReplySlack,     \* frames a reply may have above the block it answers: 64
    BacklogFactor,  \* the backlog the server tolerates, in replies: 4
    PanelSize,      \* Client::bufferSize before the first block
    MaxCaptured     \* bound on the frames each end captures

ASSUME StreamAssumption ==
    /\ Channels \subseteq Nat /\ 1 \in Channels
    /\ BlockLen \in Nat /\ FloatSize \in Nat \ {0}
    /\ ReplySlack \in Nat /\ BacklogFactor \in Nat
    /\ PanelSize \in Int /\ MaxCaptured \in Nat

Ends == {"server", "client"}

Other(e) == IF e = "server" THEN "client" ELSE "server"

Frames == [id : Nat, ch : Nat]
Received == [id : Nat, ch : Nat, as : Nat]
Headers == [ch : Nat, len : Nat]

VARIABLES
    in, out,      \* inputBuffer and outputBuffer of each end
    cable,        \* channels of the cable pushData was last called with
    local,        \* localSettings.inputChannels of each end
    remote,       \* remoteSettings.inputChannels of each end
    captured,     \* frames captured at each end
    played,       \* the last frame each end took out of outputBuffer, and how many
    audio,        \* where the audio thread of each end stands
    pc,           \* where the network thread of each end stands
    header,       \* the packet header each network thread works with
    block,        \* frames each network thread has yet to store
    bufferSize,   \* Client::bufferSize
    wire,         \* wire[e]: headers and blocks on their way to e
    replugged     \* the cable changed while the last block was prepared (for properties)

queues == <<in, out>>
vars == <<in, out, cable, local, remote, captured, played, audio, pc, header, block,
          bufferSize, wire, replugged>>

AudioPCs == {"get", "push", "put", "relabel", "clear"}
NetPCs == {"recv", "adopt", "flush", "block", "store",     \* both
           "idle", "send", "backlog",                     \* the server's
           "resize", "measure", "label", "reply"}         \* the client's

Init ==
    /\ in = [e \in Ends |-> <<>>] /\ out = [e \in Ends |-> <<>>]
    /\ local = [e \in Ends |-> 1] /\ cable = local
    /\ remote = [e \in Ends |-> 1]
    /\ captured = [e \in Ends |-> 0] /\ played = [e \in Ends |-> [times |-> 0, id |-> 0]]
    /\ audio = [e \in Ends |-> "get"]
    /\ pc = [server |-> "idle", client |-> "recv"]
    /\ header = [e \in Ends |-> [ch |-> 0, len |-> 0]]
    /\ block = [e \in Ends |-> <<>>]
    /\ bufferSize = PanelSize
    /\ wire = [e \in Ends |-> <<>>]
    /\ replugged = [e \in Ends |-> FALSE]

\* size > n for an unsigned size and an int n.
Exceeds(size, n) == n >= 0 /\ size > n

Bytes(h) == FloatSize * h.ch * h.len

Silence == [id |-> 0, ch |-> 0]

\* The n frames popped from a deque, silence standing in for those it lacks.
Popped(q, n) == [i \in 1..n |-> IF i <= Len(q) THEN q[i] ELSE Silence]

\* Mutant: the newest frame is taken, as pop_front would.
LeftByPopFront(q, n) == SubSeq(q, 1, Len(q) - n)

\* What popping n frames leaves.
Left(q, n) == SubSeq(q, n + 1, Len(q))

Min(a, b) == IF a < b THEN a ELSE b

NetGoto(e, label) == pc' = [pc EXCEPT ![e] = label]
AudioGoto(e, label) == audio' = [audio EXCEPT ![e] = label]

\* Mutant: the input buffer is forgotten.
ClearOutputOnly(e) ==
    /\ in' = in
    /\ out' = [out EXCEPT ![e] = <<>>]

ClearQueues(e) ==
    /\ in' = [in EXCEPT ![e] = <<>>]
    /\ out' = [out EXCEPT ![e] = <<>>]

------------------------------------------------------------------------------
(* The audio threads: bufferInputSamples, bufferSamples.                   *)

\* getData(): a frame, or silence once it has waited in vain.
AudioGet(e) ==
    /\ audio[e] = "get"
    /\ IF out[e] = <<>>
       THEN UNCHANGED <<out, played>>
       ELSE /\ out' = [out EXCEPT ![e] = Tail(@)]
            /\ played' = [played EXCEPT ![e] =
                            IF Head(out[e]).id = 0 THEN @
                            ELSE [times |-> @.times + 1, id |-> Head(out[e]).id]]
    /\ AudioGoto(e, "push")
    /\ UNCHANGED <<in, cable, local, remote, captured, pc, header, block,
                   bufferSize, wire, replugged>>

\* The client drops a frame its input buffer has no room for; the server never.
ClientTakes(q) == ~Exceeds(Len(q), bufferSize)

\* Without a cable pushData empties the buffer first.
AudioEmpty(e) ==
    /\ audio[e] = "push" /\ captured[e] < MaxCaptured /\ 0 \in Channels
    /\ in' = [in EXCEPT ![e] = <<>>]
    /\ AudioGoto(e, "put")
    /\ UNCHANGED <<out, cable, local, remote, captured, played, pc, header, block,
                   bufferSize, wire, replugged>>

\* The network thread has read the channel count its next block will be labelled
\* with, and not yet taken the block.
Preparing(e) == pc[e] \in {"send", "reply"}

\* pushData puts the frame in, with a cable of c channels in the jack.
AudioPut(e) ==
    /\ audio[e] \in {"push", "put"} /\ captured[e] < MaxCaptured
    /\ \E c \in Channels :
         /\ (c = 0) = (audio[e] = "put")
         /\ cable' = [cable EXCEPT ![e] = c]
         /\ in' = [in EXCEPT ![e] = IF e = "server" \/ ClientTakes(@)
                                    THEN Append(@, [id |-> captured[e] + 1, ch |-> c])
                                    ELSE @]
         /\ AudioGoto(e, IF c = local[e] THEN "get" ELSE "relabel")
         /\ replugged' = [replugged EXCEPT ![e] = @ \/ (Preparing(e) /\ c # local[e])]
    /\ captured' = [captured EXCEPT ![e] = @ + 1]
    /\ UNCHANGED <<out, local, remote, played, pc, header, block, bufferSize, wire>>

\* The rest of pushData after a change of channels: localSettings.inputChannels is
\* set, unlocked, before both buffers are emptied.
AudioRelabel(e) ==
    /\ audio[e] = "relabel"
    /\ local' = [local EXCEPT ![e] = cable[e]]
    /\ AudioGoto(e, "clear")
    /\ UNCHANGED <<queues, cable, remote, captured, played, pc, header, block,
                   bufferSize, wire, replugged>>

\* The bound: an end that has captured its share only plays.
AudioSkip(e) ==
    /\ audio[e] = "push" /\ captured[e] = MaxCaptured
    /\ AudioGoto(e, "get")
    /\ UNCHANGED <<queues, cable, local, remote, captured, played, pc, header,
                   block, bufferSize, wire, replugged>>

AudioClear(e) ==
    /\ audio[e] = "clear"
    /\ ClearQueues(e)
    /\ AudioGoto(e, "get")
    /\ UNCHANGED <<cable, local, remote, captured, played, pc, header, block,
                   bufferSize, wire, replugged>>

Audio(e) ==
    \/ AudioGet(e) \/ AudioEmpty(e) \/ AudioPut(e) \/ AudioSkip(e)
    \/ AudioRelabel(e) \/ AudioClear(e)

------------------------------------------------------------------------------
(* The server's loop.                                                      *)

\* The audio thread is between the first frame of a new cable and the clear.
Changing(e) == audio[e] \in {"relabel", "clear"}

\* The header is filled in before the lock is taken.
ServerBegin ==
    /\ pc["server"] = "idle" /\ Exceeds(Len(in["server"]), BlockLen)
    /\ header' = [header EXCEPT !["server"] =
                    [ch |-> local["server"], len |-> BlockLen]]
    /\ replugged' = [replugged EXCEPT !["server"] = Changing("server")]
    /\ NetGoto("server", "send")
    /\ UNCHANGED <<queues, cable, local, remote, captured, played, audio, block,
                   bufferSize, wire>>

Packet(h) == [kind |-> "header", hdr |-> h, frames |-> <<>>]
Block(h, q) == [kind |-> "block", hdr |-> h, frames |-> q]

\* Pops a block and sends the header and then the block.  Without channels the loop
\* that pops runs zero times and there is no block.
Ship(e, h, to) ==
    IF Bytes(h) > 0
    THEN /\ in' = [in EXCEPT ![e] = Left(@, h.len)]
         /\ wire' = [wire EXCEPT ![to] =
                       @ \o <<Packet(h), Block(h, Popped(in[e], h.len))>>]
    ELSE /\ in' = in
         /\ wire' = [wire EXCEPT ![to] = Append(@, Packet(h))]

ServerSend ==
    /\ pc["server"] = "send"
    /\ Ship("server", header["server"], "client")
    /\ NetGoto("server", "recv")
    /\ UNCHANGED <<out, cable, local, remote, captured, played, audio, header,
                   block, bufferSize, replugged>>

\* Both ends: the header of a packet from the other end.
ReceiveHeader(e) ==
    /\ pc[e] = "recv" /\ wire[e] # <<>>
    /\ header' = [header EXCEPT ![e] = Head(wire[e]).hdr]
    /\ wire' = [wire EXCEPT ![e] = Tail(@)]
    /\ NetGoto(e, "adopt")
    /\ UNCHANGED <<queues, cable, local, remote, captured, played, audio, block,
                   bufferSize, replugged>>

\* Mutant: the new channel count is taken, the frames of the old one are kept.
NeverChanged(e) == FALSE

Changed(e) == remote[e] # header[e].ch

\* Mutant: a packet without channels is taken to have a block.
ExpectBlockByLen(e) == IF header[e].len > 0 THEN "block" ELSE "store"

ExpectBlock(e) == IF Bytes(header[e]) > 0 THEN "block" ELSE "store"

AfterFlush(e) ==
    IF e = "server" THEN "backlog"
    ELSE IF ExpectBlock(e) = "block" THEN "resize" ELSE "store"

\* remoteSettings.inputChannels follows the header before the buffers do.
Adopt(e) ==
    /\ pc[e] = "adopt"
    /\ remote' = [remote EXCEPT ![e] = header[e].ch]
    /\ NetGoto(e, IF Changed(e) THEN "flush" ELSE AfterFlush(e))
    /\ UNCHANGED <<queues, cable, local, captured, played, audio, header, block,
                   bufferSize, wire, replugged>>

Flush(e) ==
    /\ pc[e] = "flush"
    /\ ClearQueues(e)
    /\ NetGoto(e, AfterFlush(e))
    /\ UNCHANGED <<cable, local, remote, captured, played, audio, header, block,
                   bufferSize, wire, replugged>>

\* inputBuffer.size() > 4 * bufferSize: frames against the bytes of the reply,
\* none when the reply is empty.
Backlog == Len(in["server"]) > BacklogFactor * Bytes(header["server"])

ServerBacklog ==
    /\ pc["server"] = "backlog"
    /\ IF Backlog THEN ClearQueues("server") ELSE UNCHANGED queues
    /\ NetGoto("server", ExpectBlock("server"))
    /\ UNCHANGED <<cable, local, remote, captured, played, audio, header, block,
                   bufferSize, wire, replugged>>

\* The client takes the size of a block to come as its bufferSize.
ClientResize ==
    /\ pc["client"] = "resize"
    /\ bufferSize' = Bytes(header["client"])
    /\ NetGoto("client", "block")
    /\ UNCHANGED <<queues, cable, local, remote, captured, played, audio, header,
                   block, wire, replugged>>

\* A frame as read with a channel count of ch, whatever its own.
ReadAs(frame, ch) == [id |-> frame.id, ch |-> frame.ch, as |-> ch]

\* Both ends: the block a header has announced.  Its frames are read with the
\* channel count of the header this end holds.
ReceiveBlock(e) ==
    /\ pc[e] = "block" /\ wire[e] # <<>>
    /\ block' = [block EXCEPT ![e] =
                   [i \in DOMAIN Head(wire[e]).frames |->
                      ReadAs(Head(wire[e]).frames[i], header[e].ch)]]
    /\ wire' = [wire EXCEPT ![e] = Tail(@)]
    /\ NetGoto(e, "store")
    /\ UNCHANGED <<queues, cable, local, remote, captured, played, audio, header,
                   bufferSize, replugged>>

\* Buffer is full... wait?  Only the client waits.
Full(e) ==
    /\ e = "client"
    /\ \/ Len(out[e]) > (header[e].len * 22) \div 10
       \/ Exceeds(Len(out[e]), bufferSize)

StoreFrame(e) ==
    /\ pc[e] = "store" /\ block[e] # <<>> /\ ~Full(e)
    /\ out' = [out EXCEPT ![e] = Append(@, Head(block[e]))]
    /\ block' = [block EXCEPT ![e] = Tail(@)]
    /\ UNCHANGED <<in, cable, local, remote, captured, played, audio, pc, header,
                   bufferSize, wire, replugged>>

\* Mutant: the client does not answer an empty packet.
AfterStoreSilent(e) ==
    IF e = "server" THEN "idle" ELSE IF Bytes(header[e]) = 0 THEN "recv" ELSE "measure"

AfterStore(e) == IF e = "server" THEN "idle" ELSE "measure"

StoreDone(e) ==
    /\ pc[e] = "store" /\ block[e] = <<>>
    /\ NetGoto(e, AfterStore(e))
    /\ UNCHANGED <<queues, cable, local, remote, captured, played, audio, header,
                   block, bufferSize, wire, replugged>>

------------------------------------------------------------------------------
(* The client's answer.                                                    *)

\* Mutant: the frame being captured is not counted.
OneLess(h) == Min(Len(in["client"]) - 1, h.len + ReplySlack)

\* The length of the reply: what is there, up to returnLimit.
ReplyLen(h) == Min(Len(in["client"]), h.len + ReplySlack)

ClientMeasure ==
    /\ pc["client"] = "measure"
    /\ header' = [header EXCEPT !["client"].len = ReplyLen(header["client"])]
    /\ NetGoto("client", "label")
    /\ UNCHANGED <<queues, cable, local, remote, captured, played, audio, block,
                   bufferSize, wire, replugged>>

\* packet->channels is read after the lock was given back.
ClientLabel ==
    /\ pc["client"] = "label"
    /\ header' = [header EXCEPT !["client"].ch = local["client"]]
    /\ replugged' = [replugged EXCEPT !["client"] = Changing("client")]
    /\ NetGoto("client", "reply")
    /\ UNCHANGED <<queues, cable, local, remote, captured, played, audio, block,
                   bufferSize, wire>>

ClientReply ==
    /\ pc["client"] = "reply"
    /\ Ship("client", header["client"], "server")
    /\ NetGoto("client", "recv")
    /\ UNCHANGED <<out, cable, local, remote, captured, played, audio, header,
                   block, bufferSize, replugged>>

------------------------------------------------------------------------------
Shared(e) ==
    \/ ReceiveHeader(e) \/ Adopt(e) \/ Flush(e) \/ ReceiveBlock(e)
    \/ StoreFrame(e) \/ StoreDone(e)

ServerThread == Shared("server") \/ ServerBegin \/ ServerSend \/ ServerBacklog

ClientThread ==
    Shared("client") \/ ClientResize \/ ClientMeasure \/ ClientLabel \/ ClientReply

Next == ServerThread \/ ClientThread \/ \E e \in Ends : Audio(e)

Spec == Init /\ [][Next]_vars

\* Rack calls process() at both ends and both threads are scheduled.
FairSpec ==
    /\ Spec /\ WF_vars(ServerThread) /\ WF_vars(ClientThread)
    /\ \A e \in Ends : WF_vars(Audio(e))

------------------------------------------------------------------------------
(* Properties.                                                             *)

Items == [kind : {"header", "block"}, hdr : Headers, frames : Seq(Frames)]

TypeOK ==
    /\ in \in [Ends -> Seq(Frames)] /\ out \in [Ends -> Seq(Received)]
    /\ cable \in [Ends -> Nat] /\ local \in [Ends -> Nat] /\ remote \in [Ends -> Nat]
    /\ captured \in [Ends -> Nat] /\ played \in [Ends -> [times : Nat, id : Nat]]
    /\ audio \in [Ends -> AudioPCs] /\ pc \in [Ends -> NetPCs]
    /\ header \in [Ends -> Headers] /\ block \in [Ends -> Seq(Received)]
    /\ bufferSize \in Int
    /\ wire \in [Ends -> Seq(Items)]
    /\ replugged \in [Ends -> BOOLEAN]

\* The two threads take turns: while one works the other waits for it and nothing
\* is on its way to either but what the one waiting has been sent; and they never
\* wait for one another (Server.cpp:205-300, Client.cpp:218-334).
Lockstep ==
    /\ pc["server"] # "recv" => pc["client"] = "recv" /\ wire["client"] = <<>>
    /\ pc["client"] # "recv" => pc["server"] = "recv" /\ wire["server"] = <<>>
    /\ wire["server"] = <<>> \/ wire["client"] = <<>>
    /\ pc["server"] = "recv" /\ pc["client"] = "recv" =>
          wire["server"] # <<>> \/ wire["client"] # <<>>

\* What a header announces.
Announces(h, items) ==
    IF Bytes(h) > 0
    THEN /\ Len(items) = 1 /\ items[1].kind = "block"
         /\ Len(items[1].frames) = h.len /\ items[1].hdr = h
    ELSE items = <<>>

\* The two ends agree on where a packet begins: who expects a header finds one,
\* followed by exactly the block it announces; who expects a block finds that of
\* the header it has read (Server.cpp:251-282, Client.cpp:226-253).
Framing ==
    \A e \in Ends :
        /\ pc[e] = "recv" /\ wire[e] # <<>> =>
              Head(wire[e]).kind = "header" /\ Announces(Head(wire[e]).hdr, Tail(wire[e]))
        /\ pc[e] \in {"adopt", "flush", "backlog", "resize", "block"} =>
              Announces(header[e], wire[e])
        /\ pc[e] \in {"resize", "block"} => wire[e] # <<>>

\* The frames of a sequence, silence aside, come from a cable of ch channels.
AllOf(frames, ch) == \A i \in DOMAIN frames : frames[i].id # 0 => frames[i].ch = ch

\* A header says the channel count of the frames in its block, although it is read
\* from localSettings before they are popped (Server.cpp:211 and 223, Client.cpp:290
\* and 298): only a cable that is changed meanwhile, or was not yet quite changed,
\* makes a block that is read with the wrong count.
LabelsMatch ==
    \A e \in Ends : ~replugged[e] =>
        /\ Preparing(e) => AllOf(in[e], header[e].ch)
        /\ \A i \in DOMAIN wire[Other(e)] :
              AllOf(wire[Other(e)][i].frames, wire[Other(e)][i].hdr.ch)

\* All frames the audio thread may play were read with the channel count it gives its
\* output, except between the store to remoteSettings and the clear (Server.cpp:260-268,
\* Client.cpp:239-247).
UniformOutput ==
    \A e \in Ends : pc[e] # "flush" =>
        \A i \in DOMAIN out[e] : out[e][i].as = remote[e]

\* Each direction delivers what was captured in order and at most once.
ToClient == INSTANCE LossyFifo WITH captured <- captured["server"],
                                    played <- played["client"]
ToServer == INSTANCE LossyFifo WITH captured <- captured["client"],
                                    played <- played["server"]

ServerAudioInOrder == ToClient!FifoSpec
ClientAudioInOrder == ToServer!FifoSpec

\* Every block the server sends is answered and the answer stored: no full buffer
\* and no empty one ever stops the exchange.
RoundEnds == pc["server"] = "recv" ~> pc["server"] = "idle"

------------------------------------------------------------------------------
(* The inductive invariant.                                                *)

\* Each thread stands in its own loop.
PcInv ==
    /\ pc["server"] \in {"idle", "send", "recv", "adopt", "flush", "backlog", "block", "store"}
    /\ pc["client"] \in {"recv", "adopt", "flush", "resize", "block", "store", "measure",
                         "label", "reply"}

\* What is on its way to a thread is read before it does anything else.
WireInv ==
    \A e \in Ends :
        pc[e] \notin {"recv", "adopt", "flush", "backlog", "resize", "block"} =>
            wire[e] = <<>>

\* From the store to remoteSettings on it agrees with the header and the frames of
\* the block; no frame of a block is left behind.
LabelInv ==
    \A e \in Ends :
        /\ pc[e] \in {"flush", "backlog", "resize", "block", "store"} =>
              remote[e] = header[e].ch
        /\ \A i \in DOMAIN block[e] : pc[e] = "store" /\ block[e][i].as = remote[e]

\* Except while pushData is between its push and its clear (Server.cpp:84-96,
\* Client.cpp:87-101), all frames of inputBuffer have the count of localSettings.
UniformInput ==
    \A e \in Ends : ~Changing(e) => \A i \in DOMAIN in[e] : in[e][i].ch = local[e]

\* As long as the cable is not changed localSettings keeps the count that was read.
ReadInv ==
    \A e \in Ends : Preparing(e) /\ ~replugged[e] =>
        ~Changing(e) /\ local[e] = header[e].ch

IInv ==
    /\ TypeOK /\ PcInv /\ Lockstep /\ WireInv /\ Framing
    /\ UniformInput /\ ReadInv /\ LabelInv /\ UniformOutput /\ LabelsMatch

\* The frames of the block on its way to an end, the last packet in the wire.
Travelling(e) == IF wire[e] = <<>> THEN <<>> ELSE wire[e][Len(wire[e])].frames

\* The frames of a sequence were captured after number lo and up to number hi; id 0
\* is silence.
Within(s, lo, hi) == \A i \in DOMAIN s : s[i].id # 0 => lo < s[i].id /\ s[i].id <= hi

Ascending(s) ==
    \A i, j \in DOMAIN s : i < j /\ s[i].id # 0 /\ s[j].id # 0 => s[i].id < s[j].id

Before(s, t) ==
    \A i \in DOMAIN s, j \in DOMAIN t :
        s[i].id # 0 /\ t[j].id # 0 => s[i].id < t[j].id

\* The frames in four places on one way, the next to be played first, are in order.
Ordered(o, b, t, q, lo, hi) ==
    /\ \A s \in {o, b, t, q} : Within(s, lo, hi) /\ Ascending(s)
    /\ Before(o, b) /\ Before(o, t) /\ Before(o, q)
    /\ Before(b, t) /\ Before(b, q) /\ Before(t, q)

\* The frames on their way to an end are those captured after the one played last,
\* in the order of their capture.
OrderInv ==
    \A e \in Ends :
        /\ played[e].id <= captured[Other(e)]
        /\ Ordered(out[e], block[e], Travelling(e), in[Other(e)],
                   played[e].id, captured[Other(e)])

==============================================================================
