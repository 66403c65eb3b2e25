-------------------------------- MODULE KcpWire --------------------------------
(***************************************************************************)
(* The header of a KCP segment as it travels: ikcp_encode_seg writes 24    *)
(* bytes, least significant first, and ikcp_input reads them back.         *)
(***************************************************************************)
EXTENDS Integers, TLAPS

\* What the fields of the control block can hold, in bytes of the wire.
U8  == 0..255
U32 == {n \in Nat : n < 4294967296}

\* The four bytes of ikcp_encode32u; ikcp_encode16u writes the first two and
\* ikcp_encode8u the first.
Byte0(n) == n % 256
Byte1(n) == (n \div 256) % 256
Byte2(n) == (n \div 65536) % 256
Byte3(n) == (n \div 16777216) % 256

\* ikcp_encode_seg: conv, cmd, frg, wnd, ts, sn, una, len.
Encode(seg) ==
    <<Byte0(seg.conv), Byte1(seg.conv), Byte2(seg.conv), Byte3(seg.conv),
      Byte0(seg.cmd), Byte0(seg.frg), Byte0(seg.wnd), Byte1(seg.wnd),
      Byte0(seg.ts), Byte1(seg.ts), Byte2(seg.ts), Byte3(seg.ts),
      Byte0(seg.sn), Byte1(seg.sn), Byte2(seg.sn), Byte3(seg.sn),
      Byte0(seg.una), Byte1(seg.una), Byte2(seg.una), Byte3(seg.una),
      Byte0(seg.len), Byte1(seg.len), Byte2(seg.len), Byte3(seg.len)>>

\* ikcp_decode16u and ikcp_decode32u of the bytes from position i on.
Decode16(bytes, i) == bytes[i] + (256 * bytes[i + 1])
Decode32(bytes, i) ==
    bytes[i] + (256 * (bytes[i + 1] + (256 * (bytes[i + 2] + (256 * bytes[i + 3])))))

\* The decoding steps of ikcp_input.
Decode(bytes) ==
    [conv |-> Decode32(bytes, 1), cmd |-> bytes[5], frg |-> bytes[6],
     wnd |-> Decode16(bytes, 7), ts |-> Decode32(bytes, 9),
     sn |-> Decode32(bytes, 13), una |-> Decode32(bytes, 17),
     len |-> Decode32(bytes, 21)]

\* The fields of IKCPSEG; all of them are 32 bits wide in memory.
Segment == [conv : U32, cmd : U32, frg : U32, wnd : U32,
            ts : U32, sn : U32, una : U32, len : U32]

------------------------------------------------------------------------------
\* The four bytes of a 32-bit number give it back.
LEMMA Four ==
    ASSUME NEW n \in U32
    PROVE  /\ Byte0(n) + (256 * (Byte1(n) + (256 * (Byte2(n) + (256 * Byte3(n)))))) = n
           /\ Byte0(n) \in U8 /\ Byte1(n) \in U8 /\ Byte2(n) \in U8 /\ Byte3(n) \in U8
<1>1. n \in Nat
  BY SMT DEF U32
<1>9. n < 4294967296
  BY SMT DEF U32
<1>2. ASSUME NEW k \in Nat
      PROVE  k % 256 \in 0..255 /\ k = (256 * (k \div 256)) + (k % 256) /\ k \div 256 \in Nat
  BY SMT
<1> DEFINE m1 == n \div 256
           m2 == m1 \div 256
           m3 == m2 \div 256
<1>3. m1 \in Nat /\ m2 \in Nat /\ m3 \in Nat
  BY <1>1, <1>2, Zenon
<1>4. /\ Byte0(n) = n % 256 /\ Byte1(n) = m1 % 256
      /\ Byte2(n) = m2 % 256 /\ Byte3(n) = m3 % 256
  <2>1. Byte0(n) = n % 256 /\ Byte1(n) = m1 % 256
    BY SMT DEF Byte0, Byte1
  <2>2. m2 = n \div 65536
    BY <1>1, SMT
  <2>3. m3 = m2 \div 256 /\ m3 = n \div 16777216
    BY <1>1, SMT
  <2> HIDE DEF m2, m3
  <2> QED
    BY <2>1, <2>2, <2>3, SMT DEF Byte2, Byte3
<1>5. n = (256 * m1) + (n % 256) /\ n % 256 \in U8
  BY <1>1, <1>2, SMT DEF U8
<1>6. m1 = (256 * m2) + (m1 % 256) /\ m1 % 256 \in U8
  BY <1>2, <1>3, SMT DEF U8
<1>7. m2 = (256 * m3) + (m2 % 256) /\ m2 % 256 \in U8
  BY <1>2, <1>3, SMT DEF U8
<1>8. m3 = m3 % 256 /\ m3 % 256 \in U8
  <2>1. m3 < 256
    BY <1>1, <1>9, SMT
  <2> QED
    BY <1>3, <2>1, SMT DEF U8
<1> QED
  <2>1. n = (n % 256) + (256 * ((m1 % 256) + (256 * ((m2 % 256) + (256 * (m3 % 256))))))
    BY <1>1, <1>3, <1>5, <1>6, <1>7, <1>8, SMT
  <2> QED
    BY <1>1, <1>3, <1>4, <1>5, <1>6, <1>7, <1>8, <2>1, SMT

\* The first two bytes give its lower half.
LEMMA Two ==
    ASSUME NEW n \in U32
    PROVE  Byte0(n) + (256 * Byte1(n)) = n % 65536
<1>1. n \in Nat
  BY SMT DEF U32
<1> QED
  BY <1>1, SMT DEF Byte0, Byte1

\* What the wire has room for: 16 bits of wnd, 8 of frg and of cmd (kcp.cpp:906).
Carried(seg) ==
    [conv |-> seg.conv, cmd |-> seg.cmd % 256, frg |-> seg.frg % 256,
     wnd |-> seg.wnd % 65536, ts |-> seg.ts, sn |-> seg.sn, una |-> seg.una,
     len |-> seg.len]

\* What ikcp_input reads is what ikcp_encode_seg was given, but for the fields the
\* wire has no room for.
THEOREM RoundTrip ==
    ASSUME NEW seg \in Segment
    PROVE  Decode(Encode(seg)) = Carried(seg)
<1> DEFINE d == Decode(Encode(seg))
<1>1. d.conv = seg.conv /\ d.ts = seg.ts /\ d.sn = seg.sn /\ d.una = seg.una /\ d.len = seg.len
  <2>1. d.conv = seg.conv
    BY Four, SMT DEF Decode, Encode, Decode32, Segment
  <2>2. d.ts = seg.ts
    BY Four, SMT DEF Decode, Encode, Decode32, Segment
  <2>3. d.sn = seg.sn
    BY Four, SMT DEF Decode, Encode, Decode32, Segment
  <2>4. d.una = seg.una
    BY Four, SMT DEF Decode, Encode, Decode32, Segment
  <2>5. d.len = seg.len
    BY Four, SMT DEF Decode, Encode, Decode32, Segment
  <2> QED
    BY <2>1, <2>2, <2>3, <2>4, <2>5
<1>2. d.wnd = seg.wnd % 65536
  BY Two, SMT DEF Decode, Encode, Decode16, Segment
<1>3. d.cmd = seg.cmd % 256 /\ d.frg = seg.frg % 256
  BY SMT DEF Decode, Encode, Byte0
<1>4. d = [conv |-> d.conv, cmd |-> d.cmd, frg |-> d.frg, wnd |-> d.wnd,
           ts |-> d.ts, sn |-> d.sn, una |-> d.una, len |-> d.len]
  BY SMT DEF Decode
<1> HIDE DEF d
<1>5. d = Carried(seg)
  BY <1>1, <1>2, <1>3, <1>4, SMT DEF Carried
<1> QED
  BY <1>5 DEF d

\* A receive window that is a multiple of 65536 reaches the peer as a closed one
\* (kcp.cpp:911): ikcp_wndsize takes any number, and ikcp_wnd_unused is as wide.
THEOREM WideWindowReadsClosed ==
    ASSUME NEW seg \in Segment, seg.wnd % 65536 = 0
    PROVE  Decode(Encode(seg)).wnd = 0
  BY RoundTrip, SMT DEF Carried

================================================================================
