---------------------------- MODULE UartRxProofs ----------------------------
(***************************************************************************)
(* UartRx for every radix, ring, DMA transfer, frame and noise: its types, *)
(* that the parser stays inside the frame it has room for, that bytes      *)
(* arrive once and in order, and that the receiver stays on.               *)
(***************************************************************************)
EXTENDS UartRx, ListLemmas

\* The interrupt copies only what the DMA has written, and a transfer that is
\* queued has room.
DriverInv ==
  /\ irq # "off" => received <= Len(dma)
  /\ armed => Len(dma) < DmaSize

\* In uart_get_data a frame has been started exactly while bytes are kept,
\* and from the length on data_len counts what is missing.
ParserInv ==
  /\ pc = "read" => (start <=> buf # <<>>)
  /\ pc = "parse" => ~start /\ buf # <<>>
  /\ pc = "read" /\ Len(buf) >= 3 =>
       /\ dataLen > 0 /\ Remaining(buf) <= MaxLen
       /\ Len(buf) + dataLen = 3 + Remaining(buf)

RxInv == TypeOK /\ DriverInv /\ ParserInv /\ Len(buf) <= 3 + MaxLen

-----------------------------------------------------------------------------
(* Lemmas on bytes and frames.                                             *)

\* Sequences of bytes stay sequences of bytes.
LEMMA AppendByte ==
  ASSUME NEW S, NEW s \in Seq(S), NEW e \in S
  PROVE  /\ Append(s, e) \in Seq(S) /\ Append(s, e) # <<>>
         /\ Len(s) \in Nat /\ Len(Append(s, e)) = Len(s) + 1
         /\ \A i \in 1 .. Len(s) : Append(s, e)[i] = s[i]
BY AppendProperties

LEMMA TailByte ==
  ASSUME NEW S, NEW s \in Seq(S), s # <<>>
  PROVE  Tail(s) \in Seq(S) /\ Head(s) \in S
BY TailMembers

\* The length field counts at least the checksum.
LEMMA RemainingType ==
  ASSUME NEW b \in Seq(Byte), Len(b) >= 3
  PROVE  Remaining(b) \in Nat \ {0}
<1>1. b[2] \in Nat /\ b[3] \in Nat /\ Radix \in Nat
  BY RxAssumption DEF Byte
<1>2. b[2] * Radix \in Nat
  BY <1>1
<1> HIDE DEF Byte
<1> QED
  BY <1>1, <1>2 DEF Remaining

\* Later bytes do not change it.
LEMMA RemainingStable ==
  ASSUME NEW b \in Seq(Byte), NEW ch \in Byte, Len(b) >= 3
  PROVE  Remaining(Append(b, ch)) = Remaining(b)
<1>1. Append(b, ch)[2] = b[2] /\ Append(b, ch)[3] = b[3]
  BY AppendByte
<1> QED
  BY <1>1 DEF Remaining

-----------------------------------------------------------------------------
LEMMA RxInit == Init => RxInv
<1> SUFFICES ASSUME Init PROVE RxInv
  OBVIOUS
<1>1. /\ 0 \in Byte /\ <<>> \in Seq(Byte) /\ <<>> \in Seq(Frame)
      /\ Len(<<>>) = 0 /\ 0 \in 0 .. RingSize - 1
  BY RxAssumption DEF Byte
<1>2. ring \in [0 .. RingSize - 1 -> Byte]
  BY <1>1 DEF Init
<1>3. TypeOK
  <2>1. /\ line \in Seq(Byte) /\ outstanding \in Seq(Frame)
        /\ dma \in Seq(Byte) /\ Len(dma) <= DmaSize /\ buf \in Seq(Byte)
    BY <1>1, RxAssumption DEF Init
  <2>2. /\ sent \in 0 .. MaxFrames /\ noise \in 0 .. MaxNoise
        /\ received \in 0 .. DmaSize
        /\ pIn \in 0 .. RingSize - 1 /\ pOut \in 0 .. RingSize - 1
        /\ dataLen \in Nat
    BY RxAssumption DEF Init
  <2>3. /\ armed \in BOOLEAN /\ idle \in BOOLEAN /\ start \in BOOLEAN
        /\ irq \in {"off", "copy", "rearm"} /\ pc \in {"read", "parse"}
    BY DEF Init
  <2> QED
    BY <1>2, <2>1, <2>2, <2>3 DEF TypeOK
<1>4. DriverInv /\ ParserInv /\ Len(buf) <= 3 + MaxLen
  BY <1>1, RxAssumption DEF Init, DriverInv, ParserInv
<1> QED
  BY <1>3, <1>4 DEF RxInv

\* The host and the line.
LEMMA RxLine ==
  ASSUME RxInv, HostSend \/ Damage
  PROVE  RxInv'
<1> USE DEF RxInv, TypeOK, DriverInv, ParserInv, driver, interrupt, parser
<1>1. CASE HostSend
  <2>1. PICK f \in Frame : /\ line' = line \o f
                           /\ outstanding' = Append(outstanding, f)
    BY <1>1 DEF HostSend
  <2>2. line' \in Seq(Byte) /\ outstanding' \in Seq(Frame)
    BY <2>1, RxAssumption, ConcatProperties, AppendByte DEF Byte
  <2>3. sent' \in 0 .. MaxFrames
    BY <1>1, RxAssumption DEF HostSend
  <2> QED
    BY <1>1, <2>2, <2>3 DEF HostSend, Remaining
<1>2. CASE Damage
  <2>1. line' \in Seq(Byte)
    <3>1. CASE line' = Tail(line)
      BY <1>2, <3>1, TailByte DEF Damage
    <3>2. ASSUME NEW b \in Byte, line' = [line EXCEPT ![1] = b]
          PROVE  line' \in Seq(Byte)
      <4>1. line \in Seq(Byte) /\ line # <<>>
        BY <1>2 DEF Damage
      <4>2. 1 \in 1 .. Len(line)
        BY <4>1, EmptySeq, LenProperties
      <4> QED
        BY <3>2, <4>1, <4>2, ExceptSeq
    <3> QED
      BY <1>2, <3>1, <3>2 DEF Damage
  <2>2. noise' \in 0 .. MaxNoise
    BY <1>2, RxAssumption DEF Damage
  <2> QED
    BY <1>2, <2>1, <2>2 DEF Damage, Remaining
<1> QED
  BY <1>1, <1>2

\* A byte the UART receives: with a transfer queued there is room for it.
LEMMA RxReceive ==
  ASSUME RxInv, ReceiveByte
  PROVE  RxInv'
<1> USE DEF RxInv, TypeOK, DriverInv, ParserInv, driver, interrupt, parser
<1>1. line' \in Seq(Byte) /\ Head(line) \in Byte
  BY TailByte DEF ReceiveByte
<1>2. CASE ~armed
  BY <1>1, <1>2 DEF ReceiveByte, Remaining
<1>3. CASE armed
  <2>1. /\ dma' \in Seq(Byte) /\ Len(dma') = Len(dma) + 1 /\ Len(dma) \in Nat
        /\ armed' = (Len(dma) + 1 < DmaSize) /\ idle' = TRUE
    <3>1. /\ dma' = Append(dma, Head(line)) /\ idle' = TRUE
          /\ armed' = (Len(dma) + 1 < DmaSize)
      BY ONLY <1>3, ReceiveByte DEF ReceiveByte
    <3>2. dma \in Seq(Byte)
      OBVIOUS
    <3>3. /\ Append(dma, Head(line)) \in Seq(Byte) /\ Len(dma) \in Nat
          /\ Len(Append(dma, Head(line))) = Len(dma) + 1
      BY ONLY <1>1, <3>2, AppendByte
    <3> QED
      BY ONLY <3>1, <3>3
  <2>2. Len(dma') <= DmaSize /\ (armed' => Len(dma') < DmaSize)
    <3>1. Len(dma) < DmaSize /\ DmaSize \in Nat
      BY <1>3, RxAssumption
    <3>2. Len(dma') <= DmaSize
      BY <2>1, <3>1
    <3>3. ASSUME armed' PROVE Len(dma') < DmaSize
      BY <2>1, <3>3
    <3> QED
      BY <3>2, <3>3
  <2>3. armed' \in BOOLEAN /\ idle' \in BOOLEAN
    BY <2>1
  <2>4. TypeOK'
    BY <1>1, <2>1, <2>2, <2>3 DEF ReceiveByte
  <2>5. irq' # "off" => received' <= Len(dma')
    <3>1. irq # "off" => received <= Len(dma) /\ received \in Nat
      BY RxAssumption
    <3>2. irq' = irq /\ received' = received
      BY DEF ReceiveByte
    <3> QED
      BY <2>1, <3>1, <3>2
  <2>6. ParserInv' /\ Len(buf') <= 3 + MaxLen
    BY DEF ReceiveByte, Remaining
  <2> QED
    BY <2>2, <2>4, <2>5, <2>6
<1> QED
  BY <1>2, <1>3

-----------------------------------------------------------------------------
(* The interrupt.                                                          *)

LEMMA RxIrq ==
  ASSUME RxInv, Irq
  PROVE  RxInv'
<1> USE DEF RxInv, TypeOK, DriverInv, ParserInv, wire, driver, parser
<1>1. CASE IrqEnter
  <2>1. received' \in 0 .. DmaSize /\ (irq' # "off" => received' <= Len(dma))
    BY <1>1, LenProperties, RxAssumption DEF IrqEnter
  <2>2. irq' \in {"off", "copy", "rearm"} /\ idle' \in BOOLEAN
    BY <1>1 DEF IrqEnter
  <2> QED
    BY <1>1, <2>1, <2>2 DEF IrqEnter, Remaining
<1>2. CASE IrqCopy
  <2>1. pIn' \in 0 .. RingSize - 1
    BY <1>2, RxAssumption DEF IrqCopy
  <2>2. ring' \in [0 .. RingSize - 1 -> Byte]
    <3>1. ASSUME NEW i \in 0 .. RingSize - 1,
                 ((i + RingSize - pIn) % RingSize) + 1 <= received
          PROVE  dma[((i + RingSize - pIn) % RingSize) + 1] \in Byte
      <4> DEFINE k == (i + RingSize - pIn) % RingSize
      <4>1. k \in 0 .. RingSize - 1
        BY RxAssumption
      <4>2. received <= Len(dma) /\ Len(dma) \in Nat
        BY <1>2, LenProperties DEF IrqCopy
      <4>3. k + 1 <= received
        BY <3>1
      <4> HIDE DEF k
      <4>4. k + 1 \in 1 .. Len(dma)
        BY <4>1, <4>2, <4>3, RxAssumption
      <4>5. dma[k + 1] \in Byte
        BY <4>4, ElementOfSeq
      <4> QED
        BY <4>5 DEF k
    <3> QED
      BY <1>2, <3>1 DEF IrqCopy
  <2> QED
    BY <1>2, <2>1, <2>2 DEF IrqCopy, Remaining
<1>3. CASE IrqRearm
  <2>1. <<>> \in Seq(Byte) /\ Len(<<>>) = 0
    BY EmptySeq
  <2> QED
    BY <1>3, <2>1, RxAssumption DEF IrqRearm, Remaining
<1> QED
  BY <1>1, <1>2, <1>3 DEF Irq

-----------------------------------------------------------------------------
(* The parser.                                                             *)

\* A frame that is dropped, or was parsed, leaves nothing behind.
LEMMA NothingKept ==
  ASSUME RxInv, pc' = "read", start' = FALSE, buf' = <<>>, dataLen' \in Nat
  PROVE  /\ buf' \in Seq(Byte) /\ ParserInv' /\ Len(buf') <= 3 + MaxLen
         /\ pc' \in {"read", "parse"} /\ start' \in BOOLEAN
<1>1. buf' \in Seq(Byte) /\ Len(buf') = 0
  BY EmptySeq
<1>2. MaxLen \in Nat /\ ~(Len(buf') >= 3) /\ Len(buf') <= 3 + MaxLen
  BY <1>1, RxAssumption
<1>3. ParserInv'
  BY <1>2 DEF ParserInv
<1> QED
  BY <1>1, <1>2, <1>3

\* uart_get_data: a byte is kept only while the length field has room for it.
LEMMA RxGet ==
  ASSUME RxInv, GetByte
  PROVE  RxInv'
<1> DEFINE ch == ring[pOut]
           b == Append(buf, ch)
<1>1. ch \in Byte /\ pOut' \in 0 .. RingSize - 1 /\ pc = "read"
  BY RxAssumption DEF RxInv, TypeOK, GetByte, NextOut
<1>2. /\ b \in Seq(Byte) /\ b # <<>> /\ Len(buf) \in Nat
      /\ Len(b) \in Nat /\ Len(buf) = Len(b) - 1
  BY <1>1, AppendByte DEF RxInv, TypeOK
<1>3. /\ dataLen \in Nat /\ start \in BOOLEAN /\ MaxLen \in Nat
      /\ buf \in Seq(Byte)
      /\ start <=> buf # <<>>
      /\ Len(buf) >= 3 => /\ dataLen > 0 /\ Remaining(buf) <= MaxLen
                          /\ Len(buf) + dataLen = 3 + Remaining(buf)
  BY <1>1, RxAssumption DEF RxInv, TypeOK, ParserInv
<1> DEFINE Kept == /\ buf' \in Seq(Byte) /\ dataLen' \in Nat
                   /\ ParserInv' /\ Len(buf') <= 3 + MaxLen
                   /\ pc' \in {"read", "parse"} /\ start' \in BOOLEAN
<1> HIDE DEF ch, b
<1>4. ASSUME UNCHANGED parser PROVE Kept
  BY <1>4 DEF RxInv, TypeOK, ParserInv, parser, Remaining
<1>5. ASSUME Len(b) < 3, start' = TRUE, buf' = b, UNCHANGED <<pc, dataLen>>
      PROVE  Kept
  BY <1>1, <1>2, <1>3, <1>5 DEF ParserInv
<1>6. ASSUME Restart PROVE Kept
  BY <1>1, <1>6, NothingKept DEF Restart
<1>7. ASSUME start \/ ch = Header, Len(b) = 3, ~TooLong(Remaining(b)),
             dataLen' = Remaining(b), buf' = b, UNCHANGED <<pc, start>>
      PROVE  Kept
  <2>1. Remaining(b) \in Nat \ {0} /\ Remaining(b) <= MaxLen
    <3>1. Len(b) >= 3
      BY <1>7
    <3>2. Remaining(b) \in Nat \ {0}
      BY <1>2, <3>1, RemainingType
    <3>3. ~(Remaining(b) > MaxLen)
      BY <1>7 DEF TooLong
    <3> QED
      BY <1>3, <3>2, <3>3
  <2>2. start
    <3>1. Len(b) = 3
      BY <1>7
    <3>2. Len(buf) = 2
      BY <1>2, <3>1
    <3> QED
      BY <1>3, <3>2, EmptySeq
  <2>3. Remaining(buf)' = Remaining(b)
    BY <1>7 DEF Remaining
  <2> QED
    <3>1. /\ buf' \in Seq(Byte) /\ Len(buf') = 3 /\ buf' # <<>>
          /\ dataLen' = Remaining(b) /\ start' = start /\ pc' = "read"
      BY <1>1, <1>2, <1>7
    <3>2. /\ dataLen' \in Nat /\ dataLen' > 0 /\ Remaining(buf)' <= MaxLen
          /\ Len(buf') <= 3 + MaxLen
          /\ Len(buf') + dataLen' = 3 + Remaining(buf)'
      BY <1>3, <2>1, <2>3, <3>1
    <3>3. ParserInv'
      BY <2>2, <3>1, <3>2 DEF ParserInv
    <3> QED
      BY <1>3, <3>1, <3>2, <3>3
<1>8. ASSUME Len(b) > 3, dataLen' = dataLen - 1, buf' = b,
             start' = (dataLen' > 0),
             pc' = IF dataLen' = 0 THEN "parse" ELSE "read"
      PROVE  Kept
  <2>1. Len(buf) >= 3
    BY <1>2, <1>8
  <2>2. Remaining(b) = Remaining(buf)
    BY <1>1, <1>3, <2>1, RemainingStable DEF b
  <2>3. Remaining(buf) \in Nat
    BY <1>3, <2>1, RemainingType
  <2>4. Remaining(buf)' = Remaining(b)
    BY <1>8 DEF Remaining
  <2> QED
    <3>1. /\ buf' \in Seq(Byte) /\ Len(buf') = Len(b) /\ buf' # <<>>
          /\ dataLen' = dataLen - 1
      BY <1>2, <1>8
    <3>2. pc' = IF dataLen' = 0 THEN "parse" ELSE "read"
      BY <1>8
    <3>3. start' = (dataLen' > 0) /\ start' \in BOOLEAN
      BY <1>8
    <3>4. /\ dataLen' \in Nat /\ Remaining(buf)' <= MaxLen
          /\ Len(buf') <= 3 + MaxLen
          /\ Len(buf') + dataLen' = 3 + Remaining(buf)'
      BY <1>2, <1>3, <2>1, <2>2, <2>3, <2>4, <3>1
    <3>5. CASE dataLen' = 0
      <4>1. pc' = "parse" /\ ~start'
        <5>1. ~(dataLen' > 0) /\ pc' = "parse"
          BY <3>2, <3>5
        <5> QED
          BY <3>3, <5>1
      <4> QED
        BY <3>1, <3>3, <3>4, <4>1 DEF ParserInv
    <3>6. CASE dataLen' # 0
      <4>1. pc' = "read" /\ start' /\ dataLen' > 0
        <5>1. dataLen' > 0 /\ pc' = "read"
          BY <3>2, <3>4, <3>6
        <5> QED
          BY <3>3, <5>1
      <4> QED
        BY <3>1, <3>3, <3>4, <4>1 DEF ParserInv
    <3> QED
      BY <3>5, <3>6
<1>9. Kept
  BY <1>4, <1>5, <1>6, <1>7, <1>8 DEF GetByte, ch, b
<1> QED
  BY <1>1, <1>9
  DEF GetByte, RxInv, TypeOK, DriverInv, wire, driver, interrupt

\* uart_protocol_parse.
LEMMA RxParse ==
  ASSUME RxInv, ParseFrame
  PROVE  RxInv'
<1>1. outstanding' \in Seq(Frame)
  BY TailByte DEF RxInv, TypeOK, ParseFrame
<1>2. pc' = "read" /\ start' = FALSE /\ buf' = <<>> /\ dataLen' \in Nat
  BY DEF RxInv, TypeOK, ParserInv, ParseFrame
<1>3. /\ buf' \in Seq(Byte) /\ ParserInv' /\ Len(buf') <= 3 + MaxLen
      /\ pc' \in {"read", "parse"} /\ start' \in BOOLEAN
  BY <1>2, NothingKept
<1> QED
  BY <1>1, <1>2, <1>3
  DEF ParseFrame, RxInv, TypeOK, DriverInv, driver, interrupt

-----------------------------------------------------------------------------
LEMMA RxNext == RxInv /\ [Next]_vars => RxInv'
<1> SUFFICES ASSUME RxInv, [Next]_vars PROVE RxInv'
  OBVIOUS
<1>1. CASE HostSend \/ Damage
  BY <1>1, RxLine
<1>2. CASE ReceiveByte
  BY <1>2, RxReceive
<1>3. CASE Irq
  BY <1>3, RxIrq
<1>4. CASE Parse
  BY <1>4, RxGet, RxParse DEF Parse
<1>5. CASE UNCHANGED vars
  BY <1>5 DEF vars, wire, driver, interrupt, parser, RxInv, TypeOK, DriverInv,
              ParserInv, Remaining
<1> QED
  BY <1>1, <1>2, <1>3, <1>4, <1>5 DEF Next

\* Every reachable state of the receive path is well typed: the DMA never
\* passes the end of rxbuf and the ring positions stay inside UartRecvBuf.
THEOREM TypeCorrect == Spec => []TypeOK
<1>1. RxInv => TypeOK
  BY DEF RxInv
<1> QED
  BY <1>1, RxInit, RxNext, PTL DEF Spec

\* uart_get_data stays inside uart_recv_buf for every byte stream, damaged
\* or overwritten as it may be: a length it accepts bounds what it keeps.
THEOREM ParserStaysInFrame == Spec => []FitsBuffer
<1>1. RxInv => FitsBuffer
  BY DEF RxInv, ParserInv, FitsBuffer
<1> QED
  BY <1>1, RxInit, RxNext, PTL DEF Spec

-----------------------------------------------------------------------------
(* The bytes under way.  From here on the host paces itself: what it sends *)
(* ahead fits the DMA transfer.                                            *)

\* A frame is no longer than uart_recv_buf has room for, and the frames sent
\* ahead are fewer bytes than a transfer.
Paced ==
  /\ Window * (3 + MaxLen) < DmaSize
  /\ \A f \in Frame : Len(f) <= 3 + MaxLen

\* The frames are the ones procotol_check accepts.
WellFormed ==
  \A f \in Frame :
    /\ Len(f) > 3 /\ f[1] = Header /\ Len(f) = 3 + Remaining(f)
    /\ ~TooLong(Remaining(f)) /\ Valid(f)

Avail == Filled(RingSize, pIn, pOut)

\* Damage only makes the bytes fewer than those of the frames not parsed, so
\* the DMA never fills its transfer.
CountInv ==
  /\ Len(outstanding) <= Window
  /\ Len(buf) + Avail + Len(InDma) + Len(line) <= Len(FlattenSeq(outstanding))
  /\ irq = "rearm" => received <= Avail
  /\ armed

\* A frame handed to uart_protocol_parse has the length it announces.
ParsedInv == pc = "parse" => Len(buf) > 3 /\ Len(buf) = 3 + Remaining(buf)

\* The bytes under way, in order.
Stream == buf \o (Unread \o (InDma \o line))

\* While nothing was damaged they are the frames not parsed yet, and on an
\* idle line the interrupt copies all the DMA has written.
StreamInv ==
  noise = 0 => /\ Stream = FlattenSeq(outstanding)
               /\ irq # "off" => received = Len(dma)

-----------------------------------------------------------------------------
(* The ring.                                                               *)

LEMMA UnreadType ==
  ASSUME TypeOK
  PROVE  /\ Avail \in 0 .. RingSize - 1
         /\ Unread \in Seq(Byte) /\ Len(Unread) = Avail
<1>1. RingSize \in Nat \ {0}
  BY RxAssumption
<1>2. /\ pIn \in 0 .. RingSize - 1 /\ pOut \in 0 .. RingSize - 1
      /\ ring \in [0 .. RingSize - 1 -> Byte]
  BY DEF TypeOK
<1>3. /\ Avail = Filled(RingSize, pIn, pOut)
      /\ Unread = Between(ring, RingSize, pIn, pOut)
  BY DEF Avail, Unread, Between, Filled, Spot
<1>4. Filled(RingSize, pIn, pOut) \in 0 .. RingSize - 1
  BY <1>1, <1>2, Distance
<1>5. /\ Between(ring, RingSize, pIn, pOut) \in Seq(Byte)
      /\ Len(Between(ring, RingSize, pIn, pOut)) =
           Filled(RingSize, pIn, pOut)
  <2>1. IsRing(ring, RingSize, Byte, pIn, pOut)
    BY <1>1, <1>2 DEF IsRing
  <2> QED
    BY <2>1, RingBytes
<1> QED
  BY <1>3, <1>4, <1>5, Zenon

\* app_uart_get takes the first of the unread bytes.
LEMMA UnreadTake ==
  ASSUME TypeOK, GetByte
  PROVE  /\ Avail > 0 /\ Avail' = Avail - 1
         /\ Unread # <<>> /\ Head(Unread) = ring[pOut]
         /\ Unread' = Tail(Unread)
<1>1. /\ RingSize \in Nat \ {0} /\ pIn \in 0 .. RingSize - 1
      /\ pOut \in 0 .. RingSize - 1 /\ pIn # pOut
      /\ ring \in [0 .. RingSize - 1 -> Byte]
      /\ pIn' = pIn /\ ring' = ring /\ pOut' = NextSpot(RingSize, pOut)
  BY RxAssumption DEF TypeOK, GetByte, NextOut, NextSpot
<1> DEFINE p == NextSpot(RingSize, pOut)
<1>2. /\ Avail = Filled(RingSize, pIn, pOut)
      /\ Avail' = Filled(RingSize, pIn, p)
      /\ Unread = Between(ring, RingSize, pIn, pOut)
      /\ Unread' = Between(ring, RingSize, pIn, p)
  BY <1>1 DEF Avail, Unread, Between, Filled, Spot
<1>3. IsRing(ring, RingSize, Byte, pIn, pOut)
  BY <1>1 DEF IsRing
<1>4. /\ Filled(RingSize, pIn, pOut) > 0
      /\ Filled(RingSize, pIn, p) = Filled(RingSize, pIn, pOut) - 1
      /\ Between(ring, RingSize, pIn, pOut) # <<>>
      /\ Head(Between(ring, RingSize, pIn, pOut)) = ring[pOut]
      /\ Between(ring, RingSize, pIn, p) =
           Tail(Between(ring, RingSize, pIn, pOut))
  BY <1>1, <1>3, RingTake
<1> HIDE DEF p
<1> QED
  BY <1>2, <1>4, Zenon

\* uart_recv appends to the unread bytes as long as the ring has room.
LEMMA UnreadGrow ==
  ASSUME RxInv, IrqCopy, Avail + received < RingSize
  PROVE  /\ Avail' = Avail + received
         /\ Unread' = Unread \o SubSeq(dma, 1, received)
<1> DEFINE d == SubSeq(dma, 1, received)
<1>1. /\ RingSize \in Nat \ {0} /\ pIn \in 0 .. RingSize - 1
      /\ pOut \in 0 .. RingSize - 1 /\ pOut' = pOut
      /\ ring \in [0 .. RingSize - 1 -> Byte]
  BY RxAssumption DEF RxInv, TypeOK, IrqCopy
<1>2. dma \in Seq(Byte) /\ received \in 0 .. Len(dma)
  <2>1. received <= Len(dma) /\ Len(dma) \in Nat /\ received \in Nat
    BY LenProperties, RxAssumption DEF RxInv, TypeOK, DriverInv, IrqCopy
  <2> QED
    BY <2>1 DEF RxInv, TypeOK
<1>3. /\ d \in Seq(Byte) /\ Len(d) = received
      /\ \A k \in 1 .. received : d[k] = dma[k]
  BY <1>2, PrefixType
<1>4. pIn' = Moved(RingSize, pIn, Len(d))
  BY <1>3 DEF IrqCopy, Moved
<1> HIDE DEF d
<1>5. ASSUME NEW j \in 0 .. RingSize - 1
      PROVE  (IF Filled(RingSize, j, pIn) + 1 <= received
              THEN dma[Filled(RingSize, j, pIn) + 1] ELSE ring[j]) =
             (IF Filled(RingSize, j, pIn) + 1 <= Len(d)
              THEN d[Filled(RingSize, j, pIn) + 1] ELSE ring[j])
  <2>1. Filled(RingSize, j, pIn) \in 0 .. RingSize - 1
    BY <1>1, Distance
  <2> QED
    BY <1>2, <1>3, <2>1
<1>6. ring' = RingWith(ring, RingSize, pIn, d)
  <2>1. ring' = [j \in 0 .. RingSize - 1 |->
                   IF Filled(RingSize, j, pIn) + 1 <= received
                   THEN dma[Filled(RingSize, j, pIn) + 1] ELSE ring[j]]
    BY <1>1 DEF IrqCopy, Filled
  <2> QED
    BY <1>5, <2>1 DEF RingWith
<1>7. /\ Avail = Filled(RingSize, pIn, pOut)
      /\ Avail' = Filled(RingSize, pIn', pOut)
      /\ Unread = Between(ring, RingSize, pIn, pOut)
      /\ Unread' = Between(ring', RingSize, pIn', pOut)
  BY <1>1 DEF Avail, Unread, Between, Filled, Spot
<1>8. Filled(RingSize, pIn, pOut) + Len(d) < RingSize
  BY <1>3, <1>7
<1>9. /\ Filled(RingSize, pIn', pOut) = Filled(RingSize, pIn, pOut) + Len(d)
      /\ Between(ring', RingSize, pIn', pOut) =
           Between(ring, RingSize, pIn, pOut) \o d
  <2>1. IsRing(ring, RingSize, Byte, pIn, pOut)
    BY <1>1 DEF IsRing
  <2>2. d \in Seq(Byte)
    BY <1>3
  <2>3. HasRoom(RingSize, pIn, pOut, d)
    BY ONLY <1>8 DEF HasRoom
  <2> HIDE DEF d
  <2>4. Put(ring, RingSize, Byte, pIn, pOut, d)
    BY ONLY <2>1, <2>2, <2>3, RingPut
  <2> QED
    BY ONLY <1>4, <1>6, <2>4 DEF Put
<1> QED
  BY <1>3, <1>7, <1>9 DEF d

-----------------------------------------------------------------------------
(* Counting the bytes under way.                                           *)

\* What a step leaves alone.
LEMMA StreamKept ==
  ASSUME UNCHANGED <<outstanding, dma, irq, received, ring, pIn, pOut>>
  PROVE  UNCHANGED <<FlattenSeq(outstanding), InDma, Avail, Unread>>
BY DEF InDma, Avail, Unread

LEMMA OutstandingType ==
  ASSUME TypeOK
  PROVE  /\ outstanding \in Seq(Seq(Byte)) /\ Len(outstanding) \in Nat
         /\ FlattenSeq(outstanding) \in Seq(Byte)
         /\ Len(FlattenSeq(outstanding)) \in Nat
<1>1. outstanding \in Seq(Frame) /\ Frame \subseteq Seq(Byte)
  BY RxAssumption DEF TypeOK, Byte
<1>2. outstanding \in Seq(Seq(Byte))
  BY <1>1, SeqMonotonic
<1>3. FlattenSeq(outstanding) \in Seq(Byte)
  BY <1>2, FlattenType
<1> QED
  BY <1>2, <1>3, LenProperties

\* The frames sent ahead are fewer bytes than a transfer and than the ring.
LEMMA FramesFit ==
  ASSUME TypeOK, Paced, Len(outstanding) <= Window
  PROVE  /\ Len(FlattenSeq(outstanding)) < DmaSize
         /\ Len(FlattenSeq(outstanding)) < RingSize
<1> DEFINE K == 3 + MaxLen
           n == Len(outstanding)
           x == Len(FlattenSeq(outstanding))
<1>1. /\ outstanding \in Seq(Seq(Byte)) /\ n \in Nat /\ x \in Nat
      /\ outstanding \in Seq(Frame)
  BY OutstandingType DEF TypeOK
<1>2. \A i \in 1 .. Len(outstanding) : Len(outstanding[i]) <= K
  <2>1. ASSUME NEW i \in 1 .. Len(outstanding)
        PROVE  Len(outstanding[i]) <= K
    <3>1. outstanding[i] \in Frame
      BY <1>1, ElementOfSeq
    <3> QED
      BY <3>1 DEF Paced
  <2> QED
    BY <2>1
<1>3. K \in Nat /\ Window \in Nat
  BY RxAssumption
<1>4. Window * K < DmaSize
  BY DEF Paced
<1> HIDE DEF K
<1>5. x <= n * K
  BY <1>1, <1>2, <1>3, FlattenLen
<1>6. n <= Window
  OBVIOUS
<1> HIDE DEF n, x
<1>7. n * K <= Window * K /\ n * K \in Nat /\ Window * K \in Nat
  <2>1. Window - n \in Nat /\ (Window - n) * K \in Nat
    BY <1>1, <1>3, <1>6
  <2>2. n * K + (Window - n) * K = Window * K
    BY <1>1, <1>3
  <2>3. n * K \in Nat /\ Window * K \in Nat
    BY <1>1, <1>3
  <2> DEFINE p == n * K
             q == (Window - n) * K
             w == Window * K
  <2>4. p + q = w /\ p \in Nat /\ q \in Nat /\ w \in Nat
    BY <2>1, <2>2, <2>3
  <2> HIDE DEF p, q, w
  <2>5. p <= w
    BY ONLY <2>4
  <2> QED
    BY <2>3, <2>5 DEF p, w
<1>8. x < DmaSize
  <2> DEFINE p == n * K
             w == Window * K
  <2>1. x <= p /\ p <= w /\ w < DmaSize /\ p \in Nat /\ w \in Nat
    BY <1>4, <1>5, <1>7
  <2> HIDE DEF p, w
  <2> QED
    BY <1>1, <2>1, RxAssumption
<1>9. x < RingSize
  BY <1>1, <1>8, RxAssumption
<1> QED
  BY <1>8, <1>9 DEF x

\* The sizes CountInv adds up.
LEMMA Sizes ==
  ASSUME RxInv
  PROVE  /\ Len(buf) \in Nat /\ Avail \in Nat /\ Len(line) \in Nat
         /\ InDma \in Seq(Byte) /\ Len(InDma) \in Nat
         /\ Len(dma) \in Nat /\ received \in Nat
         /\ irq # "off" => received <= Len(dma)
         /\ Len(InDma) = IF irq = "rearm" THEN Len(dma) - received
                                          ELSE Len(dma)
<1>1. /\ Len(buf) \in Nat /\ Len(line) \in Nat /\ Len(dma) \in Nat
      /\ received \in Nat /\ (irq # "off" => received <= Len(dma))
      /\ dma \in Seq(Byte)
  BY LenProperties, RxAssumption DEF RxInv, TypeOK, DriverInv
<1>2. Avail \in Nat
  BY UnreadType, RxAssumption DEF RxInv
<1>3. CASE irq = "rearm"
  <2>1. received \in 0 .. Len(dma)
    BY <1>1, <1>3
  <2>2. /\ SubSeq(dma, received + 1, Len(dma)) \in Seq(Byte)
        /\ Len(SubSeq(dma, received + 1, Len(dma))) = Len(dma) - received
    BY <1>1, <2>1, SuffixType
  <2>3. InDma = SubSeq(dma, received + 1, Len(dma))
    BY <1>3 DEF InDma
  <2>4. Len(dma) - received \in Nat
    BY <1>1, <2>1
  <2> QED
    BY <1>1, <1>2, <1>3, <2>2, <2>3, <2>4
<1>4. CASE irq # "rearm"
  BY <1>1, <1>2, <1>4 DEF InDma
<1> QED
  BY <1>3, <1>4

LEMMA CountInit == ASSUME Init PROVE CountInv /\ ParsedInv /\ StreamInv
<1>1. /\ outstanding = <<>> /\ buf = <<>> /\ dma = <<>> /\ line = <<>>
      /\ irq = "off" /\ armed /\ pIn = 0 /\ pOut = 0 /\ pc = "read"
  BY DEF Init
<1>2. Len(<<>>) = 0 /\ InDma = <<>> /\ FlattenSeq(outstanding) = <<>>
  BY <1>1, FlattenEmpty DEF InDma
<1>3. Avail = 0
  <2>1. RingSize \in Nat \ {0} /\ 0 \in 0 .. RingSize - 1
    BY RxAssumption
  <2>2. Filled(RingSize, 0, 0) = 0
    BY <2>1, Distance
  <2> QED
    BY <1>1, <2>2 DEF Avail
<1>4. Unread = <<>>
  <2>1. TypeOK
    BY RxInit DEF RxInv
  <2>2. Unread \in Seq(Byte) /\ Len(Unread) = 0
    BY <1>3, <2>1, UnreadType
  <2> QED
    BY <2>2, EmptySeq
<1>5. Stream = <<>>
  <2>1. <<>> \in Seq(Byte)
    BY EmptySeq
  <2>2. <<>> \o <<>> = <<>>
    BY <2>1, ConcatEmptySeq
  <2> QED
    BY <1>1, <1>2, <1>4, <2>2 DEF Stream
<1> QED
  BY <1>1, <1>2, <1>3, <1>5, RxAssumption DEF CountInv, ParsedInv, StreamInv

LEMMA CountSend ==
  ASSUME RxInv, CountInv, HostSend
  PROVE  CountInv'
<1>1. PICK f \in Frame :
        line' = line \o f /\ outstanding' = Append(outstanding, f)
  BY DEF HostSend
<1>2. f \in Seq(Byte) /\ f \in Frame
  BY RxAssumption DEF Byte
<1>3. Len(outstanding') = Len(outstanding) + 1 /\ Len(outstanding) < Window
      /\ Len(outstanding) \in Nat
  <2>1. outstanding \in Seq(Frame)
    BY DEF RxInv, TypeOK
  <2> QED
    BY <1>1, <1>2, <2>1, AppendProperties, LenProperties DEF HostSend
<1>4. FlattenSeq(outstanding') = FlattenSeq(outstanding) \o f
  BY <1>1, <1>2, OutstandingType, FlattenAppend DEF RxInv
<1>5. /\ Len(FlattenSeq(outstanding')) = Len(FlattenSeq(outstanding)) + Len(f)
      /\ Len(FlattenSeq(outstanding)) \in Nat /\ Len(f) \in Nat
  BY <1>2, <1>4, OutstandingType, ConcatProperties, LenProperties DEF RxInv
<1>6. Len(line') = Len(line) + Len(f)
  BY <1>1, <1>2, ConcatProperties DEF RxInv, TypeOK
<1>7. /\ UNCHANGED <<buf, irq, received, armed, InDma, Avail>>
  BY DEF HostSend, driver, interrupt, parser, InDma, Avail
<1>8. Len(outstanding)' <= Window
  BY <1>3, RxAssumption
<1>9. Len(buf)' + Avail' + Len(InDma)' + Len(line)' <=
        Len(FlattenSeq(outstanding))'
  BY <1>5, <1>6, <1>7, Sizes DEF CountInv
<1> QED
  BY <1>7, <1>8, <1>9 DEF CountInv

LEMMA CountDamage ==
  ASSUME RxInv, CountInv, Damage
  PROVE  CountInv'
<1>1. Len(line') <= Len(line) /\ Len(line') \in Nat
  <2>1. line \in Seq(Byte) /\ line # <<>>
    BY DEF RxInv, TypeOK, Damage
  <2>2. CASE line' = Tail(line)
    BY <2>1, <2>2, HeadTailProperties, LenProperties
  <2>3. ASSUME NEW b \in Byte, line' = [line EXCEPT ![1] = b]
        PROVE  Len(line') <= Len(line) /\ Len(line') \in Nat
    <3>1. 1 \in 1 .. Len(line) /\ Len(line) \in Nat
      BY <2>1, EmptySeq, LenProperties
    <3>2. Len(line') = Len(line)
      BY <2>1, <2>3, <3>1, ExceptSeq
    <3> QED
      BY <3>1, <3>2
  <2> QED
    BY <2>2, <2>3 DEF Damage
<1>2. UNCHANGED <<buf, irq, received, armed, outstanding, InDma, Avail>>
  BY DEF Damage, driver, interrupt, parser, InDma, Avail
<1>3. Len(FlattenSeq(outstanding)) \in Nat
  BY OutstandingType DEF RxInv
<1> QED
  BY <1>1, <1>2, <1>3, Sizes DEF CountInv

LEMMA CountReceive ==
  ASSUME RxInv, RxInv', CountInv, Paced, ReceiveByte
  PROVE  CountInv'
<1>1. armed
  BY DEF CountInv
<1>2. /\ line # <<>> /\ line' = Tail(line) /\ dma' = Append(dma, Head(line))
      /\ armed' = (Len(dma) + 1 < DmaSize)
      /\ UNCHANGED <<outstanding, irq, received, ring, pIn, pOut, buf>>
  BY <1>1 DEF ReceiveByte, interrupt, parser
<1>3. /\ Len(line) = Len(line') + 1 /\ Len(line') \in Nat
      /\ Len(dma') = Len(dma) + 1
  <2>1. line \in Seq(Byte) /\ dma \in Seq(Byte)
    BY DEF RxInv, TypeOK
  <2>2. /\ Head(line) \in Byte /\ Len(line') = Len(line) - 1
        /\ Tail(line) \in Seq(Byte)
    BY <1>2, <2>1, HeadTailProperties
  <2>3. Len(line) \in Nat /\ Len(line') \in Nat
    BY <1>2, <2>1, <2>2, LenProperties
  <2>4. Len(dma') = Len(dma) + 1
    BY <1>2, <2>1, <2>2, AppendProperties
  <2> QED
    BY <2>2, <2>3, <2>4
<1>4. /\ Avail' = Avail
      /\ FlattenSeq(outstanding)' = FlattenSeq(outstanding)
  BY <1>2 DEF Avail
<1>5. Len(InDma)' = Len(InDma) + 1
  <2>1. CASE irq = "rearm"
    <3>3. /\ Len(dma) \in Nat /\ received \in Nat /\ received <= Len(dma)
          /\ Len(dma') = Len(dma) + 1
      BY <1>3, <2>1, Sizes
    <3>4. dma' \in Seq(Byte)
      BY DEF RxInv, TypeOK
    <3>1. /\ dma' \in Seq(Byte) /\ received \in 0 .. Len(dma')
          /\ Len(dma) \in Nat /\ received \in Nat
      BY ONLY <3>3, <3>4
    <3>2. Len(SubSeq(dma', received + 1, Len(dma'))) = Len(dma') - received
      BY <3>1, SuffixType
    <3>5. Len(InDma') = Len(dma') - received
      BY <1>2, <2>1, <3>2 DEF InDma
    <3>6. Len(InDma) = Len(dma) - received
      BY <2>1, Sizes
    <3> QED
      BY <3>3, <3>5, <3>6
  <2>2. CASE irq # "rearm"
    BY <1>2, <1>3, <2>2 DEF InDma
  <2> QED
    BY <2>1, <2>2
<1>6. Len(buf)' + Avail' + Len(InDma)' + Len(line)' <=
        Len(FlattenSeq(outstanding))'
  <2>1. Len(buf)' = Len(buf) /\ Len(FlattenSeq(outstanding)) \in Nat
    BY <1>2, OutstandingType DEF RxInv
  <2> QED
    BY <1>3, <1>4, <1>5, <2>1, Sizes DEF CountInv
<1>7. armed'
  <2>1. Len(dma) + 1 <= Len(FlattenSeq(outstanding))
    <3>1. Len(FlattenSeq(outstanding)) \in Nat
      BY OutstandingType DEF RxInv
    <3> QED
      BY <1>3, <3>1, Sizes DEF CountInv
  <2>2. Len(FlattenSeq(outstanding)) < DmaSize
    BY FramesFit DEF RxInv, CountInv
  <2>3. Len(FlattenSeq(outstanding)) \in Nat /\ Len(dma) \in Nat
    BY OutstandingType, Sizes DEF RxInv
  <2>4. Len(dma) + 1 < DmaSize
    BY <2>1, <2>2, <2>3, RxAssumption
  <2> QED
    BY <1>2, <2>4
<1> QED
  BY <1>2, <1>4, <1>6, <1>7 DEF CountInv

\* Between copy and restart the interrupt holds no byte twice.
LEMMA CountIrq ==
  ASSUME RxInv, RxInv', CountInv, Paced, Irq
  PROVE  CountInv'
<1>1. CASE IrqEnter
  <2>1. UNCHANGED <<buf, line, outstanding, armed, dma, Avail>>
    BY <1>1 DEF IrqEnter, wire, parser, Avail
  <2>2. irq' # "rearm" /\ irq # "rearm"
    BY <1>1 DEF IrqEnter
  <2>3. InDma' = InDma
    BY <2>1, <2>2 DEF InDma
  <2> QED
    BY <2>1, <2>2, <2>3 DEF CountInv
<1>2. CASE IrqCopy
  <2>1. /\ UNCHANGED <<buf, line, outstanding, armed, dma, received>>
        /\ irq = "copy" /\ irq' = "rearm"
    BY <1>2 DEF IrqCopy, wire, parser, driver
  <2>2. /\ Len(InDma) = Len(dma) /\ received <= Len(dma)
        /\ Len(FlattenSeq(outstanding)) \in Nat
    BY <2>1, Sizes, OutstandingType DEF RxInv
  <2>3. Len(InDma)' = Len(dma) - received
    <3>1. received \in 0 .. Len(dma) /\ dma \in Seq(Byte)
      BY <2>2, Sizes DEF RxInv, TypeOK
    <3>2. Len(SubSeq(dma, received + 1, Len(dma))) = Len(dma) - received
      BY <3>1, SuffixType
    <3> QED
      BY <2>1, <3>2 DEF InDma
  <2>4. Avail + received < RingSize
    <3>1. Len(FlattenSeq(outstanding)) < RingSize
      BY FramesFit DEF RxInv, CountInv
    <3>2. Avail + received <= Len(FlattenSeq(outstanding))
      <4> DEFINE b == Len(buf)
                 l == Len(line)
                 d == Len(dma)
                 t == Len(FlattenSeq(outstanding))
      <4>1. /\ b \in Nat /\ Avail \in Nat /\ d \in Nat /\ l \in Nat
            /\ t \in Nat /\ received \in Nat /\ received <= d
        BY <2>2, Sizes
      <4>2. b + Avail + d + l <= t
        BY <2>2 DEF CountInv
      <4> HIDE DEF b, l, d, t
      <4>3. Avail + received <= t
        BY ONLY <4>1, <4>2
      <4> QED
        BY <4>3 DEF t
    <3> QED
      BY <2>2, <3>1, <3>2, Sizes, RxAssumption
  <2>5. Avail' = Avail + received
    BY <1>2, <2>4, UnreadGrow
  <2>6. /\ FlattenSeq(outstanding)' = FlattenSeq(outstanding)
        /\ Len(buf)' = Len(buf) /\ Len(line)' = Len(line)
        /\ Len(outstanding)' = Len(outstanding)
    BY <2>1
  <2>7. Len(buf)' + Avail' + Len(InDma)' + Len(line)' <=
          Len(FlattenSeq(outstanding))'
    <3> DEFINE b == Len(buf)
               l == Len(line)
               d == Len(dma)
               t == Len(FlattenSeq(outstanding))
    <3>1. /\ b \in Nat /\ Avail \in Nat /\ d \in Nat /\ l \in Nat
          /\ t \in Nat /\ received \in Nat
      BY <2>2, Sizes
    <3>2. b + Avail + d + l <= t
      BY <2>2 DEF CountInv
    <3>3. Len(buf)' = b /\ Len(line)' = l /\ t' = t
      BY <2>6
    <3>4. Len(InDma)' = d - received
      BY <2>3
    <3> HIDE DEF b, l, d, t
    <3>5. b + (Avail + received) + (d - received) + l <= t
      BY <3>1, <3>2
    <3> QED
      BY <2>5, <3>3, <3>4, <3>5 DEF t
  <2>8. received' <= Avail'
    BY <2>1, <2>5, Sizes
  <2> QED
    BY <2>1, <2>6, <2>7, <2>8 DEF CountInv
<1>3. CASE IrqRearm
  <2>1. /\ UNCHANGED <<buf, line, outstanding, Avail>>
        /\ armed' /\ dma' = <<>> /\ irq' = "off"
    BY <1>3 DEF IrqRearm, wire, parser, Avail
  <2>2. Len(InDma)' = 0 /\ Len(FlattenSeq(outstanding)) \in Nat
    BY <2>1, OutstandingType, EmptySeq DEF InDma, RxInv
  <2>3. /\ FlattenSeq(outstanding)' = FlattenSeq(outstanding)
        /\ Len(buf)' = Len(buf) /\ Len(line)' = Len(line)
        /\ Len(outstanding)' = Len(outstanding)
    BY <2>1
  <2>4. Len(buf)' + Avail' + Len(InDma)' + Len(line)' <=
          Len(FlattenSeq(outstanding))'
    <3> DEFINE b == Len(buf)
               l == Len(line)
               d == Len(InDma)
               t == Len(FlattenSeq(outstanding))
    <3>1. /\ b \in Nat /\ Avail \in Nat /\ d \in Nat /\ l \in Nat
          /\ t \in Nat
      BY <2>2, Sizes
    <3>2. b + Avail + d + l <= t
      BY DEF CountInv
    <3>3. /\ Len(buf)' = b /\ Len(line)' = l /\ t' = t /\ Avail' = Avail
          /\ Len(InDma)' = 0
      BY <2>1, <2>2, <2>3
    <3> HIDE DEF b, l, d, t
    <3>4. b + Avail + 0 + l <= t
      BY ONLY <3>1, <3>2
    <3> QED
      BY <3>3, <3>4 DEF t
  <2> QED
    BY <2>1, <2>3, <2>4 DEF CountInv
<1> QED
  BY <1>1, <1>2, <1>3 DEF Irq

\* A byte the parser takes is kept or dropped.
LEMMA CountGet ==
  ASSUME RxInv, RxInv', CountInv, GetByte
  PROVE  CountInv'
<1>1. UNCHANGED <<line, outstanding, armed, dma, irq, received, InDma>>
  BY DEF GetByte, wire, driver, interrupt, InDma
<1>2. Avail > 0 /\ Avail' = Avail - 1 /\ irq = "off"
  BY UnreadTake DEF RxInv, GetByte
<1>3. Len(buf') <= Len(buf) + 1 /\ Len(buf') \in Nat
  <2>1. ring[pOut] \in Byte /\ buf \in Seq(Byte)
    BY DEF RxInv, TypeOK
  <2>2. /\ Len(Append(buf, ring[pOut])) = Len(buf) + 1 /\ Len(buf) \in Nat
        /\ Len(<<>>) = 0
    BY <2>1, AppendProperties, LenProperties, EmptySeq
  <2>3. buf' \in {buf, <<>>, Append(buf, ring[pOut])}
    BY DEF GetByte, Restart, parser
  <2> QED
    BY <2>2, <2>3
<1>4. /\ FlattenSeq(outstanding)' = FlattenSeq(outstanding)
      /\ Len(outstanding)' = Len(outstanding)
      /\ Len(line)' = Len(line) /\ Len(InDma)' = Len(InDma)
  BY <1>1
<1>5. Len(FlattenSeq(outstanding)) \in Nat
  BY OutstandingType DEF RxInv
<1>6. Len(buf)' + Avail' + Len(InDma)' + Len(line)' <=
        Len(FlattenSeq(outstanding))'
  <2> DEFINE b == Len(buf)
             l == Len(line)
             d == Len(InDma)
             t == Len(FlattenSeq(outstanding))
             c == Len(buf')
  <2>1. /\ b \in Nat /\ Avail \in Nat /\ d \in Nat /\ l \in Nat
        /\ t \in Nat /\ c \in Nat /\ c <= b + 1
    BY <1>3, <1>5, Sizes
  <2>2. b + Avail + d + l <= t
    BY DEF CountInv
  <2>3. Len(InDma)' = d /\ Len(line)' = l /\ t' = t /\ Len(buf)' = c
    BY <1>4
  <2> HIDE DEF b, l, d, t, c
  <2>4. c + (Avail - 1) + d + l <= t
    BY <2>1, <2>2
  <2> QED
    BY <1>2, <2>3, <2>4 DEF t
<1> QED
  BY <1>1, <1>2, <1>4, <1>6 DEF CountInv

\* The frame that is parsed took its own bytes along.
LEMMA CountParse ==
  ASSUME RxInv, CountInv, ParseFrame
  PROVE  CountInv'
<1>1. UNCHANGED <<line, armed, irq, received, InDma, Avail>>
  BY DEF ParseFrame, driver, interrupt, InDma, Avail
<1>2. Len(buf') = 0
  BY EmptySeq DEF ParseFrame
<1>3. Len(FlattenSeq(outstanding)) \in Nat
  BY OutstandingType DEF RxInv
<1>4. CASE outstanding' = outstanding
  <2>1. Len(buf)' + Avail' + Len(InDma)' + Len(line)' <=
          Len(FlattenSeq(outstanding))'
    BY <1>1, <1>2, <1>3, <1>4, Sizes DEF CountInv
  <2> QED
    BY <1>1, <1>4, <2>1 DEF CountInv
<1>5. CASE outstanding' # outstanding
  <2>1. /\ outstanding # <<>> /\ buf = Head(outstanding)
        /\ outstanding' = Tail(outstanding)
    BY <1>5 DEF ParseFrame
  <2>2. /\ outstanding \in Seq(Seq(Byte)) /\ Len(outstanding) \in Nat
    BY OutstandingType DEF RxInv
  <2>3. FlattenSeq(outstanding) = buf \o FlattenSeq(outstanding')
    BY <2>1, <2>2, FlattenHead
  <2>4. /\ outstanding' \in Seq(Seq(Byte))
        /\ Len(outstanding') = Len(outstanding) - 1
    BY <2>1, <2>2, HeadTailProperties
  <2>5. FlattenSeq(outstanding') \in Seq(Byte)
    BY <2>4, FlattenType
  <2>6. /\ Len(FlattenSeq(outstanding)) =
             Len(buf) + Len(FlattenSeq(outstanding'))
        /\ Len(FlattenSeq(outstanding')) \in Nat
    BY <2>3, <2>5, ConcatProperties, LenProperties DEF RxInv, TypeOK
  <2>7. Len(buf)' + Avail' + Len(InDma)' + Len(line)' <=
          Len(FlattenSeq(outstanding))'
    BY <1>1, <1>2, <1>3, <2>6, Sizes DEF CountInv
  <2>8. Len(outstanding)' <= Window
    BY <2>2, <2>4, RxAssumption DEF CountInv
  <2> QED
    BY <1>1, <2>7, <2>8 DEF CountInv
<1> QED
  BY <1>4, <1>5

LEMMA CountNext ==
  ASSUME Paced
  PROVE  RxInv /\ CountInv /\ [Next]_vars => CountInv'
<1> SUFFICES ASSUME RxInv, CountInv, [Next]_vars PROVE CountInv'
  OBVIOUS
<1>1. RxInv'
  BY RxNext
<1>2. CASE HostSend \/ Damage
  BY <1>2, CountSend, CountDamage
<1>3. CASE ReceiveByte
  BY <1>1, <1>3, CountReceive
<1>4. CASE Irq
  BY <1>1, <1>4, CountIrq
<1>5. CASE Parse
  BY <1>1, <1>5, CountGet, CountParse DEF Parse
<1>6. CASE UNCHANGED vars
  BY <1>6 DEF vars, wire, driver, interrupt, parser, CountInv, InDma, Avail
<1> QED
  BY <1>2, <1>3, <1>4, <1>5, <1>6 DEF Next

LEMMA ParsedNext == RxInv /\ ParsedInv /\ [Next]_vars => ParsedInv'
<1> SUFFICES ASSUME RxInv, ParsedInv, [Next]_vars, pc' = "parse"
             PROVE  Len(buf') > 3 /\ Len(buf') = 3 + Remaining(buf')
  BY DEF ParsedInv
<1>1. CASE GetByte
  <2> DEFINE ch == ring[pOut]
             b == Append(buf, ch)
  <2>1. /\ ch \in Byte /\ b \in Seq(Byte) /\ Len(buf) \in Nat
        /\ Len(b) = Len(buf) + 1 /\ dataLen \in Nat /\ buf \in Seq(Byte)
        /\ pc = "read"
    BY <1>1, AppendByte DEF RxInv, TypeOK, GetByte
  <2> HIDE DEF ch
  <2>2. Len(b) > 3 /\ dataLen' = dataLen - 1 /\ buf' = b /\ dataLen' = 0
    <3> HIDE DEF b
    <3> QED
      BY <1>1, <2>1 DEF GetByte, Restart, parser, ch, b
  <2>3. Len(buf) >= 3
    BY <2>1, <2>2
  <2>4. Len(buf) + dataLen = 3 + Remaining(buf) /\ Remaining(buf) \in Nat
    BY <2>1, <2>3, RemainingType DEF RxInv, ParserInv
  <2>5. Remaining(b) = Remaining(buf)
    BY <2>1, <2>3, RemainingStable
  <2>6. Len(b) = 3 + Remaining(b)
    BY <2>1, <2>2, <2>4, <2>5
  <2> QED
    BY <2>2, <2>6
<1>2. CASE ~GetByte
  <2>1. UNCHANGED <<pc, buf>>
    BY <1>2 DEF Next, vars, HostSend, Damage, ReceiveByte, Irq, IrqEnter,
                IrqCopy, IrqRearm, Parse, ParseFrame, parser
  <2> QED
    BY <2>1 DEF ParsedInv
<1> QED
  BY <1>1, <1>2

-----------------------------------------------------------------------------
(* The order of the bytes under way.                                       *)

LEMMA StreamType ==
  ASSUME RxInv
  PROVE  /\ buf \in Seq(Byte) /\ Unread \in Seq(Byte) /\ InDma \in Seq(Byte)
         /\ line \in Seq(Byte) /\ InDma \o line \in Seq(Byte)
         /\ Unread \o (InDma \o line) \in Seq(Byte)
         /\ Stream \in Seq(Byte)
<1>1. /\ buf \in Seq(Byte) /\ Unread \in Seq(Byte) /\ InDma \in Seq(Byte)
      /\ line \in Seq(Byte)
  BY UnreadType, Sizes DEF RxInv, TypeOK
<1>2. \A x, y \in Seq(Byte) : x \o y \in Seq(Byte)
  BY ConcatProperties
<1> QED
  BY <1>1, <1>2 DEF Stream

LEMMA LosslessForm ==
  ASSUME RxInv
  PROVE  ((buf \o Unread) \o InDma) \o line = Stream
<1>1. /\ buf \in Seq(Byte) /\ Unread \in Seq(Byte) /\ InDma \in Seq(Byte)
      /\ line \in Seq(Byte) /\ InDma \o line \in Seq(Byte)
  BY StreamType
<1>2. buf \o Unread \in Seq(Byte)
  BY <1>1, ConcatProperties
<1> DEFINE b == buf \o Unread
           d == InDma \o line
<1>3. Joined(Joined(b, InDma), line) = Joined(b, Joined(InDma, line))
  <2>1. b \in Seq(Byte)
    BY ONLY <1>2
  <2> HIDE DEF b
  <2> QED
    BY ONLY <1>1, <2>1, Regroup
<1>4. Joined(Joined(buf, Unread), d) = Joined(buf, Joined(Unread, d))
  <2>1. d \in Seq(Byte)
    BY ONLY <1>1
  <2> HIDE DEF d
  <2> QED
    BY ONLY <1>1, <2>1, Regroup
<1> QED
  BY ONLY <1>3, <1>4 DEF Joined, Stream

\* What the host appends to the line it appends to the stream.
LEMMA LineGrows ==
  ASSUME RxInv, NEW f \in Seq(Byte)
  PROVE  Stream \o f = buf \o (Unread \o (InDma \o (line \o f)))
<1>1. /\ buf \in Seq(Byte) /\ Unread \in Seq(Byte) /\ InDma \in Seq(Byte)
      /\ line \in Seq(Byte)
  BY StreamType
<1>2. PICK x \in Seq(Byte) : x = InDma \o line
  BY StreamType
<1>3. PICK y \in Seq(Byte) : y = Unread \o x
  BY <1>2, StreamType
<1>4. Joined(Joined(InDma, line), f) = Joined(InDma, Joined(line, f))
  BY ONLY <1>1, f \in Seq(Byte), Regroup
<1>5. Joined(Joined(Unread, x), f) = Joined(Unread, Joined(x, f))
  BY ONLY <1>1, x \in Seq(Byte), f \in Seq(Byte), Regroup
<1>6. Joined(Joined(buf, y), f) = Joined(buf, Joined(y, f))
  BY ONLY <1>1, y \in Seq(Byte), f \in Seq(Byte), Regroup
<1>7. Stream = buf \o y
  BY ONLY <1>2, <1>3 DEF Stream
<1> QED
  BY ONLY <1>2, <1>3, <1>4, <1>5, <1>6, <1>7, Zenon DEF Joined

LEMMA StreamSend ==
  ASSUME RxInv, StreamInv, HostSend
  PROVE  StreamInv'
<1> SUFFICES ASSUME noise' = 0
             PROVE  /\ Stream' = FlattenSeq(outstanding')
                    /\ irq' # "off" => received' = Len(dma')
  BY DEF StreamInv
<1>1. PICK f \in Frame :
        line' = line \o f /\ outstanding' = Append(outstanding, f)
  BY DEF HostSend
<1>2. f \in Seq(Byte)
  BY RxAssumption DEF Byte
<1>3. /\ noise = 0
      /\ UNCHANGED <<buf, irq, received, dma, InDma, Unread>>
  BY DEF HostSend, driver, interrupt, parser, InDma, Unread
<1>4. FlattenSeq(outstanding') = FlattenSeq(outstanding) \o f
  BY <1>1, <1>2, OutstandingType, FlattenAppend DEF RxInv
<1>5. Stream' = buf \o (Unread \o (InDma \o (line \o f)))
  BY <1>1, <1>3 DEF Stream
<1>6. Stream' = Stream \o f
  BY <1>2, <1>5, LineGrows
<1> QED
  BY <1>3, <1>4, <1>6 DEF StreamInv

LEMMA StreamReceive ==
  ASSUME RxInv, CountInv, StreamInv, Gaps, ReceiveByte
  PROVE  StreamInv'
<1>1. /\ irq = "off" /\ line # <<>> /\ line' = Tail(line)
      /\ dma' = Append(dma, Head(line))
      /\ UNCHANGED <<outstanding, noise, irq, ring, pIn, pOut, buf>>
  BY DEF CountInv, ReceiveByte, interrupt, parser
<1>2. Unread' = Unread /\ InDma = dma /\ InDma' = dma'
  BY <1>1 DEF Unread, InDma
<1>3. dma' \o line' = dma \o line
  BY <1>1, Border DEF RxInv, TypeOK
<1>4. Stream' = Stream
  BY <1>1, <1>2, <1>3 DEF Stream
<1> QED
  BY <1>1, <1>4 DEF StreamInv

LEMMA StreamIrq ==
  ASSUME RxInv, RxInv', CountInv, StreamInv, Paced, Irq
  PROVE  StreamInv'
<1> SUFFICES ASSUME noise' = 0
             PROVE  /\ Stream' = FlattenSeq(outstanding')
                    /\ irq' # "off" => received' = Len(dma')
  BY DEF StreamInv
<1>1. /\ noise = 0 /\ UNCHANGED <<line, outstanding, buf>>
      /\ Stream = FlattenSeq(outstanding)
      /\ irq # "off" => received = Len(dma)
  BY DEF Irq, IrqEnter, IrqCopy, IrqRearm, wire, parser, StreamInv
<1>2. CASE IrqEnter
  <2>1. /\ UNCHANGED <<dma, Unread>> /\ received' = Len(dma)
        /\ irq # "rearm" /\ irq' # "rearm"
    BY <1>2 DEF IrqEnter, CountInv, Unread
  <2>2. InDma' = InDma
    BY <2>1 DEF InDma
  <2> QED
    BY <1>1, <2>1, <2>2 DEF Stream
<1>3. CASE IrqCopy
  <2>1. /\ irq = "copy" /\ irq' = "rearm" /\ UNCHANGED <<dma, received>>
        /\ received = Len(dma) /\ dma \in Seq(Byte) /\ Len(dma) \in Nat
    BY <1>1, <1>3, LenProperties DEF IrqCopy, driver, RxInv, TypeOK
  <2>2. InDma = dma /\ InDma' = <<>>
    <3>1. SubSeq(dma, received + 1, Len(dma)) = <<>>
      BY <2>1, SubSeqEmpty
    <3> QED
      BY <2>1, <3>1 DEF InDma
  <2>3. Unread' = Unread \o dma
    <3>1. Avail + received < RingSize
      <4>1. /\ Len(FlattenSeq(outstanding)) < RingSize
            /\ Len(FlattenSeq(outstanding)) \in Nat
        BY FramesFit, OutstandingType DEF RxInv, CountInv
      <4>2. Avail + received <= Len(FlattenSeq(outstanding))
        BY <2>1, <2>2, <4>1, Sizes DEF CountInv
      <4> QED
        BY <4>1, <4>2, Sizes, RxAssumption
    <3>2. SubSeq(dma, 1, received) = dma
      BY <2>1, SubSeqFull
    <3> QED
      BY <1>3, <3>1, <3>2, UnreadGrow
  <2>4. (Unread \o dma) \o line = Unread \o (dma \o line)
    <3>1. /\ Unread \in Seq(Byte) /\ dma \in Seq(Byte) /\ line \in Seq(Byte)
      BY <2>1, StreamType
    <3>2. Joined(Joined(Unread, dma), line) = Joined(Unread, Joined(dma, line))
      BY ONLY <3>1, Regroup
    <3> QED
      BY ONLY <3>2 DEF Joined
  <2>5. <<>> \o line = line
    BY StreamType, ConcatEmptySeq
  <2>6. Stream' = buf \o ((Unread \o dma) \o (<<>> \o line))
    BY <1>1, <2>2, <2>3 DEF Stream
  <2> QED
    BY <1>1, <2>1, <2>2, <2>4, <2>5, <2>6 DEF Stream
<1>4. CASE IrqRearm
  <2>1. /\ irq = "rearm" /\ irq' = "off" /\ dma' = <<>> /\ Unread' = Unread
        /\ received = Len(dma) /\ Len(dma) \in Nat
    BY <1>1, <1>4, LenProperties DEF IrqRearm, Unread, RxInv, TypeOK
  <2>2. InDma = <<>> /\ InDma' = <<>>
    <3>1. SubSeq(dma, received + 1, Len(dma)) = <<>>
      BY <2>1, SubSeqEmpty
    <3> QED
      BY <2>1, <3>1 DEF InDma
  <2> QED
    BY <1>1, <2>1, <2>2 DEF Stream
<1> QED
  BY <1>2, <1>3, <1>4 DEF Irq

\* What the parser holds begins the first frame not parsed yet.
LEMMA FrameBegun ==
  ASSUME RxInv, WellFormed, Stream = FlattenSeq(outstanding), Stream # <<>>
  PROVE  LET f == Head(outstanding)
         IN  /\ outstanding # <<>> /\ f \in Frame /\ f \in Seq(Byte)
             /\ Len(f) \in Nat
             /\ \A i \in 1 .. Len(f) : i <= Len(Stream) => Stream[i] = f[i]
<1> DEFINE f == Head(outstanding)
<1>1. outstanding # <<>>
  BY FlattenEmpty
<1>2. /\ outstanding \in Seq(Seq(Byte)) /\ outstanding \in Seq(Frame)
  BY OutstandingType DEF RxInv, TypeOK
<1>3. f \in Seq(Byte) /\ f \in Frame /\ Tail(outstanding) \in Seq(Seq(Byte))
  BY <1>1, <1>2, HeadTailProperties
<1>4. Stream = f \o FlattenSeq(Tail(outstanding))
  BY <1>1, <1>2, FlattenHead
<1>5. FlattenSeq(Tail(outstanding)) \in Seq(Byte)
  BY <1>3, FlattenType
<1> DEFINE u == FlattenSeq(Tail(outstanding))
<1> HIDE DEF f, u
<1>6. Len(f) \in Nat /\ Len(u) \in Nat
  BY <1>3, <1>5, LenProperties DEF u
<1>7. \A i \in 1 .. Len(f) + Len(u) :
        (f \o u)[i] = IF i <= Len(f) THEN f[i] ELSE u[i - Len(f)]
  BY <1>3, <1>5, ConcatProperties DEF u
<1>8. ASSUME NEW i \in 1 .. Len(f) PROVE Stream[i] = f[i]
  <2>1. i \in 1 .. Len(f) + Len(u) /\ i <= Len(f)
    BY <1>6
  <2>2. Stream[i] = (f \o u)[i]
    BY <1>4 DEF u
  <2> QED
    BY <1>7, <2>1, <2>2
<1> QED
  BY <1>1, <1>3, <1>6, <1>8 DEF f

\* As long as nothing is damaged uart_get_data drops nothing.
LEMMA StreamGet ==
  ASSUME RxInv, RxInv', StreamInv, WellFormed, GetByte
  PROVE  StreamInv'
<1> SUFFICES ASSUME noise' = 0
             PROVE  /\ Stream' = FlattenSeq(outstanding')
                    /\ irq' # "off" => received' = Len(dma')
  BY DEF StreamInv
<1> DEFINE ch == ring[pOut]
           b == Append(buf, ch)
           x == Tail(Unread) \o (InDma \o line)
           f == Head(outstanding)
<1>1. /\ irq' = "off" /\ Stream = FlattenSeq(outstanding)
      /\ UNCHANGED <<outstanding, line, InDma>>
  BY DEF GetByte, StreamInv, wire, driver, interrupt, InDma
<1>2. /\ Unread # <<>> /\ Head(Unread) = ch /\ Unread' = Tail(Unread)
      /\ ch \in Byte /\ buf \in Seq(Byte)
  BY UnreadTake DEF RxInv, TypeOK, GetByte
<1>3. b \in Seq(Byte) /\ Len(b) = Len(buf) + 1 /\ Len(buf) \in Nat
      /\ b[Len(buf) + 1] = ch
  BY <1>2, AppendProperties, LenProperties
<1>4. b \o x = Stream /\ x \in Seq(Byte)
  <2> DEFINE z == InDma \o line
  <2>1. z \in Seq(Byte) /\ Unread \in Seq(Byte) /\ Tail(Unread) \in Seq(Byte)
    BY <1>2, StreamType, HeadTailProperties
  <2>2. Stream = buf \o (Unread \o z)
    BY DEF Stream
  <2> HIDE DEF z
  <2>5. /\ buf \in Seq(Byte) /\ Unread \in Seq(Byte) /\ z \in Seq(Byte)
        /\ Unread # <<>>
    BY ONLY <1>2, <2>1
  <2>6. Joined(Append(buf, Head(Unread)), Joined(Tail(Unread), z))
          = Joined(buf, Joined(Unread, z))
    BY ONLY <2>5, TakeFirst
  <2>3. Append(buf, Head(Unread)) \o (Tail(Unread) \o z) =
          buf \o (Unread \o z)
    BY ONLY <2>6 DEF Joined
  <2>4. Tail(Unread) \o z \in Seq(Byte)
    BY <2>1, ConcatProperties
  <2> QED
    BY <1>2, <2>2, <2>3, <2>4 DEF z
<1> HIDE DEF b, x, ch
<1>5. /\ Len(Stream) >= Len(b)
      /\ \A i \in 1 .. Len(b) : i <= Len(Stream) /\ Stream[i] = b[i]
  BY <1>3, <1>4, Beginning
<1>6. Stream # <<>>
  <2>1. 1 \in 1 .. Len(b) /\ Len(<<>>) = 0
    BY <1>3
  <2>2. 1 <= Len(Stream)
    BY <1>5, <2>1
  <2> QED
    BY <2>1, <2>2
<1>7. /\ f \in Frame /\ Len(f) \in Nat
      /\ \A i \in 1 .. Len(f) : i <= Len(Stream) => Stream[i] = f[i]
  BY <1>1, <1>6, FrameBegun
<1> HIDE DEF f
<1>8. /\ Len(f) > 3 /\ f[1] = Header /\ ~TooLong(Remaining(f))
  BY <1>7 DEF WellFormed
<1>9. \A i \in 1 .. 3 : i <= Len(b) => b[i] = f[i]
  <2>1. ASSUME NEW i \in 1 .. 3, i <= Len(b) PROVE b[i] = f[i]
    <3>1. i \in 1 .. Len(b) /\ i \in 1 .. Len(f)
      BY <1>3, <1>7, <1>8, <2>1
    <3> QED
      BY <1>5, <1>7, <3>1
  <2> QED
    BY <2>1
<1>10. buf' = b
  <2>1. ~(~start /\ ch # Header)
    <3> SUFFICES ASSUME ~start PROVE ch = Header
      OBVIOUS
    <3>1. buf = <<>>
      BY DEF RxInv, ParserInv, GetByte
    <3>2. Len(buf) = 0
      BY <3>1, EmptySeq
    <3>3. 1 \in 1 .. 3 /\ 1 <= Len(b) /\ b[1] = ch
      BY <1>3, <3>2
    <3> QED
      BY <1>8, <1>9, <3>3
  <2>2. ~(Len(b) = 3 /\ TooLong(Remaining(b)))
    <3> SUFFICES ASSUME Len(b) = 3 PROVE ~TooLong(Remaining(b))
      OBVIOUS
    <3>1. b[2] = f[2] /\ b[3] = f[3]
      BY <1>9
    <3>2. Remaining(b) = Remaining(f)
      BY <3>1 DEF Remaining
    <3> QED
      BY <1>8, <3>2
  <2> QED
    BY <2>1, <2>2 DEF GetByte, b, ch
<1>11. Stream' = b \o x
  BY <1>1, <1>2, <1>10 DEF Stream, x
<1> QED
  BY <1>1, <1>4, <1>11

\* What is handed to uart_protocol_parse is the frame that was sent.
LEMMA StreamParse ==
  ASSUME RxInv, ParsedInv, StreamInv, WellFormed, ParseFrame
  PROVE  StreamInv'
<1> SUFFICES ASSUME noise' = 0
             PROVE  /\ Stream' = FlattenSeq(outstanding')
                    /\ irq' # "off" => received' = Len(dma')
  BY DEF StreamInv
<1> DEFINE x == Unread \o (InDma \o line)
           f == Head(outstanding)
<1>1. /\ irq' = "off" /\ Stream = FlattenSeq(outstanding) /\ buf' = <<>>
      /\ UNCHANGED <<line, InDma, Unread>>
  BY DEF ParseFrame, StreamInv, driver, interrupt, InDma, Unread
<1>2. /\ buf \in Seq(Byte) /\ x \in Seq(Byte) /\ Stream = buf \o x
      /\ Len(buf) > 3 /\ Len(buf) = 3 + Remaining(buf)
  BY StreamType DEF Stream, ParsedInv, ParseFrame
<1>3. Stream' = x
  <2>1. Stream' = <<>> \o x
    BY <1>1 DEF Stream
  <2> HIDE DEF x
  <2>2. <<>> \o x = x
    BY <1>2, ConcatEmptySeq
  <2> QED
    BY <2>1, <2>2
<1> HIDE DEF x
<1>4. /\ Len(Stream) >= Len(buf) /\ Len(buf) \in Nat
      /\ \A i \in 1 .. Len(buf) : i <= Len(Stream) /\ Stream[i] = buf[i]
  BY <1>2, Beginning
<1>5. Stream # <<>>
  <2>1. 1 \in 1 .. Len(buf) /\ Len(<<>>) = 0
    BY <1>2, <1>4
  <2>2. 1 <= Len(Stream)
    BY <1>4, <2>1
  <2> QED
    BY <2>1, <2>2
<1>6. /\ outstanding # <<>> /\ f \in Frame /\ f \in Seq(Byte)
      /\ Len(f) \in Nat
      /\ \A i \in 1 .. Len(f) : i <= Len(Stream) => Stream[i] = f[i]
  BY <1>1, <1>5, FrameBegun
<1>7. FlattenSeq(outstanding) = f \o FlattenSeq(Tail(outstanding))
      /\ FlattenSeq(Tail(outstanding)) \in Seq(Byte)
  <2>1. outstanding \in Seq(Seq(Byte))
    BY OutstandingType DEF RxInv
  <2>2. Tail(outstanding) \in Seq(Seq(Byte))
    BY <1>6, <2>1, HeadTailProperties
  <2> QED
    BY <1>6, <2>1, <2>2, FlattenHead, FlattenType
<1> HIDE DEF f
<1>8. Len(f) > 3 /\ Len(f) = 3 + Remaining(f) /\ Valid(f)
  BY <1>6 DEF WellFormed
<1>9. ASSUME NEW i \in 1 .. Len(buf), i \in 1 .. Len(f) PROVE buf[i] = f[i]
  BY <1>4, <1>6, <1>9
<1>10. buf = f
  <2>1. 2 \in 1 .. Len(buf) /\ 3 \in 1 .. Len(buf)
        /\ 2 \in 1 .. Len(f) /\ 3 \in 1 .. Len(f)
    BY <1>2, <1>4, <1>6, <1>8
  <2>2. buf[2] = f[2] /\ buf[3] = f[3]
    BY <1>9, <2>1
  <2>3. Remaining(buf) = Remaining(f)
    BY <2>2 DEF Remaining
  <2>4. Len(buf) = Len(f)
    BY <1>2, <1>8, <2>3
  <2> QED
    BY <1>2, <1>6, <1>9, <2>4, SeqEqual
<1>11. outstanding' = Tail(outstanding)
  <2>1. buf = Head(outstanding)
    BY <1>10 DEF f
  <2>2. Valid(buf)
    BY <1>8, <1>10
  <2> QED
    BY <1>6, <2>1, <2>2 DEF ParseFrame
<1>12. x = FlattenSeq(outstanding')
  <2> DEFINE u == FlattenSeq(outstanding')
  <2>1. f \o x = f \o u /\ u \in Seq(Byte)
    BY <1>1, <1>2, <1>7, <1>10, <1>11
  <2> HIDE DEF u
  <2>2. x = u
    BY <1>2, <1>6, <2>1, SameBeginning
  <2> QED
    BY <2>2 DEF u
<1> QED
  BY <1>1, <1>3, <1>12

LEMMA StreamNext ==
  ASSUME Paced, WellFormed, Gaps
  PROVE  /\ RxInv /\ CountInv /\ ParsedInv /\ StreamInv /\ [Next]_vars
         => StreamInv'
<1> SUFFICES ASSUME RxInv, CountInv, ParsedInv, StreamInv, [Next]_vars
             PROVE  StreamInv'
  OBVIOUS
<1>1. RxInv'
  BY RxNext
<1>2. CASE HostSend
  BY <1>2, StreamSend
<1>3. CASE Damage
  <2>1. noise' # 0
    BY <1>3 DEF Damage, RxInv, TypeOK
  <2> QED
    BY <2>1 DEF StreamInv
<1>4. CASE ReceiveByte
  BY <1>4, StreamReceive
<1>5. CASE Irq
  BY <1>1, <1>5, StreamIrq
<1>6. CASE Parse
  BY <1>1, <1>6, StreamGet, StreamParse DEF Parse
<1>7. CASE UNCHANGED vars
  BY <1>7 DEF vars, wire, driver, interrupt, parser, StreamInv, Stream, Unread,
              InDma
<1> QED
  BY <1>2, <1>3, <1>4, <1>5, <1>6, <1>7 DEF Next

\* With frames that fit, and a line that is idle while the interrupt runs, no
\* byte is lost, repeated or reordered between the line and the parser
\* (APP_USART_IRQ_NAME, uart_recv, app_uart_get, uart_get_data), until the
\* line damages one.
THEOREM BytesArriveInOrder ==
  Paced /\ WellFormed /\ Gaps => (Spec => []Lossless)
<1> SUFFICES ASSUME Paced, WellFormed, Gaps PROVE Spec => []Lossless
  OBVIOUS
<1> DEFINE Inv == RxInv /\ CountInv /\ ParsedInv /\ StreamInv
<1>1. Init => Inv
  BY RxInit, CountInit
<1>2. Inv /\ [Next]_vars => Inv'
  BY RxNext, CountNext, ParsedNext, StreamNext
<1>3. Inv => Lossless
  <2> SUFFICES ASSUME Inv, noise = 0
               PROVE  buf \o Unread \o InDma \o line = FlattenSeq(outstanding)
    BY DEF Lossless
  <2>1. Stream = FlattenSeq(outstanding)
    BY DEF StreamInv
  <2> QED
    BY <2>1, LosslessForm
<1> HIDE DEF Inv
<1> QED
  BY <1>1, <1>2, <1>3, PTL DEF Spec

\* With frames that fit the transfer the receiver is never turned off, also
\* when the line damages bytes or does not pause for the interrupt: after
\* every interrupt a transfer is queued (app/uart.c:179).
THEOREM ReceiverStaysOn == Paced => (Spec => ReceiverRearmed)
<1> SUFFICES ASSUME Paced PROVE Spec => ReceiverRearmed
  OBVIOUS
<1> DEFINE Inv == RxInv /\ CountInv
<1>1. Init => Inv
  BY RxInit, CountInit
<1>2. Inv /\ [Next]_vars => Inv'
  BY RxNext, CountNext
<1>3. Inv' => armed'
  BY DEF CountInv
<1>4. Inv /\ [Next]_vars =>
        [(IrqEnter \/ IrqRearm) /\ irq' = "off" => armed']_vars
  BY <1>2, <1>3
<1> HIDE DEF Inv
<1> QED
  BY <1>1, <1>2, <1>4, PTL DEF Spec, ReceiverRearmed

=============================================================================
