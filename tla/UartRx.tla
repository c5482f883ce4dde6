------------------------------- MODULE UartRx -------------------------------
(***************************************************************************)
(* The serial receive path: bytes from the host enter a DMA transfer of    *)
(* UARTDRV; when the line falls idle the USART interrupt copies them into  *)
(* the ring UartRecvBuf and starts the next transfer; App_Uart_Parse_Task  *)
(* takes them out one by one and cuts the frames                           *)
(*   <<WIFIAMP_DEV_HEADER, length msb, length lsb, length bytes, checksum>>*)
(* Bytes are digits in base Radix (256 in the code).                       *)
(***************************************************************************)
EXTENDS Naturals, SequencesExt

CONSTANTS
  Radix,      \* the values of a byte
  Header,     \* WIFIAMP_DEV_HEADER
  MinLen,     \* the smallest length procotol_check accepts (4)
  MaxLen,     \* UART_PROCOTOL_MAX_LEN (400)
  DmaSize,    \* BUFF_SIZE, the bytes of a DMA transfer (1024)
  RingSize,   \* UART_RECV_BUFF_SIZE (1024)
  Frame,      \* the frames the host sends
  Window,     \* frames the host sends before it waits for the device
  MaxFrames,  \* frames in a behaviour
  MaxNoise,   \* bytes damaged in a behaviour
  Gaps        \* TRUE: the line stays idle while the interrupt is served

ASSUME RxAssumption ==
  /\ Radix \in Nat \ {0, 1} /\ Header \in 0 .. Radix - 1
  /\ MinLen \in Nat /\ MaxLen \in Nat
  /\ DmaSize \in Nat \ {0} /\ RingSize \in Nat \ {0, 1}
  /\ DmaSize <= RingSize
  /\ Frame \subseteq Seq(0 .. Radix - 1)
  /\ Window \in Nat /\ MaxFrames \in Nat /\ MaxNoise \in Nat
  /\ Gaps \in BOOLEAN

Byte == 0 .. Radix - 1

VARIABLES
  line,         \* bytes the host has sent that the UART has not received
  outstanding,  \* history: frames the host has sent, not parsed yet
  sent, noise,  \* their bounds
  armed,        \* a receive transfer is queued in UARTDRV
  dma,          \* rxbuf, up to what the DMA has written
  idle,         \* the idle timer TIMECMP1 is running or has expired
  irq,          \* APP_USART_IRQ_NAME
  received,     \* its count of received bytes
  ring, pIn, pOut,     \* UartRecvBuf
  pc,           \* App_Uart_Parse_Task
  start,        \* proctol_start
  buf,          \* uart_recv_buf, up to recv_len
  dataLen       \* data_len

wire == <<line, outstanding, sent, noise>>
driver == <<armed, dma, idle>>
interrupt == <<irq, received>>
parser == <<pc, start, buf, dataLen>>
vars == <<wire, driver, interrupt, ring, pIn, pOut, parser>>

Init ==
  /\ line = <<>> /\ outstanding = <<>> /\ sent = 0 /\ noise = 0
  /\ armed = TRUE /\ dma = <<>> /\ idle = FALSE
  /\ irq = "off" /\ received = 0
  /\ ring = [i \in 0 .. RingSize - 1 |-> 0] /\ pIn = 0 /\ pOut = 0
  /\ pc = "read" /\ start = FALSE /\ buf = <<>> /\ dataLen = 0

-----------------------------------------------------------------------------
(* The host, the line and UARTDRV.                                         *)

HostSend ==
  /\ Len(outstanding) < Window /\ sent < MaxFrames
  /\ sent' = sent + 1
  /\ \E f \in Frame : line' = line \o f /\ outstanding' = Append(outstanding, f)
  /\ UNCHANGED <<noise, driver, interrupt, ring, pIn, pOut, parser>>

\* A byte is lost or turned into another one.
Damage ==
  /\ line # <<>> /\ noise < MaxNoise
  /\ noise' = noise + 1
  /\ \/ line' = Tail(line)
     \/ \E b \in Byte : line' = [line EXCEPT ![1] = b]
  /\ UNCHANGED <<outstanding, sent, driver, interrupt, ring, pIn, pOut, parser>>

\* The UART receives a byte.  The one that fills the transfer completes it:
\* ReceiveDmaComplete dequeues it and, as no other is queued, turns the
\* receiver off.
ReceiveByte ==
  /\ line # <<>> /\ (Gaps => irq = "off")
  /\ line' = Tail(line)
  /\ IF ~armed
       THEN UNCHANGED driver
       ELSE /\ armed' = (Len(dma) + 1 < DmaSize)
            /\ dma' = Append(dma, Head(line))
            /\ idle' = TRUE
  /\ UNCHANGED <<outstanding, sent, noise, interrupt, ring, pIn, pOut, parser>>

-----------------------------------------------------------------------------
(* APP_USART_IRQ_NAME, when the line has been idle for 48 bit times.       *)

\* UARTDRV_GetReceiveStatus: nothing when no transfer is queued.
IrqEnter ==
  /\ idle /\ irq = "off"
  /\ idle' = FALSE
  /\ received' = IF armed THEN Len(dma) ELSE 0
  /\ irq' = IF received' >= 1 THEN "copy" ELSE "off"
  /\ UNCHANGED <<wire, armed, dma, ring, pIn, pOut, parser>>

\* uart_recv writes the bytes whether or not the ring has room for them.
IrqCopy ==
  /\ irq = "copy"
  /\ ring' = [i \in 0 .. RingSize - 1 |->
               LET k == ((i + RingSize - pIn) % RingSize) + 1
               IN IF k <= received THEN dma[k] ELSE ring[i]]
  /\ pIn' = (pIn + received) % RingSize
  /\ irq' = "rearm"
  /\ UNCHANGED <<wire, driver, received, pOut, parser>>

\* Mutant: the transfer is aborted and no other is started.
IrqAbortOnly ==
  /\ irq = "rearm"
  /\ armed' = FALSE /\ dma' = <<>>
  /\ irq' = "off"
  /\ UNCHANGED <<wire, idle, received, ring, pIn, pOut, parser>>

\* UARTDRV_Abort and UARTDRV_Receive.
IrqRearm ==
  /\ irq = "rearm"
  /\ armed' = TRUE /\ dma' = <<>>
  /\ irq' = "off"
  /\ UNCHANGED <<wire, idle, received, ring, pIn, pOut, parser>>

-----------------------------------------------------------------------------
(* App_Uart_Parse_Task.  It polls the ring every 5 ms, so the semaphore    *)
(* only makes it faster and is left out.                                   *)

Restart == start' = FALSE /\ buf' = <<>> /\ dataLen' = 0 /\ UNCHANGED pc

\* The bytes still to come after the length field.
\* Mutant: the checksum byte is forgotten.
RemainingNoChecksum(b) == b[2] * Radix + b[3]
Remaining(b) == b[2] * Radix + b[3] + 1

\* Mutant: frames that do not fit uart_recv_buf are accepted.
NeverTooLong(n) == n > Radix * Radix
TooLong(n) == n > MaxLen

\* Mutant: p_out wraps one byte late.
NextOutLate == IF pOut + 1 > RingSize THEN 0 ELSE pOut + 1
NextOut == IF pOut + 1 >= RingSize THEN 0 ELSE pOut + 1

\* uart_get_data takes one byte with app_uart_get.
GetByte ==
  /\ pc = "read" /\ irq = "off" /\ pOut # pIn
  /\ pOut' = NextOut
  /\ LET ch == ring[pOut]
         b == Append(buf, ch)
     IN \/ /\ ~start /\ ch # Header
           /\ UNCHANGED parser
        \/ /\ start \/ ch = Header
           /\ \/ /\ Len(b) < 3
                 /\ start' = TRUE /\ buf' = b
                 /\ UNCHANGED <<pc, dataLen>>
              \/ /\ Len(b) = 3 /\ TooLong(Remaining(b))
                 /\ Restart
              \/ /\ Len(b) = 3 /\ ~TooLong(Remaining(b))
                 /\ dataLen' = Remaining(b) /\ buf' = b
                 /\ UNCHANGED <<pc, start>>
              \/ /\ Len(b) > 3
                 /\ dataLen' = dataLen - 1 /\ buf' = b
                 /\ start' = (dataLen' > 0)
                 /\ pc' = IF dataLen' = 0 THEN "parse" ELSE "read"
  /\ UNCHANGED <<wire, driver, interrupt, ring, pIn>>

\* check_sum_cal over everything between the length field and the checksum.
CheckSum(b) == FoldFunctionOnSet(+, 0, b, 4 .. Len(b) - 1) % Radix

\* procotol_check.
Valid(b) == Len(b) - 4 >= MinLen /\ b[Len(b)] = CheckSum(b)

\* uart_protocol_parse: a frame that is not valid is dropped.
ParseFrame ==
  /\ pc = "parse" /\ irq = "off"
  /\ outstanding' =
       IF Valid(buf) /\ outstanding # <<>> /\ buf = Head(outstanding)
         THEN Tail(outstanding) ELSE outstanding
  /\ pc' = "read" /\ buf' = <<>>
  /\ UNCHANGED <<line, sent, noise, driver, interrupt, ring, pIn, pOut, start,
                 dataLen>>

-----------------------------------------------------------------------------
Irq == IrqEnter \/ IrqCopy \/ IrqRearm

Parse == GetByte \/ ParseFrame

Next == HostSend \/ Damage \/ ReceiveByte \/ Irq \/ Parse

Spec == Init /\ [][Next]_vars

\* Bytes arrive, the timer expires on an idle line, the interrupt is served
\* and Parse is scheduled: it blocks nobody and the tasks above it sleep.
Fairness ==
  WF_vars(ReceiveByte) /\ WF_vars(Irq) /\ WF_vars(Parse)

FairSpec == Spec /\ Fairness

-----------------------------------------------------------------------------
(* Properties.                                                             *)

TypeOK ==
  /\ line \in Seq(Byte) /\ outstanding \in Seq(Frame)
  /\ sent \in 0 .. MaxFrames /\ noise \in 0 .. MaxNoise
  /\ armed \in BOOLEAN /\ idle \in BOOLEAN
  /\ dma \in Seq(Byte) /\ Len(dma) <= DmaSize
  /\ irq \in {"off", "copy", "rearm"} /\ received \in 0 .. DmaSize
  /\ ring \in [0 .. RingSize - 1 -> Byte]
  /\ pIn \in 0 .. RingSize - 1 /\ pOut \in 0 .. RingSize - 1
  /\ pc \in {"read", "parse"} /\ start \in BOOLEAN
  /\ buf \in Seq(Byte) /\ dataLen \in Nat

\* uart_get_data never writes beyond the frame uart_recv_buf has room for,
\* whatever bytes come (the 3 bytes up to the length, MaxLen after it).
FitsBuffer ==
  /\ Len(buf) <= 3 + MaxLen
  /\ pc = "read" /\ Len(buf) >= 3 => Len(buf) + dataLen = 3 + Remaining(buf)

\* The bytes in the ring that Parse has not read.
Unread == [k \in 1 .. (pIn + RingSize - pOut) % RingSize |->
             ring[(pOut + k - 1) % RingSize]]

\* The bytes the interrupt has not copied.
InDma == IF irq = "rearm" THEN SubSeq(dma, received + 1, Len(dma)) ELSE dma

\* No byte is lost, duplicated or reordered between the line and the parser:
\* what the parser, the ring, the DMA and the line hold, in this order, is
\* exactly the frames not parsed yet (uart_recv, APP_USART_IRQ_NAME,
\* app_uart_get, uart_get_data), as long as the line damages nothing.
Lossless ==
  noise = 0 => buf \o Unread \o InDma \o line = FlattenSeq(outstanding)

\* Every frame the host sends is parsed, unless the line damages a byte
\* (App_Uart_Parse_Task).
AllParsed == outstanding # <<>> ~> outstanding = <<>> \/ noise > 0

\* After its interrupt the receiver waits for the next command:
\* "enqueue next receive buffer" (app/uart.c:179).
ReceiverRearmed ==
  [][(IrqEnter \/ IrqRearm) /\ irq' = "off" => armed']_vars
=============================================================================
