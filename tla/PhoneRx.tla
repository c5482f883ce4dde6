------------------------------ MODULE PhoneRx ------------------------------
(***************************************************************************)
(* From the phone to the host: the phone writes its frames, in pieces, to  *)
(* the characteristic Recv; BluetoothEventHandler copies each write into   *)
(* the ring ble_recv_array (app/ble.c); App_Ble_Parse_Task cuts the frames *)
(* out again (ble_get_data) and lists them for the host.                   *)
(*                                                                         *)
(* A frame is a header, a length, and as many units as the length says,    *)
(* the checksum included; the length is one unit here.  What the units     *)
(* hold is not modelled: one that is taken for a header or a length though *)
(* it is neither is any.  BleLink composes this part with the connection.  *)
(***************************************************************************)
EXTENDS Naturals, SequencesExt

CONSTANTS
  PhoneLen,   \* the lengths of the phone's frames
  MaxData,    \* UART_PROCOTOL_MAX_LEN
  RecvSize    \* BLE_RECV_BUFF_SIZE

ASSUME PhoneAssumption ==
  /\ MaxData \in Nat /\ RecvSize \in Nat \ {0}
  /\ PhoneLen \subseteq {n \in Nat : 2 < n /\ n <= MaxData + 2}

VARIABLES
  phoneFrames,   \* frames the phone began to write
  toWrite,       \* what it has still to write of the last
  writes,        \* its writes that are not handled yet
  recv, recvIn, recvOut,   \* ble_recv_array
  start,         \* proctol_start
  got,           \* ble_recv_buf, up to recv_len
  dataLen,       \* data_len
  job,           \* App_Ble_Parse_Task: "get", "send"
  lastFrame,     \* history: the last frame it listed
  cut            \* history: the first frame a disconnection cut; 0: none

recvRing == <<recv, recvIn, recvOut>>
phoneParser == <<start, got, dataLen, job, lastFrame>>
phoneVars == <<phoneFrames, toWrite, writes, recvRing, phoneParser, cut>>

\* Unit k of n of frame f.
PhoneFrame(f, n) == [k \in 1 .. n |-> <<f, k, n>>]

PhoneInit ==
  /\ phoneFrames = 0 /\ toWrite = <<>> /\ writes = <<>>
  /\ recv = [i \in 0 .. RecvSize - 1 |-> <<0, 0, 0>>]
  /\ recvIn = 0 /\ recvOut = 0
  /\ start = FALSE /\ got = <<>> /\ dataLen = 0 /\ job = "get"
  /\ lastFrame = 0 /\ cut = 0

-----------------------------------------------------------------------------
(* The phone.                                                              *)

Unread == (recvIn + RecvSize - recvOut) % RecvSize

\* It goes on with its frame or begins one.  It leaves no more than the ring
\* holds unread: the code does not test for room.
PhoneWrites ==
  /\ \E n \in PhoneLen :
       LET fresh == toWrite = <<>>
           rest == IF fresh THEN PhoneFrame(phoneFrames + 1, n) ELSE toWrite
       IN \E p \in 1 .. Len(rest) :
            /\ Unread + Len(FlattenSeq(writes)) + p < RecvSize
            /\ writes' = Append(writes, SubSeq(rest, 1, p))
            /\ toWrite' = SubSeq(rest, p + 1, Len(rest))
            /\ phoneFrames' = IF fresh THEN phoneFrames + 1 ELSE phoneFrames
  /\ UNCHANGED <<recvRing, phoneParser, cut>>

\* What a disconnection leaves of its frame is never written.
PhoneGone ==
  /\ toWrite' = <<>>
  /\ cut' = IF cut = 0 /\ toWrite # <<>> THEN phoneFrames ELSE cut
  /\ UNCHANGED <<phoneFrames, writes, recvRing, phoneParser>>

-----------------------------------------------------------------------------
(* ble_recv_array.                                                         *)

NextSlot(i) == IF i + 1 >= RecvSize THEN 0 ELSE i + 1

\* Mutant: the last unit of a write is not counted.
StoreWriteShort ==
  LET w == Head(writes)
  IN /\ recv' = [i \in DOMAIN recv |->
                   LET k == ((i + RecvSize - recvIn) % RecvSize) + 1
                   IN IF k <= Len(w) THEN w[k] ELSE recv[i]]
     /\ recvIn' = (recvIn + Len(w) - 1) % RecvSize
     /\ writes' = Tail(writes)
     /\ UNCHANGED <<phoneFrames, toWrite, recvOut, phoneParser, cut>>
\* gatt_server_user_write_request: the handler copies the value unit by unit,
\* from recvIn on and around the end of the ring.
StoreWrite ==
  LET w == Head(writes)
  IN /\ recv' = [i \in DOMAIN recv |->
                   LET k == ((i + RecvSize - recvIn) % RecvSize) + 1
                   IN IF k <= Len(w) THEN w[k] ELSE recv[i]]
     /\ recvIn' = (recvIn + Len(w)) % RecvSize
     /\ writes' = Tail(writes)
     /\ UNCHANGED <<phoneFrames, toWrite, recvOut, phoneParser, cut>>

-----------------------------------------------------------------------------
(* App_Ble_Parse_Task.                                                     *)

\* What may be taken for a header, and for which length.
LooksLikeHeader(u) == IF u[2] = 1 THEN {TRUE} ELSE BOOLEAN
LengthIn(u) == IF u[2] = 2 THEN {u[3] - 2} ELSE 1 .. MaxData + 1

Skip ==
  /\ UNCHANGED <<start, got, dataLen, job>>

Restart ==
  /\ start' = FALSE /\ got' = <<>> /\ dataLen' = 0
  /\ UNCHANGED job

\* Mutant: the checksum is not waited for.
TakeDataShort(u) ==
  /\ dataLen' = dataLen - 1
  /\ got' = Append(got, u)
  /\ start' = (dataLen' > 1)
  /\ job' = IF dataLen' > 1 THEN job ELSE "send"
\* One unit after the length; the last completes the frame.
TakeData(u) ==
  /\ dataLen' = dataLen - 1
  /\ got' = Append(got, u)
  /\ start' = (dataLen' # 0)
  /\ job' = IF dataLen' = 0 THEN "send" ELSE job

\* Mutant: a length the buffer does not hold is accepted.
TakeLengthAny(u) ==
  \E d \in LengthIn(u) : /\ dataLen' = d /\ got' = Append(got, u)
                         /\ UNCHANGED <<start, job>>
TakeLength(u) ==
  \E d \in LengthIn(u) :
    \/ d > MaxData /\ Restart
    \/ /\ d <= MaxData
       /\ dataLen' = d /\ got' = Append(got, u)
       /\ UNCHANGED <<start, job>>

\* app_ble_get and one turn of the loop of ble_get_data.
GetUnit ==
  /\ job = "get" /\ recvOut # recvIn
  /\ recvOut' = NextSlot(recvOut)
  /\ LET u == recv[recvOut]
     IN \/ ~start /\ FALSE \in LooksLikeHeader(u) /\ Skip
        \/ /\ ~start /\ TRUE \in LooksLikeHeader(u)
           /\ start' = TRUE /\ got' = <<u>>
           /\ UNCHANGED <<dataLen, job>>
        \/ start /\ Len(got) = 1 /\ TakeLength(u)
        \/ start /\ Len(got) > 1 /\ TakeData(u)
  /\ UNCHANGED <<phoneFrames, toWrite, writes, recv, recvIn, lastFrame, cut>>

\* The phone's frames up to here were written whole.
InStep == cut = 0 \/ lastFrame + 1 < cut

\* The frame is copied to a buffer and listed, or dropped when the pool is
\* empty (UartTx).
HandOver ==
  /\ job = "send"
  /\ job' = "get" /\ got' = <<>>
  /\ lastFrame' = IF InStep THEN lastFrame + 1 ELSE lastFrame
  /\ UNCHANGED <<phoneFrames, toWrite, writes, recvRing, start, dataLen, cut>>

-----------------------------------------------------------------------------
(* Properties.                                                             *)

\* The frames the phone has written to their ends, up to one that was cut.
LastWhole == IF cut # 0 THEN cut - 1
             ELSE IF toWrite = <<>> THEN phoneFrames ELSE phoneFrames - 1

PhoneUnit == {<<f, k, n>> : f \in 0 .. phoneFrames, k \in 0 .. MaxData + 2,
                            n \in {0} \cup PhoneLen}

PhoneTypeOK ==
  /\ phoneFrames \in Nat /\ cut \in 0 .. phoneFrames
  /\ lastFrame \in 0 .. phoneFrames
  /\ toWrite \in Seq(PhoneUnit) /\ writes \in Seq(Seq(PhoneUnit))
  /\ recv \in [0 .. RecvSize - 1 -> PhoneUnit]
  /\ recvIn \in 0 .. RecvSize - 1 /\ recvOut \in 0 .. RecvSize - 1
  /\ start \in BOOLEAN /\ job \in {"get", "send"}
  /\ got \in Seq(PhoneUnit) /\ dataLen \in 0 .. MaxData

\* Whatever ble_get_data makes of the bytes, also of a frame that was cut off
\* by a disconnection and goes on with the bytes of the next phone, it stays
\* within ble_recv_buf (ble_get_data tests the length only once).
PhoneFrameFits == Len(got) + (IF start THEN dataLen ELSE 0) <= MaxData + 2

\* However the phone cuts its frames into writes, and wherever the ring
\* wraps, App_Ble_Parse_Task lists the frames the phone wrote, whole and in
\* order, up to the first that a disconnection cut (ble_get_data).
PhoneFramesIntact ==
  [][HandOver /\ InStep => got = PhoneFrame(lastFrame + 1, Len(got))]_phoneVars
=============================================================================
