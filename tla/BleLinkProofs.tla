--------------------------- MODULE BleLinkProofs ---------------------------
(***************************************************************************)
(* What BleLink promises for every number of connections and frames, every *)
(* length and every ring: the program's view of the connection, the bytes  *)
(* on their way to the phone, the frames on their way from it, and the     *)
(* types.                                                                  *)
(***************************************************************************)
EXTENDS BleLink, PhoneRxProofs, FiniteSetTheorems

StackEvent == {"opened", "closed", "mtu", "write", "retry"}
Change == {"opened", "closed"}

-----------------------------------------------------------------------------
(* Queues of events.                                                       *)

\* The last change in queue q, or state up if there is none, is that a
\* phone is connected exactly if now holds.
Follows(q, now, up) ==
  /\ (\A i \in DOMAIN q : q[i] \notin Change) => (now <=> up)
  /\ \A i \in DOMAIN q :
       /\ q[i] \in Change
       /\ \A j \in DOMAIN q : q[j] \in Change => j <= i
       => (now <=> q[i] = "opened")

\* No connection is announced whose end is not announced after it.
EndsClosed(q) ==
  \A i \in DOMAIN q : q[i] = "opened" =>
                        \E j \in DOMAIN q : i < j /\ q[j] = "closed"

LEMMA AppendEvent ==
  ASSUME NEW q \in Seq(StackEvent), NEW e \in StackEvent
  PROVE  /\ Append(q, e) \in Seq(StackEvent)
         /\ Len(q) \in Nat /\ DOMAIN q = 1 .. Len(q)
         /\ DOMAIN Append(q, e) = 1 .. Len(q) + 1
         /\ \A i \in 1 .. Len(q) : Append(q, e)[i] = q[i]
         /\ Append(q, e)[Len(q) + 1] = e
BY AppendProperties, LenProperties

LEMMA TailEvent ==
  ASSUME NEW q \in Seq(StackEvent), q # <<>>
  PROVE  /\ Tail(q) \in Seq(StackEvent) /\ Head(q) = q[1]
         /\ Len(q) \in Nat \ {0} /\ DOMAIN q = 1 .. Len(q)
         /\ DOMAIN Tail(q) = 1 .. Len(q) - 1
         /\ \A i \in 1 .. Len(q) - 1 : Tail(q)[i] = q[i + 1]
BY HeadTailProperties, LenProperties, EmptySeq

\* Other events at the end change nothing.
LEMMA AppendOther ==
  ASSUME NEW q \in Seq(StackEvent), NEW e \in StackEvent \ Change,
         NEW now, NEW up
  PROVE  /\ Follows(q, now, up) => Follows(Append(q, e), now, up)
         /\ EndsClosed(q) => EndsClosed(Append(q, e))
<1> DEFINE a == Append(q, e)
<1>1. /\ Len(q) \in Nat /\ DOMAIN q = 1 .. Len(q)
      /\ DOMAIN a = 1 .. Len(q) + 1
      /\ \A i \in 1 .. Len(q) : a[i] = q[i]
      /\ a[Len(q) + 1] = e
  BY AppendEvent
<1>2. \A i \in DOMAIN a : a[i] \in Change => i \in DOMAIN q /\ q[i] = a[i]
  BY <1>1
<1>3. \A i \in DOMAIN q : i \in DOMAIN a /\ a[i] = q[i]
  BY <1>1
<1> HIDE DEF a
<1>4. ASSUME Follows(q, now, up) PROVE Follows(a, now, up)
  BY <1>2, <1>3, <1>4 DEF Follows
<1>5. ASSUME EndsClosed(q) PROVE EndsClosed(a)
  BY <1>2, <1>3, <1>5 DEF EndsClosed, Change
<1> QED
  BY <1>4, <1>5 DEF a

\* A change at the end is the last.
LEMMA AppendChange ==
  ASSUME NEW q \in Seq(StackEvent), NEW e \in Change, NEW up
  PROVE  /\ Follows(Append(q, e), e = "opened", up)
         /\ e = "closed" => EndsClosed(Append(q, e))
<1> DEFINE a == Append(q, e)
<1>1. /\ Len(q) \in Nat /\ DOMAIN a = 1 .. Len(q) + 1 /\ a[Len(q) + 1] = e
  BY AppendEvent DEF StackEvent, Change
<1>2. \A i \in DOMAIN a :
        (\A j \in DOMAIN a : a[j] \in Change => j <= i) => i = Len(q) + 1
  BY <1>1
<1>3. Follows(a, e = "opened", up)
  BY <1>1, <1>2 DEF Follows
<1>4. e = "closed" => EndsClosed(a)
  <2> SUFFICES ASSUME e = "closed", NEW i \in DOMAIN a, a[i] = "opened"
               PROVE  \E j \in DOMAIN a : i < j /\ a[j] = "closed"
    BY DEF EndsClosed
  <2> QED
    BY <1>1
<1> QED
  BY <1>3, <1>4

\* The first event is handled; st is the state it leaves.
LEMMA HandleEvent ==
  ASSUME NEW q \in Seq(StackEvent), q # <<>>, NEW now, NEW up, NEW st,
         Head(q) \in Change => (st <=> Head(q) = "opened"),
         Head(q) \notin Change => (st <=> up)
  PROVE  /\ Follows(q, now, up) => Follows(Tail(q), now, st)
         /\ EndsClosed(q) => EndsClosed(Tail(q))
<1> DEFINE t == Tail(q)
<1>1. /\ Head(q) = q[1] /\ Len(q) \in Nat \ {0} /\ DOMAIN q = 1 .. Len(q)
      /\ DOMAIN t = 1 .. Len(q) - 1
      /\ \A i \in 1 .. Len(q) - 1 : t[i] = q[i + 1]
  BY TailEvent
<1>2. \A i \in DOMAIN t : i + 1 \in DOMAIN q /\ t[i] = q[i + 1] /\ i \in Nat
  BY <1>1
<1>3. \A i \in DOMAIN q : i = 1 \/ (i - 1 \in DOMAIN t /\ q[i] = t[i - 1])
  BY <1>1
<1>4. \A i \in DOMAIN q : i \in Nat
  BY <1>1
<1> HIDE DEF t
<1>5. ASSUME Follows(q, now, up) PROVE Follows(t, now, st)
  <2>1. ASSUME \A i \in DOMAIN t : t[i] \notin Change
        PROVE  now <=> st
    <3>1. \A i \in DOMAIN q : q[i] \in Change => i = 1
      BY <1>3, <2>1
    <3>2. CASE Head(q) \in Change
      <4>1. 1 \in DOMAIN q /\ \A j \in DOMAIN q : q[j] \in Change => j <= 1
        BY <1>1, <3>1
      <4> QED
        BY <1>1, <1>5, <3>2, <4>1 DEF Follows
    <3>3. CASE Head(q) \notin Change
      BY <1>1, <1>5, <3>1, <3>3 DEF Follows
    <3> QED
      BY <3>2, <3>3
  <2>2. ASSUME NEW i \in DOMAIN t, t[i] \in Change,
               \A j \in DOMAIN t : t[j] \in Change => j <= i
        PROVE  now <=> t[i] = "opened"
    <3>1. i + 1 \in DOMAIN q /\ q[i + 1] = t[i] /\ i \in Nat
      BY <1>2
    <3>2. \A j \in DOMAIN q : q[j] \in Change => j <= i + 1
      BY <1>3, <1>4, <2>2, <3>1
    <3> QED
      BY <1>5, <2>2, <3>1, <3>2 DEF Follows
  <2> QED
    BY <2>1, <2>2 DEF Follows
<1>6. ASSUME EndsClosed(q) PROVE EndsClosed(t)
  <2> SUFFICES ASSUME NEW i \in DOMAIN t, t[i] = "opened"
               PROVE  \E j \in DOMAIN t : i < j /\ t[j] = "closed"
    BY DEF EndsClosed
  <2>1. PICK j \in DOMAIN q : i + 1 < j /\ q[j] = "closed"
    BY <1>2, <1>6 DEF EndsClosed
  <2>2. j - 1 \in DOMAIN t /\ t[j - 1] = "closed" /\ i < j - 1
    BY <1>2, <1>3, <1>4, <2>1
  <2> QED
    BY <2>2
<1> QED
  BY <1>5, <1>6 DEF t

-----------------------------------------------------------------------------
(* The connection.                                                         *)

ConnInv ==
  /\ events \in Seq(StackEvent)
  /\ conns \in Nat /\ conn \in {0, conns}
  /\ connState \in {0, 1} /\ connHandle \in {0, Handle}
  /\ connHandle = Handle <=> connState = 1
  /\ Follows(events, conn # 0, connState = 1)
  /\ conn = 0 => EndsClosed(events)

LEMMA Signals ==
  ASSUME NEW q \in Seq(StackEvent), NEW now, NEW up
  PROVE  /\ Signalled(q) \in Seq(StackEvent)
         /\ Follows(q, now, up) => Follows(Signalled(q), now, up)
         /\ EndsClosed(q) => EndsClosed(Signalled(q))
<1>1. "retry" \in StackEvent \ Change
  BY DEF StackEvent, Change
<1> QED
  BY <1>1, AppendEvent, AppendOther DEF Signalled

LEMMA ConnInit == Init => ConnInv
<1> SUFFICES ASSUME Init PROVE ConnInv
  OBVIOUS
<1>1. events \in Seq(StackEvent) /\ DOMAIN events = {}
  BY EmptySeq, LenProperties DEF Init
<1> QED
  BY <1>1 DEF Init, ConnInv, Follows, EndsClosed, Handle

\* What the stack announces.
LEMMA ConnAnnounced ==
  ASSUME ConnInv,
         \/ PhoneConnect \/ PhoneDisconnect \/ PhoneExchangesMtu
         \/ PhoneWritesPiece
  PROVE  ConnInv'
<1> USE DEF ConnInv
<1>1. /\ Change \subseteq StackEvent /\ "opened" \in Change
      /\ "closed" \in Change /\ "mtu" \in StackEvent \ Change
      /\ "write" \in StackEvent \ Change
  BY DEF StackEvent, Change
<1>2. CASE PhoneConnect
  <2>1. /\ events' = Append(events, "opened") /\ conn' # 0
        /\ connState' = connState /\ connHandle' = connHandle
        /\ conns' \in Nat /\ conn' = conns'
    BY <1>2 DEF PhoneConnect, app
  <2> QED
    BY <1>1, <2>1, AppendEvent, AppendChange
<1>3. CASE PhoneDisconnect
  <2>1. /\ events' = Append(events, "closed") /\ conn' = 0
        /\ connState' = connState /\ connHandle' = connHandle
        /\ conns' = conns
    BY <1>3 DEF PhoneDisconnect, app
  <2>2. "closed" # "opened"
    OBVIOUS
  <2> QED
    BY <1>1, <2>1, <2>2, AppendEvent, AppendChange
<1>4. CASE PhoneExchangesMtu \/ PhoneWritesPiece
  <2>1. PICK e \in {"mtu", "write"} : events' = Append(events, e)
    BY <1>4 DEF PhoneExchangesMtu, PhoneWritesPiece
  <2>2. UNCHANGED <<conn, conns, connState, connHandle>>
    BY <1>4 DEF PhoneExchangesMtu, PhoneWritesPiece, app, stack
  <2> QED
    BY <1>1, <2>1, <2>2, AppendEvent, AppendOther
<1> QED
  BY <1>2, <1>3, <1>4

\* What BluetoothEventHandler makes of it.
LEMMA ConnHandled ==
  ASSUME ConnInv, Handler
  PROVE  ConnInv'
<1> USE DEF ConnInv
<1>1. events # <<>> /\ UNCHANGED <<conn, conns>>
  BY DEF Handler, Event, Opened, Closed, MtuExchanged, Written, RetrySignal,
         stack
<1>2. /\ connState' \in {0, 1} /\ connHandle' \in {0, Handle}
      /\ connHandle' = Handle <=> connState' = 1
      /\ Head(events) \in Change =>
           (connState' = 1 <=> Head(events) = "opened")
      /\ Head(events) \notin Change => (connState' = 1 <=> connState = 1)
  BY DEF Handler, Event, Opened, Closed, MtuExchanged, Written, RetrySignal,
         stack, app, Change, Handle
<1>3. events' = Tail(events) \/ events' = Signalled(Tail(events))
  BY DEF Handler, Opened, Closed, MtuExchanged, Written, RetrySignal,
         StartAdvertising
<1>4. /\ Tail(events) \in Seq(StackEvent)
      /\ Follows(Tail(events), conn # 0, connState' = 1)
      /\ conn = 0 => EndsClosed(Tail(events))
  BY <1>1, <1>2, TailEvent, HandleEvent
<1> QED
  BY <1>1, <1>2, <1>3, <1>4, Signals

LEMMA ConnNext == ConnInv /\ [Next]_vars => ConnInv'
<1> SUFFICES ASSUME ConnInv, [Next]_vars PROVE ConnInv'
  OBVIOUS
<1>1. CASE \/ PhoneConnect \/ PhoneDisconnect \/ PhoneExchangesMtu
           \/ PhoneWritesPiece
  BY <1>1, ConnAnnounced
<1>2. CASE Handler
  BY <1>2, ConnHandled
<1>3. CASE AdvStart
  <2>1. UNCHANGED <<conn, conns, connState, connHandle>>
    BY <1>3 DEF AdvStart, app
  <2>2. events' = events \/ events' = Signalled(events)
    BY <1>3 DEF AdvStart, StartAdvertising
  <2> QED
    BY <2>1, <2>2, Signals DEF ConnInv
<1>4. CASE \/ UNCHANGED vars \/ PhoneSubscribes \/ ReportState
           \/ ReportDropped \/ ForwardFrame \/ WriteRing \/ AdvCtrl
           \/ Notify \/ FromPhone
  <2>1. UNCHANGED <<events, conn, conns, connState, connHandle>>
    BY <1>4 DEF vars, PhoneSubscribes, ReportState, ReportDropped,
                ForwardFrame, WriteRing, AdvCtrl, Notify, NotifyFlush,
                NotifyTake, NotifySent, NotifyFailed, FromPhone, stack, app
  <2> QED
    BY <2>1 DEF ConnInv
<1> QED
  BY <1>1, <1>2, <1>3, <1>4 DEF Next

LEMMA ConnInvariant == Spec => []ConnInv
<1> QED
  BY ConnInit, ConnNext, PTL DEF Spec

\* ble_conn_state and ble_conn_handle are those of the stack as soon as the
\* events under way are handled, for every number of connections and however
\* late they are handled (BluetoothEventHandler).
THEOREM FollowsStack == Spec => []StateFollowsStack
<1>1. ConnInv => StateFollowsStack
  BY DEF ConnInv, StateFollowsStack, Follows, Changes, Change
<1> QED
  BY <1>1, ConnInvariant, PTL

-----------------------------------------------------------------------------
(* The host's view.                                                        *)

ViewInv ==
  /\ connState \in {0, 1} /\ evTask \in {"pend", "opened", "closed"}
  /\ ~missed =>
       IF evTask = "pend" THEN hostView = connState
                          ELSE connState = StateOf(evTask)

LEMMA ViewNext == ViewInv /\ [Next]_vars => ViewInv'
<1> SUFFICES ASSUME ViewInv, [Next]_vars PROVE ViewInv'
  OBVIOUS
<1> USE DEF ViewInv, StateOf
<1>1. CASE Opened \/ Closed
  BY <1>1 DEF Opened, Closed, PostEvent
<1>2. CASE ReportState \/ ReportDropped
  BY <1>2 DEF ReportState, ReportDropped, app
<1>3. CASE \/ UNCHANGED vars \/ PhoneConnect \/ PhoneDisconnect
           \/ PhoneExchangesMtu \/ PhoneSubscribes \/ PhoneWritesPiece
           \/ MtuExchanged \/ Written \/ RetrySignal \/ ForwardFrame
           \/ WriteRing \/ AdvCtrl \/ AdvStart \/ Notify \/ FromPhone
  <2>1. UNCHANGED <<connState, told>>
    BY <1>3 DEF vars, PhoneConnect, PhoneDisconnect, PhoneExchangesMtu,
                PhoneSubscribes, PhoneWritesPiece, MtuExchanged, Written,
                RetrySignal, ForwardFrame, WriteRing, AdvCtrl, AdvStart,
                Notify, NotifyFlush, NotifyTake, NotifySent, NotifyFailed,
                FromPhone, app
  <2> QED
    BY <2>1 DEF told
<1> QED
  BY <1>1, <1>2, <1>3 DEF Next, Handler

\* The host knows the state of the connection whenever Ble_Event_Task waits
\* and the last change reached it, for every number of connections
\* (Ble_Event_Task, ble_state_notify).
THEOREM HostKnows == Spec => []HostInformed
<1>1. Init => ViewInv
  BY DEF Init, ViewInv
<1>2. ViewInv => HostInformed
  BY DEF ViewInv, HostInformed
<1> QED
  BY <1>1, <1>2, ViewNext, PTL DEF Spec

-----------------------------------------------------------------------------
(* The arithmetic of notify_array.                                         *)

Index == 0 .. RingSize - 1
Byte == Nat \X Nat \X Nat

LEMMA Bounds ==
  /\ RingSize \in Nat \ {0} /\ 0 \in Index
  /\ \A n \in FrameLen : n \in Nat \ {0} /\ n < RingSize
  /\ \A n : n \in Index <=> n \in Nat /\ n < RingSize
BY LinkAssumption DEF Index

LEMMA Arithmetic ==
  /\ \A i, j \in Index : Minus(i, j) \in Index /\ Plus(j, Minus(i, j)) = i
  /\ \A i, n \in Index :
       Plus(i, n) \in Index /\ Minus(Plus(i, n), i) = n
  /\ \A i \in Index : Minus(i, i) = 0 /\ Plus(i, 0) = i
BY Bounds DEF Index, Plus, Minus

\* Further ahead, and behind.
LEMMA Ahead ==
  ASSUME NEW i \in Index, NEW n \in Index, NEW k \in Index, n + k < RingSize
  PROVE  /\ Plus(Plus(i, n), k) = Plus(i, n + k)
         /\ Minus(Plus(i, n + k), i) = n + k
BY Bounds DEF Index, Plus, Minus

LEMMA Behind ==
  ASSUME NEW i \in Index, NEW j \in Index, NEW n \in 0 .. Minus(i, j)
  PROVE  Minus(i, Plus(j, n)) = Minus(i, j) - n
BY Bounds DEF Index, Plus, Minus

\* A frame written at pb_in reaches neither the unread bytes nor beyond itself.
LEMMA Beside ==
  ASSUME NEW i \in Index, NEW j \in Index, NEW n \in Nat,
         Minus(i, j) + n < RingSize, NEW k \in 0 .. Minus(i, j) + n - 1
  PROVE  IF k < Minus(i, j) THEN Minus(Plus(j, k), i) >= n
                            ELSE Minus(Plus(j, k), i) = k - Minus(i, j)
BY Bounds DEF Index, Plus, Minus

\* n bytes of ring r from o on.
Bytes(r, o, n) == [k \in 1 .. n |-> r[Plus(o, k - 1)]]

LEMMA BytesInRing ==
  ASSUME NEW r \in [Index -> Byte], NEW o \in Index, NEW n \in Index
  PROVE  /\ Bytes(r, o, n) \in Seq(Byte) /\ Len(Bytes(r, o, n)) = n
         /\ \A k \in 1 .. n : Bytes(r, o, n)[k] = r[Plus(o, k - 1)]
<1>1. \A k \in 1 .. n : k - 1 \in Index
  BY Bounds DEF Index
<1>2. \A k \in 1 .. n : r[Plus(o, k - 1)] \in Byte
  BY <1>1, Arithmetic
<1>3. n \in Nat
  BY DEF Index
<1> QED
  BY <1>2, <1>3 DEF Bytes

LEMMA FrameUnits ==
  ASSUME NEW c \in Nat, NEW f \in Nat, NEW n \in Nat
  PROVE  /\ Frame(c, f, n) \in Seq(Byte) /\ Len(Frame(c, f, n)) = n
         /\ \A k \in 1 .. n : Frame(c, f, n)[k] = <<c, f, k>>
<1>1. \A k \in 1 .. n : <<c, f, k>> \in Byte
  BY DEF Byte
<1> QED
  BY <1>1 DEF Frame

-----------------------------------------------------------------------------
(* What is on its way to the phone.                                        *)

RingTypes ==
  /\ ring \in [Index -> Byte] /\ pbIn \in Index /\ pbOut \in Index
  /\ owed \in Seq(Byte) /\ conns \in Nat /\ frames \in Nat
  /\ mtu \in {DefaultMtu, LargeMtu}

\* The frame to be written has room, and the notification is the first unread
\* bytes.
RingInv ==
  /\ RingTypes
  /\ parse = "forward" => frameLen \in FrameLen /\ Used + frameLen < RingSize
  /\ notify = "send" => \E n \in 0 .. Used : note = FromRing(n)
  /\ RingLossless

LEMMA UsedInRing ==
  /\ RingTypes => Used \in Index
  /\ RingTypes' => Used' \in Index
BY Arithmetic DEF RingTypes, Used

LEMMA RingInit == Init => RingInv
<1> SUFFICES ASSUME Init PROVE RingInv
  OBVIOUS
<1>1. RingTypes /\ Used = 0
  <2>1. <<0, 0, 0>> \in Byte /\ <<>> \in Seq(Byte)
    BY EmptySeq DEF Byte
  <2>2. ring \in [Index -> Byte]
    BY <2>1 DEF Init, Index
  <2> QED
    BY <2>1, <2>2, Bounds, Arithmetic DEF Init, RingTypes, Used
<1>2. FromRing(0) = <<>>
  BY <1>1, Bounds, BytesInRing, EmptySeq DEF RingTypes, FromRing, Bytes
<1> QED
  BY <1>1, <1>2 DEF Init, RingInv, RingLossless

LEMMA RingWritten ==
  ASSUME RingInv, WriteRing
  PROVE  RingInv'
<1> DEFINE f == Frame(conns, frames, frameLen)
<1>1. RingTypes /\ Used \in Index /\ frameLen \in Nat \ {0}
      /\ Used + frameLen < RingSize /\ frameLen \in Index
  BY UsedInRing, Bounds DEF RingInv, WriteRing, Index
<1>2. /\ f \in Seq(Byte) /\ Len(f) = frameLen
      /\ \A k \in 1 .. frameLen : f[k] \in Byte
  BY <1>1, FrameUnits, ElementOfSeq DEF RingTypes
<1>3. /\ ring' = [i \in Index |->
                    IF Minus(i, pbIn) + 1 <= frameLen
                    THEN f[Minus(i, pbIn) + 1] ELSE ring[i]]
      /\ owed' = owed \o f /\ pbIn' = Plus(pbIn, frameLen)
      /\ UNCHANGED <<pbOut, conns, frames, mtu>>
      /\ parse' = "idle" /\ notify' = "pend"
  <2>1. DOMAIN ring = Index
    BY <1>1 DEF RingTypes
  <2> QED
    BY <2>1 DEF WriteRing, RingFree, notifier, bounds, app, stack
<1> HIDE DEF f
<1>4. ring' \in [Index -> Byte]
  <2> SUFFICES ASSUME NEW i \in Index, Minus(i, pbIn) + 1 <= frameLen
               PROVE  f[Minus(i, pbIn) + 1] \in Byte
    BY <1>1, <1>3 DEF RingTypes
  <2>1. Minus(i, pbIn) \in Nat
    BY <1>1, Bounds, Arithmetic DEF RingTypes
  <2>2. Minus(i, pbIn) + 1 \in 1 .. frameLen
    BY <1>1, <2>1
  <2> QED
    BY <1>2, <2>2
<1>5. owed' \in Seq(Byte)
  BY <1>1, <1>2, <1>3, ConcatProperties DEF RingTypes
<1>6. RingTypes'
  BY <1>1, <1>3, <1>4, <1>5, Arithmetic DEF RingTypes
<1>7. Used' = Used + frameLen /\ Used' \in Index
  <2>1. Plus(pbOut, Used) = pbIn
    BY <1>1, Arithmetic DEF RingTypes, Used
  <2>2. Minus(Plus(Plus(pbOut, Used), frameLen), pbOut) = Used + frameLen
    BY <1>1, Ahead DEF RingTypes
  <2> QED
    BY <1>1, <1>3, <2>1, <2>2, Bounds DEF Used, Index
<1>8. owed' = Bytes(ring', pbOut, Used + frameLen)
  <2> DEFINE u == Used
             b == Bytes(ring', pbOut, u + frameLen)
  <2>1. /\ Len(owed) = u
        /\ \A k \in 1 .. u : owed[k] = ring[Plus(pbOut, k - 1)]
    BY <1>1, BytesInRing, ZenonT(40)
       DEF RingInv, RingLossless, RingTypes, FromRing, Bytes
  <2>2. /\ owed' \in Seq(Byte) /\ Len(owed') = u + frameLen
        /\ \A k \in 1 .. u + frameLen :
             owed'[k] = IF k <= u THEN owed[k] ELSE f[k - u]
    BY <1>1, <1>2, <1>3, <2>1, ConcatProperties DEF RingTypes
  <2>3. u + frameLen \in Index
    BY <1>1, <1>7, Bounds
  <2>4. /\ b \in Seq(Byte) /\ Len(b) = u + frameLen
        /\ \A k \in 1 .. u + frameLen : b[k] = ring'[Plus(pbOut, k - 1)]
    BY <1>1, <1>4, <2>3, BytesInRing DEF RingTypes
  <2>5. ASSUME NEW k \in 1 .. u + frameLen
        PROVE  owed'[k] = b[k]
    <3>1. k - 1 \in Index /\ k - 1 \in 0 .. u + frameLen - 1
      BY <1>1, Bounds
    <3> DEFINE i == Plus(pbOut, k - 1)
    <3>2. i \in Index
      BY <1>1, <3>1, Arithmetic DEF RingTypes
    <3>3. /\ k - 1 < u => Minus(i, pbIn) >= frameLen
          /\ ~(k - 1 < u) => Minus(i, pbIn) = k - 1 - u
      BY <1>1, <3>1, Bounds, Beside DEF RingTypes, Used
    <3>4. Minus(i, pbIn) \in Nat /\ u \in Nat
      BY <1>1, <3>2, Bounds, Arithmetic DEF RingTypes
    <3>5. /\ ring'[i] = IF Minus(i, pbIn) + 1 <= frameLen
                        THEN f[Minus(i, pbIn) + 1] ELSE ring[i]
          /\ b[k] = ring'[i]
      BY <1>3, <2>4, <3>2
    <3> HIDE DEF u, b
    <3>6. CASE k <= u
      <4>1. ring'[i] = ring[i]
        BY <1>1, <3>3, <3>4, <3>5, <3>6
      <4>2. owed[k] = ring[i] /\ owed'[k] = owed[k]
        BY <2>1, <2>2, <3>6
      <4> QED
        BY <3>5, <4>1, <4>2
    <3>7. CASE k > u
      <4>1. Minus(i, pbIn) + 1 = k - u
        BY <3>3, <3>4, <3>7
      <4>2. ring'[i] = f[k - u]
        BY <1>1, <3>4, <3>5, <4>1
      <4> QED
        BY <2>2, <3>4, <3>5, <3>7, <4>2
    <3> QED
      BY <3>4, <3>6, <3>7
  <2> HIDE DEF u, b
  <2> QED
    BY <2>2, <2>4, <2>5, SeqEqual DEF u, b
<1>9. (RingLossless)'
  BY <1>3, <1>7, <1>8 DEF RingLossless, FromRing, Bytes
<1> QED
  BY <1>3, <1>6, <1>9 DEF RingInv

\* The notification holds what the phone is owed first; sending it leaves the
\* rest.
LEMMA RingSent ==
  ASSUME RingInv, NotifySent
  PROVE  /\ RingInv'
         /\ \A k \in DOMAIN note : k \in DOMAIN owed /\ note[k] = owed[k]
         /\ \A k \in DOMAIN owed' : \E j \in DOMAIN owed : owed'[k] = owed[j]
<1>1. RingTypes /\ Used \in Index
  BY UsedInRing DEF RingInv
<1>2. PICK n \in 0 .. Used : note = Bytes(ring, pbOut, n)
  BY DEF RingInv, NotifySent, FromRing, Bytes
<1>3. n \in Index /\ n \in Nat /\ Used \in Nat /\ n <= Used
  BY <1>1, <1>2, Bounds
<1>4. /\ note \in Seq(Byte) /\ Len(note) = n
      /\ \A k \in 1 .. n : note[k] = ring[Plus(pbOut, k - 1)]
  BY <1>1, <1>2, <1>3, BytesInRing DEF RingTypes
<1>5. /\ owed \in Seq(Byte) /\ Len(owed) = Used
      /\ \A k \in 1 .. Used : owed[k] = ring[Plus(pbOut, k - 1)]
  BY <1>1, BytesInRing DEF RingInv, RingLossless, RingTypes, FromRing, Bytes
<1>6. \A k \in 1 .. n : note[k] = owed[k]
  BY <1>3, <1>4, <1>5
<1>7. IsPrefix(note, owed)
  <2> DEFINE s == SubSeq(note, 1, n)
             t == SubSeq(owed, 1, n)
  <2>1. \A k \in 1 .. n : note[k] \in Byte /\ owed[k] \in Byte
    BY <1>3, <1>4, <1>5, ElementOfSeq
  <2>2. s \in Seq(Byte) /\ Len(s) = n /\ \A k \in 1 .. n : s[k] = note[k]
    BY <1>3, <2>1, SubSeqProperties
  <2>3. t \in Seq(Byte) /\ Len(t) = n /\ \A k \in 1 .. n : t[k] = owed[k]
    BY <1>3, <2>1, SubSeqProperties
  <2> HIDE DEF s, t
  <2>4. s = t
    BY <1>6, <2>2, <2>3, SeqEqual
  <2> QED
    BY <1>3, <1>4, <1>5, <2>4 DEF IsPrefix, s, t
<1>8. /\ owed' = SubSeq(owed, n + 1, Used) /\ pbOut' = Plus(pbOut, n)
      /\ UNCHANGED <<ring, pbIn, conns, frames, mtu, parse, frameLen>>
      /\ notify' = "pend"
  BY <1>4, <1>5, <1>7 DEF NotifySent, stack, bounds, app, parser
<1>9. /\ owed' \in Seq(Byte) /\ Len(owed') = Used - n
      /\ \A k \in 1 .. Used - n : owed'[k] = owed[n + k]
  <2>1. \A k \in n + 1 .. Used : owed[k] \in Byte
    BY <1>3, <1>5, ElementOfSeq
  <2> HIDE DEF Used
  <2>2. /\ owed' \in Seq(Byte)
        /\ Len(owed') = IF n + 1 <= Used THEN Used - (n + 1) + 1 ELSE 0
        /\ \A k \in 1 .. Used - (n + 1) + 1 : owed'[k] = owed[n + 1 + k - 1]
    BY <1>3, <1>8, <2>1, SubSeqProperties
  <2> QED
    BY <1>3, <2>2
<1>10. RingTypes' /\ Used' = Used - n /\ Used' \in Index
  <2>1. RingTypes'
    BY <1>1, <1>3, <1>8, <1>9, Arithmetic DEF RingTypes
  <2>2. Used' = Used - n
    BY <1>1, <1>3, <1>8, Behind DEF RingTypes, Used
  <2>3. Used' \in Index
    BY <2>1, UsedInRing
  <2> QED
    BY <2>1, <2>2, <2>3
<1>11. owed' = Bytes(ring, pbOut', Used - n)
  <2> DEFINE u == Used - n
             b == Bytes(ring, pbOut', u)
  <2>1. u \in Index /\ u \in Nat
    BY <1>3, <1>10, Bounds
  <2>2. /\ b \in Seq(Byte) /\ Len(b) = u
        /\ \A k \in 1 .. u : b[k] = ring[Plus(pbOut', k - 1)]
    BY <1>1, <1>10, <2>1, BytesInRing DEF RingTypes
  <2>3. ASSUME NEW k \in 1 .. u
        PROVE  owed'[k] = b[k]
    <3>1. k - 1 \in Index /\ n + k - 1 \in Index /\ n + (k - 1) < RingSize
          /\ n + k \in 1 .. Used /\ n + (k - 1) = n + k - 1
      BY <1>1, <1>3, <2>1, Bounds
    <3>2. Plus(Plus(pbOut, n), k - 1) = Plus(pbOut, n + k - 1)
      BY <1>1, <1>3, <3>1, Ahead DEF RingTypes
    <3> HIDE DEF u, b
    <3>3. b[k] = ring[Plus(pbOut, n + k - 1)]
      BY <1>8, <2>2, <3>2
    <3>4. owed'[k] = owed[n + k]
      BY <1>9 DEF u
    <3>5. owed[n + k] = ring[Plus(pbOut, n + k - 1)]
      BY <1>5, <3>1
    <3> QED
      BY <3>3, <3>4, <3>5
  <2> HIDE DEF u, b
  <2> QED
    BY <1>9, <2>2, <2>3, SeqEqual DEF u, b
<1>12. RingInv'
  <2>1. RingLossless'
    BY <1>8, <1>10, <1>11 DEF RingLossless, FromRing, Bytes
  <2>2. parse = "forward" =>
          frameLen \in Nat /\ frameLen \in FrameLen
          /\ Used + frameLen < RingSize
    BY Bounds DEF RingInv
  <2>3. parse = "forward" =>
          frameLen \in FrameLen /\ Used - n + frameLen < RingSize
    BY <1>3, <2>2, Bounds
  <2> QED
    BY <1>8, <1>10, <2>1, <2>3 DEF RingInv
<1>13. \A k \in DOMAIN note : k \in DOMAIN owed /\ note[k] = owed[k]
  <2>1. DOMAIN note = 1 .. n /\ DOMAIN owed = 1 .. Used
    BY <1>4, <1>5, LenProperties
  <2> QED
    BY <1>3, <1>6, <2>1
<1>14. \A k \in DOMAIN owed' : \E j \in DOMAIN owed : owed'[k] = owed[j]
  <2>1. DOMAIN owed' = 1 .. Used - n /\ DOMAIN owed = 1 .. Used
    BY <1>5, <1>9, LenProperties
  <2> QED
    BY <1>3, <1>9, <2>1
<1> QED
  BY <1>12, <1>13, <1>14

LEMMA RingNext == ConnInv /\ RingInv /\ [Next]_vars => ConnInv' /\ RingInv'
<1> SUFFICES ASSUME ConnInv, RingInv, [Next]_vars PROVE RingInv'
  BY ConnNext
<1>1. RingTypes /\ Used \in Index /\ Used \in Nat
  BY UsedInRing, Bounds DEF RingInv
<1>2. CASE WriteRing
  BY <1>2, RingWritten
<1>3. CASE NotifySent
  BY <1>3, RingSent
<1>4. CASE NotifyFlush
  <2>1. /\ pbOut' = pbIn /\ owed' = <<>> /\ notify' = "pend"
        /\ UNCHANGED <<ring, pbIn, conns, frames, mtu, parse, frameLen>>
    BY <1>4 DEF NotifyFlush, notifier, stack, bounds, app, parser
  <2>2. RingTypes' /\ Used' = 0
    BY <1>1, <2>1, EmptySeq, Arithmetic DEF RingTypes, Used
  <2>3. Bytes(ring', pbOut', 0) = <<>>
    BY <2>2, Bounds, BytesInRing, EmptySeq DEF RingTypes
  <2>4. RingLossless'
    BY <2>1, <2>2, <2>3 DEF RingLossless, FromRing, Bytes
  <2>5. parse' = "forward" =>
          frameLen' \in FrameLen /\ 0 + frameLen' < RingSize
    BY <2>1, Bounds DEF RingInv
  <2> QED
    BY <2>1, <2>2, <2>4, <2>5 DEF RingInv
<1>5. CASE NotifyTake
  <2>1. /\ UNCHANGED <<ring, pbIn, pbOut, owed, conns, frames, mtu>>
        /\ UNCHANGED <<parse, frameLen>>
        /\ note' = FromRing(IF Used > mtu THEN mtu ELSE Used)
    BY <1>5 DEF NotifyTake, ringVars, stack, bounds, app, parser
  <2>2. (IF Used > mtu THEN mtu ELSE Used) \in 0 .. Used
    BY <1>1 DEF RingTypes, DefaultMtu, LargeMtu
  <2>3. RingTypes' /\ Used' = Used /\ RingLossless'
    BY <1>1, <2>1 DEF RingTypes, Used, RingInv, RingLossless, FromRing
  <2>4. \E n \in 0 .. Used' : note' = FromRing(n)'
    BY <2>1, <2>2, <2>3 DEF FromRing
  <2> QED
    BY <2>1, <2>3, <2>4 DEF RingInv
<1>6. CASE ForwardFrame
  <2>1. /\ UNCHANGED <<ring, pbIn, pbOut, owed, conns, mtu, notify, note>>
        /\ frames' = frames + 1
        /\ frameLen' \in FrameLen /\ Used + frameLen' < RingSize
    BY <1>6 DEF ForwardFrame, ringVars, stack, app, notifier
  <2> QED
    BY <1>1, <2>1 DEF RingTypes, RingInv, RingLossless, FromRing, Used
<1>7. CASE \/ UNCHANGED vars \/ PhoneConnect \/ PhoneDisconnect
           \/ PhoneExchangesMtu \/ PhoneSubscribes \/ PhoneWritesPiece
           \/ Handler \/ ReportState \/ ReportDropped \/ AdvCtrl \/ AdvStart
           \/ NotifyFailed \/ FromPhone
  <2>1. /\ UNCHANGED <<ring, pbIn, pbOut, owed, frames, frameLen>>
        /\ mtu' \in {mtu, LargeMtu}
        /\ parse' = "forward" => parse = "forward"
        /\ notify' = "send" => notify = "send" /\ note' = note
    BY <1>7 DEF vars, PhoneConnect, PhoneDisconnect, PhoneExchangesMtu,
                PhoneSubscribes, PhoneWritesPiece, Handler, Opened, Closed,
                MtuExchanged, Written, RetrySignal, ReportState,
                ReportDropped, AdvCtrl, AdvStart, NotifyFailed, FromPhone,
                ringVars, bounds, parser, notifier, app
  <2>2. conns' \in Nat
    BY ConnNext DEF ConnInv
  <2> QED
    BY <1>1, <2>1, <2>2
       DEF RingTypes, RingInv, RingLossless, FromRing, Used
<1> QED
  BY <1>2, <1>3, <1>4, <1>5, <1>6, <1>7 DEF Next, Notify

LEMMA RingInvariant == Spec => [](ConnInv /\ RingInv)
<1> QED
  BY ConnInit, RingInit, RingNext, PTL DEF Spec

\* notify_array loses, repeats and reorders no byte, for every length of the
\* frames and the ring, as long as the host leaves no more unread than it
\* holds (ptr_plus, ptr_minus, Ble_Notify_Task).
THEOREM RingKeepsOrder == Spec => []RingLossless
<1>1. RingInv => RingLossless
  BY DEF RingInv
<1> QED
  BY <1>1, RingInvariant, PTL

-----------------------------------------------------------------------------
(* Whose frames they are.                                                  *)

NoChange == \A i \in DOMAIN events : events[i] \notin Change

\* Everything in the ring was written during the present connection, or the
\* last; and once the ring was flushed nothing enters it, or asks for it, until
\* a phone connects.
OwnInv ==
  /\ \A k \in DOMAIN owed : owed[k][1] = conns
  /\ settled /\ conn = 0 =>
       /\ owed = <<>> /\ notify = "pend" /\ parse # "forward"
       /\ connState = 0 /\ NoChange

LEMMA OwnInit == Init => OwnInv
<1> SUFFICES ASSUME Init PROVE OwnInv
  OBVIOUS
<1>1. DOMAIN <<>> = {}
  OBVIOUS
<1> QED
  BY <1>1 DEF Init, OwnInv, NoChange

\* Without changes under way the events of the stack leave the connection
\* alone.
LEMMA NoChangeStays ==
  ASSUME ConnInv, NoChange, Handler \/ AdvStart
  PROVE  NoChange' /\ connState' = connState
<1>1. events \in Seq(StackEvent) /\ "retry" \in StackEvent \ Change
  BY DEF ConnInv, StackEvent, Change
<1>2. ASSUME NEW q \in Seq(StackEvent), \A i \in DOMAIN q : q[i] \notin Change
      PROVE  \A i \in DOMAIN Signalled(q) : Signalled(q)[i] \notin Change
  BY <1>1, <1>2, AppendEvent DEF Signalled
<1>3. CASE Handler
  <2>1. events # <<>>
    BY <1>3 DEF Handler, Event, Opened, Closed, MtuExchanged, Written,
                RetrySignal
  <2>2. /\ Tail(events) \in Seq(StackEvent)
        /\ \A i \in DOMAIN Tail(events) : Tail(events)[i] \notin Change
        /\ Head(events) \notin Change
    BY <1>1, <2>1, TailEvent DEF NoChange
  <2>3. /\ events' = Tail(events) \/ events' = Signalled(Tail(events))
        /\ connState' = connState
    BY <1>3, <2>2 DEF Handler, Event, Opened, Closed, MtuExchanged, Written,
                      RetrySignal, StartAdvertising, app, Change
  <2> QED
    BY <1>2, <2>2, <2>3 DEF NoChange
<1>4. CASE AdvStart
  <2>1. /\ events' = events \/ events' = Signalled(events)
        /\ connState' = connState
    BY <1>4 DEF AdvStart, StartAdvertising, app
  <2> QED
    BY <1>1, <1>2, <2>1 DEF NoChange
<1> QED
  BY <1>3, <1>4

LEMMA OwnNext ==
  ASSUME SlowReopen, ConnInv, RingInv, OwnInv, [Next]_vars
  PROVE  OwnInv'
<1> USE DEF OwnInv
<1>1. CASE PhoneConnect
  <2>1. /\ conn' # 0 /\ owed' = owed /\ owed = <<>>
    BY <1>1 DEF PhoneConnect, ConnInv
  <2>2. DOMAIN owed' = {}
    BY <2>1
  <2> QED
    BY <2>1, <2>2
<1>2. CASE PhoneDisconnect
  BY <1>2 DEF PhoneDisconnect
<1>3. CASE WriteRing
  <2> DEFINE f == Frame(conns, frames, frameLen)
  <2>1. /\ owed \in Seq(Byte) /\ conns \in Nat /\ frames \in Nat
        /\ frameLen \in Nat
    BY <1>3, Bounds DEF RingInv, RingTypes, WriteRing
  <2>2. /\ f \in Seq(Byte) /\ Len(f) = frameLen
        /\ \A k \in 1 .. frameLen : f[k] = <<conns, frames, k>>
    BY <2>1, FrameUnits
  <2>3. owed' = owed \o f /\ conns' = conns
    BY <1>3 DEF WriteRing, stack
  <2> HIDE DEF f
  <2>4. /\ Len(owed) \in Nat /\ DOMAIN owed = 1 .. Len(owed)
        /\ DOMAIN owed' = 1 .. Len(owed) + frameLen
        /\ \A k \in 1 .. Len(owed) + frameLen :
             owed'[k] = IF k <= Len(owed) THEN owed[k] ELSE f[k - Len(owed)]
    <3>1. Len(owed) \in Nat /\ DOMAIN owed = 1 .. Len(owed)
      BY <2>1, LenProperties
    <3>2. /\ owed \o f \in Seq(Byte) /\ Len(owed \o f) = Len(owed) + Len(f)
          /\ \A k \in 1 .. Len(owed) + Len(f) :
               (owed \o f)[k] =
                 IF k <= Len(owed) THEN owed[k] ELSE f[k - Len(owed)]
      <4>1. owed \in Seq(Byte) /\ f \in Seq(Byte)
        BY <2>1, <2>2
      <4> QED
        BY ONLY <4>1, ConcatProperties
    <3>3. DOMAIN owed' = 1 .. Len(owed) + frameLen
      BY <2>2, <2>3, <3>2, LenProperties
    <3> QED
      BY <2>2, <2>3, <3>1, <3>2, <3>3
  <2>5. ASSUME NEW k \in DOMAIN owed' PROVE owed'[k][1] = conns
    <3>1. CASE k <= Len(owed)
      BY <2>4, <3>1
    <3>2. CASE k > Len(owed)
      <4>1. k - Len(owed) \in 1 .. frameLen
        BY <2>1, <2>4, <3>2
      <4> QED
        BY <2>2, <2>4, <3>2, <4>1
    <3> QED
      BY <2>4, <3>1, <3>2
  <2>6. ~(settled' /\ conn' = 0)
    BY <1>3 DEF WriteRing, stack
  <2> QED
    BY <2>3, <2>5, <2>6
<1>4. CASE NotifySent
  <2>1. /\ \A k \in DOMAIN owed' : \E j \in DOMAIN owed : owed'[k] = owed[j]
        /\ conns' = conns
    BY <1>4, RingSent DEF NotifySent, stack
  <2>2. ~(settled' /\ conn' = 0)
    BY <1>4 DEF NotifySent, stack
  <2> QED
    BY <2>1, <2>2
<1>5. CASE NotifyFlush
  <2>1. /\ owed' = <<>> /\ settled' = (settled \/ Quiet) /\ notify' = "pend"
        /\ connState = 0
        /\ UNCHANGED <<conn, conns, events, connState, parse>>
    BY <1>5 DEF NotifyFlush, notifier, stack, app, parser
  <2>2. DOMAIN owed' = {}
    BY <2>1
  <2>3. ASSUME Quiet, conn = 0 PROVE NoChange /\ parse # "forward"
    <3>1. \A i \in DOMAIN events : events[i] # "closed"
      BY <2>3 DEF Quiet, Contains
    <3>2. EndsClosed(events)
      BY <2>3 DEF ConnInv
    <3> QED
      BY <2>3, <3>1, <3>2 DEF EndsClosed, NoChange, Change, Quiet
  <2> QED
    BY <2>1, <2>2, <2>3 DEF NoChange
<1>6. CASE Handler \/ AdvStart
  <2>1. /\ UNCHANGED <<owed, conns, conn, settled, notify>>
        /\ parse' = "forward" => parse = "forward"
    BY <1>6 DEF Handler, Opened, Closed, MtuExchanged, Written, RetrySignal,
                AdvStart, stack, notifier, parser
  <2> QED
    BY <1>6, <2>1, NoChangeStays
<1>7. CASE ForwardFrame \/ NotifyTake
  <2>1. UNCHANGED <<owed, conns, conn, settled>> /\ connState = 1
    BY <1>7 DEF ForwardFrame, NotifyTake, stack
  <2> QED
    BY <2>1
<1>8. CASE PhoneExchangesMtu \/ PhoneWritesPiece
  <2>1. UNCHANGED <<owed, conns, conn, settled>> /\ conn # 0
    BY <1>8 DEF PhoneExchangesMtu, PhoneWritesPiece, stack
  <2> QED
    BY <2>1
<1>9. CASE \/ UNCHANGED vars \/ PhoneSubscribes \/ ReportState
           \/ ReportDropped \/ AdvCtrl \/ NotifyFailed \/ FromPhone
  <2>1. /\ UNCHANGED <<owed, conns, conn, settled, connState, events>>
        /\ parse' = "forward" => parse = "forward"
        /\ notify' \in {notify, "pend"}
    BY <1>9 DEF vars, PhoneSubscribes, ReportState, ReportDropped, AdvCtrl,
                NotifyFailed, FromPhone, stack, app, notifier, parser
  <2> QED
    BY <2>1 DEF NoChange
<1> QED
  BY <1>1, <1>2, <1>3, <1>4, <1>5, <1>6, <1>7, <1>8, <1>9 DEF Next, Notify

\* A notification carries nothing but what was written for the phone that gets
\* it, for every number of connections, if none opens before Ble_Notify_Task
\* has flushed the ring (Ble_Notify_Task).
THEOREM OwnFrames == SlowReopen => (Spec => NoStaleFrames)
<1> SUFFICES ASSUME SlowReopen PROVE Spec => NoStaleFrames
  OBVIOUS
<1> DEFINE Inv == ConnInv /\ RingInv /\ OwnInv
<1>1. Init => Inv
  BY ConnInit, RingInit, OwnInit
<1>2. Inv /\ [Next]_vars => Inv'
  BY RingNext, OwnNext
<1>3. Inv /\ [Next]_vars =>
        [NotifySent => \A k \in DOMAIN note : note[k][1] = conn]_vars
  <2> SUFFICES ASSUME Inv, NotifySent, NEW k \in DOMAIN note
               PROVE  note[k][1] = conn
    OBVIOUS
  <2>1. k \in DOMAIN owed /\ note[k] = owed[k]
    BY RingSent
  <2> QED
    BY <2>1 DEF OwnInv, ConnInv, NotifySent, Accepts
<1> HIDE DEF Inv
<1> QED
  BY <1>1, <1>2, <1>3, PTL DEF Spec, NoStaleFrames

-----------------------------------------------------------------------------
(* The frames of the phone.                                                *)

WriteEvents(q) == {i \in DOMAIN q : q[i] = "write"}

LEMMA WriteAppended ==
  ASSUME NEW q \in Seq(StackEvent), NEW e \in StackEvent
  PROVE  /\ Cardinality(WriteEvents(q)) \in Nat
         /\ Cardinality(WriteEvents(Append(q, e))) =
              Cardinality(WriteEvents(q)) + (IF e = "write" THEN 1 ELSE 0)
<1> DEFINE a == Append(q, e)
<1>1. /\ Len(q) \in Nat /\ DOMAIN q = 1 .. Len(q)
      /\ DOMAIN a = 1 .. Len(q) + 1
      /\ \A i \in 1 .. Len(q) : a[i] = q[i]
      /\ a[Len(q) + 1] = e
  BY AppendEvent
<1>2. IsFiniteSet(WriteEvents(q))
  <2>1. WriteEvents(q) \subseteq 1 .. Len(q) /\ IsFiniteSet(1 .. Len(q))
    BY <1>1, FS_Interval DEF WriteEvents
  <2> QED
    BY <2>1, FS_Subset
<1>3. CASE e = "write"
  <2>1. WriteEvents(a) = WriteEvents(q) \cup {Len(q) + 1}
    BY <1>1, <1>3 DEF WriteEvents
  <2>2. Len(q) + 1 \notin WriteEvents(q)
    BY <1>1 DEF WriteEvents
  <2> QED
    BY <1>2, <1>3, <2>1, <2>2, FS_AddElement, FS_CardinalityType
<1>4. CASE e # "write"
  <2>1. WriteEvents(a) = WriteEvents(q)
    BY <1>1, <1>4 DEF WriteEvents
  <2> QED
    BY <1>2, <1>4, <2>1, FS_CardinalityType
<1> QED
  BY <1>3, <1>4

LEMMA WriteHandled ==
  ASSUME NEW q \in Seq(StackEvent), q # <<>>
  PROVE  /\ Cardinality(WriteEvents(q)) \in Nat
         /\ Cardinality(WriteEvents(Tail(q))) =
              Cardinality(WriteEvents(q))
              - (IF Head(q) = "write" THEN 1 ELSE 0)
         /\ Head(q) = "write" => Cardinality(WriteEvents(q)) # 0
<1> DEFINE t == Tail(q)
           rest == WriteEvents(q) \ {1}
<1>1. /\ Head(q) = q[1] /\ Len(q) \in Nat \ {0} /\ DOMAIN q = 1 .. Len(q)
      /\ DOMAIN t = 1 .. Len(q) - 1
      /\ \A i \in 1 .. Len(q) - 1 : t[i] = q[i + 1]
  BY TailEvent
<1>2. IsFiniteSet(WriteEvents(q)) /\ Cardinality(WriteEvents(q)) \in Nat
  <2>1. WriteEvents(q) \subseteq 1 .. Len(q) /\ IsFiniteSet(1 .. Len(q))
    BY <1>1, FS_Interval DEF WriteEvents
  <2> QED
    BY <2>1, FS_Subset, FS_CardinalityType
<1>3. 1 \in WriteEvents(q) <=> Head(q) = "write"
  BY <1>1 DEF WriteEvents
<1>4. /\ IsFiniteSet(rest)
      /\ Cardinality(rest) = Cardinality(WriteEvents(q))
                             - (IF Head(q) = "write" THEN 1 ELSE 0)
  BY <1>2, <1>3, FS_RemoveElement
<1>5. ExistsBijection(rest, WriteEvents(t))
  <2> DEFINE m == [i \in rest |-> i - 1]
  <2>1. \A i \in rest : i - 1 \in WriteEvents(t) /\ i \in Int
    BY <1>1 DEF WriteEvents
  <2>2. \A j \in WriteEvents(t) : j + 1 \in rest /\ j = (j + 1) - 1
    BY <1>1 DEF WriteEvents
  <2> HIDE DEF rest
  <2>3. m \in Injection(rest, WriteEvents(t))
    BY <2>1 DEF Injection, IsInjective
  <2>4. m \in Surjection(rest, WriteEvents(t))
    BY <2>1, <2>2 DEF Surjection
  <2> QED
    BY <2>3, <2>4 DEF ExistsBijection, Bijection
<1>6. Cardinality(WriteEvents(t)) = Cardinality(rest)
  BY <1>4, <1>5, FS_Bijection
<1>7. Head(q) = "write" => Cardinality(WriteEvents(q)) # 0
  BY <1>2, <1>3, FS_EmptySet
<1> QED
  BY <1>2, <1>4, <1>6, <1>7

LEMMA WriteSignalled ==
  ASSUME NEW q \in Seq(StackEvent)
  PROVE  Cardinality(WriteEvents(Signalled(q))) = Cardinality(WriteEvents(q))
<1>1. "retry" \in StackEvent /\ "retry" # "write"
  BY DEF StackEvent
<1> QED
  BY <1>1, WriteAppended DEF Signalled

\* Every write of the phone that is not handled has its event.
RecvInv ==
  /\ PhoneInv
  /\ Len(writes) = Cardinality(WriteEvents(events))

LEMMA RecvInit == Init => RecvInv
<1> SUFFICES ASSUME Init PROVE RecvInv
  OBVIOUS
<1>1. DOMAIN <<>> = {} /\ Len(<<>>) = 0
  OBVIOUS
<1>2. WriteEvents(events) = {}
  BY <1>1 DEF Init, WriteEvents
<1> QED
  BY <1>1, <1>2, PhoneStarts, FS_EmptySet DEF Init, RecvInv, PhoneInit

LEMMA RecvNext ==
  ASSUME ConnInv, RecvInv, [Next]_vars
  PROVE  RecvInv'
<1>1. /\ PhoneInv /\ events \in Seq(StackEvent)
      /\ writes \in Seq(Seq(Piece)) /\ Len(writes) \in Nat
      /\ Len(writes) = Cardinality(WriteEvents(events))
  BY LenProperties DEF RecvInv, ConnInv, PhoneInv, BytesInv
<1>2. ASSUME UNCHANGED phoneVars PROVE PhoneInv' /\ writes' = writes
  BY <1>1, <1>2 DEF PhoneInv, BytesInv, ParserInv, phoneVars, recvRing,
                    phoneParser
<1>3. CASE PhoneConnect \/ PhoneExchangesMtu
  <2>1. PICK e \in {"opened", "mtu"} : events' = Append(events, e)
    BY <1>3 DEF PhoneConnect, PhoneExchangesMtu
  <2>2. UNCHANGED phoneVars /\ e \in StackEvent /\ e # "write"
    BY <1>3 DEF PhoneConnect, PhoneExchangesMtu, StackEvent
  <2> QED
    BY <1>1, <1>2, <2>1, <2>2, WriteAppended DEF RecvInv
<1>4. CASE PhoneDisconnect
  <2>1. PhoneGone /\ events' = Append(events, "closed")
    BY <1>4 DEF PhoneDisconnect
  <2> QED
    BY <1>1, <2>1, PhoneLeft, WriteAppended DEF RecvInv, StackEvent
<1>5. CASE PhoneWritesPiece
  <2>1. PhoneWrites /\ events' = Append(events, "write")
    BY <1>5 DEF PhoneWritesPiece
  <2>2. PICK w \in Seq(Piece) : writes' = Append(writes, w)
    BY <1>1, <2>1, PhoneWrote
  <2>3. Len(writes') = Len(writes) + 1
    BY <1>1, <2>2, AppendProperties
  <2> QED
    BY <1>1, <2>1, <2>3, PhoneWrote, WriteAppended DEF RecvInv, StackEvent
<1>6. CASE Written
  <2>1. /\ events # <<>> /\ Head(events) = "write" /\ events' = Tail(events)
        /\ StoreWrite
    BY <1>6 DEF Written, Event
  <2>2. writes # <<>>
    BY <1>1, <2>1, WriteHandled, EmptySeq
  <2>3. Len(writes') = Len(writes) - 1
    BY <1>1, <2>1, <2>2, WriteStored, HeadTailProperties
  <2> QED
    BY <1>1, <2>1, <2>2, <2>3, WriteStored, WriteHandled DEF RecvInv
<1>7. CASE Opened \/ Closed \/ MtuExchanged \/ RetrySignal
  <2>1. /\ events # <<>> /\ Head(events) # "write" /\ UNCHANGED phoneVars
        /\ events' = Tail(events) \/ events' = Signalled(Tail(events))
    BY <1>7 DEF Opened, Closed, MtuExchanged, RetrySignal, StartAdvertising,
                Event
  <2>2. Tail(events) \in Seq(StackEvent)
    BY <1>1, <2>1, TailEvent
  <2>3. Cardinality(WriteEvents(Tail(events))) =
          Cardinality(WriteEvents(events))
    BY <1>1, <2>1, WriteHandled
  <2> QED
    BY <1>1, <1>2, <2>1, <2>2, <2>3, WriteSignalled DEF RecvInv
<1>8. CASE AdvStart
  <2>1. /\ UNCHANGED phoneVars
        /\ events' = events \/ events' = Signalled(events)
    BY <1>8 DEF AdvStart, StartAdvertising
  <2> QED
    BY <1>1, <1>2, <2>1, WriteSignalled DEF RecvInv
<1>9. CASE FromPhone
  <2>1. (GetUnit \/ HandOver) /\ events' = events
    BY <1>9 DEF FromPhone
  <2> QED
    BY <1>1, <2>1, UnitTaken, FrameHandedOver DEF RecvInv
<1>10. CASE \/ UNCHANGED vars \/ PhoneSubscribes \/ ReportState
            \/ ReportDropped \/ ForwardFrame \/ WriteRing \/ AdvCtrl
            \/ Notify
  <2>1. UNCHANGED phoneVars /\ events' = events
    BY <1>10 DEF vars, PhoneSubscribes, ReportState, ReportDropped,
                 ForwardFrame, WriteRing, AdvCtrl, Notify, NotifyFlush,
                 NotifyTake, NotifySent, NotifyFailed
  <2> QED
    BY <1>1, <1>2, <2>1 DEF RecvInv
<1> QED
  BY <1>3, <1>4, <1>5, <1>6, <1>7, <1>8, <1>9, <1>10 DEF Next, Handler

\* ble_get_data never writes behind ble_recv_buf, whatever the phones write
\* and wherever a disconnection cuts it off, for every length of the frames
\* and every size of the buffers (App_Ble_Parse_Task, ble_get_data).
THEOREM RecvBufferHolds == Spec => []PhoneFrameFits
<1> DEFINE Inv == ConnInv /\ RecvInv
<1>1. Init => Inv
  BY ConnInit, RecvInit
<1>2. Inv /\ [Next]_vars => Inv'
  BY ConnNext, RecvNext
<1>3. Inv => PhoneFrameFits
  BY PhoneFits DEF RecvInv
<1> HIDE DEF Inv
<1> QED
  BY <1>1, <1>2, <1>3, PTL DEF Spec

-----------------------------------------------------------------------------
(* The order of the frames of the phone.                                   *)

LEMMA WayNext ==
  ASSUME ConnInv, RecvInv, WayInv, [Next]_vars
  PROVE  WayInv'
<1>1. /\ PhoneInv /\ events \in Seq(StackEvent)
      /\ writes \in Seq(Seq(Piece)) /\ Len(writes) \in Nat
      /\ Len(writes) = Cardinality(WriteEvents(events))
  BY LenProperties DEF RecvInv, ConnInv, PhoneInv, BytesInv
<1>2. CASE PhoneDisconnect
  BY <1>2, LeftFlow DEF PhoneDisconnect
<1>3. CASE PhoneWritesPiece
  BY <1>3, WroteFlow DEF PhoneWritesPiece
<1>4. CASE Written
  <2>1. events # <<>> /\ Head(events) = "write" /\ StoreWrite
    BY <1>4 DEF Written, Event
  <2>2. writes # <<>>
    BY <1>1, <2>1, WriteHandled, EmptySeq
  <2> QED
    BY <2>1, <2>2, StoredFlow
<1>5. CASE FromPhone
  <2>1. GetUnit \/ HandOver
    BY <1>5 DEF FromPhone
  <2> QED
    BY <2>1, TakenFlow, HandedFlow
<1>6. CASE \/ UNCHANGED vars \/ PhoneConnect \/ PhoneExchangesMtu
           \/ PhoneSubscribes \/ Opened \/ Closed \/ MtuExchanged
           \/ RetrySignal \/ ReportState \/ ReportDropped \/ ForwardFrame
           \/ WriteRing \/ AdvCtrl \/ AdvStart \/ Notify
  <2>1. UNCHANGED phoneVars
    BY <1>6 DEF vars, PhoneConnect, PhoneExchangesMtu, PhoneSubscribes,
                Opened, Closed, MtuExchanged, RetrySignal, ReportState,
                ReportDropped, ForwardFrame, WriteRing, AdvCtrl, AdvStart,
                Notify, NotifyFlush, NotifyTake, NotifySent, NotifyFailed
  <2> QED
    BY <2>1, WayStays
<1> QED
  BY <1>2, <1>3, <1>4, <1>5, <1>6 DEF Next, Handler

LEMMA WayInvariant == Spec => [](ConnInv /\ RecvInv /\ WayInv)
<1> DEFINE Inv == ConnInv /\ RecvInv /\ WayInv
<1>1. Init => Inv
  BY ConnInit, RecvInit, WayStarts DEF Init
<1>2. Inv /\ [Next]_vars => Inv'
  BY ConnNext, RecvNext, WayNext
<1> HIDE DEF Inv
<1>3. Spec => []Inv
  BY <1>1, <1>2, PTL DEF Spec
<1> QED
  BY <1>3 DEF Inv

\* App_Ble_Parse_Task lists the frames of the phone whole and in order, up to
\* the first that a disconnection cut, for every length of the frames, every
\* size of ble_recv_array, every way to cut the frames into writes and every
\* number of connections (ble_get_data, gatt_server_user_write_request).
THEOREM PhoneFramesWhole == Spec => PhoneFramesIntact
<1> DEFINE Inv == ConnInv /\ RecvInv /\ WayInv
<1>1. Inv => [HandOver /\ InStep =>
                got = PhoneFrame(lastFrame + 1, Len(got))]_phoneVars
  BY HandedFlow
<1>2. Spec => []Inv
  BY WayInvariant
<1> HIDE DEF Inv
<1> QED
  BY <1>1, <1>2, PTL DEF PhoneFramesIntact

-----------------------------------------------------------------------------
(* The types.                                                              *)

\* TypeOK, but for what the other invariants tell.
FlagTypes ==
  /\ subscribed \in BOOLEAN /\ advertising \in BOOLEAN
  /\ missed \in BOOLEAN /\ settled \in BOOLEAN
StateTypes ==
  /\ att \in {DefaultMtu, LargeMtu} /\ mtu \in {DefaultMtu, LargeMtu}
  /\ evTask \in {"pend", "opened", "closed"} /\ hostView \in {0, 1}
  /\ parse \in {"idle", "forward", "adv"} /\ frameLen \in FrameLen \cup {0}
  /\ notify \in {"pend", "send"}
CountTypes ==
  /\ conns \in 0 .. MaxConns /\ frames \in 0 .. MaxFrames
  /\ ctrls \in 0 .. MaxCtrl /\ busy \in 0 .. MaxBusy
LinkTypes == FlagTypes /\ StateTypes /\ CountTypes

\* The units in the ring, in the notification and those the phone is owed.
LinkUnits ==
  /\ ring \in [Index -> Unit] /\ note \in Seq(Unit) /\ owed \in Seq(Unit)

LEMMA TypesInit == Init => LinkTypes /\ LinkUnits
<1> SUFFICES ASSUME Init PROVE LinkTypes /\ LinkUnits
  OBVIOUS
<1>1. <<0, 0, 0>> \in Unit
  BY LinkAssumption DEF Unit
<1>2. ring \in [Index -> Unit]
  BY <1>1 DEF Init, Index
<1>3. note \in Seq(Unit) /\ owed \in Seq(Unit)
  BY EmptySeq DEF Init
<1>4. FlagTypes
  BY DEF Init, FlagTypes
<1>5. StateTypes
  BY DEF Init, StateTypes
<1>6. CountTypes
  <2>1. conns = 0 /\ frames = 0 /\ ctrls = 0 /\ busy = 0
    BY DEF Init
  <2> QED
    BY <2>1, LinkAssumption DEF CountTypes
<1> QED
  BY <1>2, <1>3, <1>4, <1>5, <1>6 DEF LinkTypes, LinkUnits

LEMMA FlagsNext ==
  ASSUME FlagTypes, [Next]_vars
  PROVE  FlagTypes'
<1>1. CASE \/ PhoneConnect \/ PhoneSubscribes \/ PhoneDisconnect
           \/ PhoneExchangesMtu \/ PhoneWritesPiece
  BY <1>1 DEF FlagTypes, PhoneConnect, PhoneSubscribes, PhoneDisconnect,
         PhoneExchangesMtu, PhoneWritesPiece, stack, told
<1>2. CASE \/ Closed \/ RetrySignal \/ AdvStart
  BY <1>2 DEF FlagTypes, Closed, RetrySignal, AdvStart, StartAdvertising,
         PostEvent, stack, told
<1>3. CASE \/ Opened \/ ReportState \/ ReportDropped
  BY <1>3 DEF FlagTypes, Opened, ReportState, ReportDropped, PostEvent,
         stack, told
<1>4. CASE Notify
  BY <1>4 DEF FlagTypes, Notify, NotifyFlush, NotifyTake, NotifySent,
         NotifyFailed, stack, told
<1>5. CASE \/ UNCHANGED vars \/ MtuExchanged \/ Written \/ ForwardFrame
           \/ WriteRing \/ AdvCtrl \/ FromPhone
  BY <1>5 DEF FlagTypes, MtuExchanged, Written, ForwardFrame,
         WriteRing, AdvCtrl, FromPhone, stack, told, vars
<1> QED
  BY <1>1, <1>2, <1>3, <1>4, <1>5 DEF Next, Handler

LEMMA StatesNext ==
  ASSUME StateTypes, [Next]_vars
  PROVE  StateTypes'
<1>1. CASE \/ PhoneConnect \/ PhoneExchangesMtu \/ MtuExchanged
  BY <1>1 DEF StateTypes, PhoneConnect, PhoneExchangesMtu, MtuExchanged,
         stack, app, told, parser, notifier
<1>2. CASE \/ Opened \/ Closed \/ ReportState \/ ReportDropped
  BY <1>2 DEF StateTypes, Opened, Closed, ReportState, ReportDropped,
         PostEvent, StateOf, stack, app, told, parser, notifier
<1>3. CASE \/ ForwardFrame \/ WriteRing \/ AdvCtrl \/ AdvStart
  BY <1>3 DEF StateTypes, ForwardFrame, WriteRing, AdvCtrl, AdvStart, stack,
         app, told, parser, notifier
<1>4. CASE Notify
  BY <1>4 DEF StateTypes, Notify, NotifyFlush, NotifyTake, NotifySent,
         NotifyFailed, stack, app, told, parser, notifier
<1>5. CASE \/ UNCHANGED vars \/ PhoneDisconnect \/ PhoneSubscribes
           \/ PhoneWritesPiece \/ Written \/ RetrySignal \/ FromPhone
  BY <1>5 DEF StateTypes, PhoneDisconnect, PhoneSubscribes,
         PhoneWritesPiece, Written, RetrySignal, FromPhone, stack, app, told,
         parser, notifier, vars
<1> QED
  BY <1>1, <1>2, <1>3, <1>4, <1>5 DEF Next, Handler

LEMMA CountsNext ==
  ASSUME CountTypes, phoneFrames \in Nat, [Next]_vars
  PROVE  CountTypes'
<1>0. /\ MaxConns \in Nat /\ MaxFrames \in Nat /\ MaxBusy \in Nat
      /\ MaxCtrl \in Nat /\ FrameLen \subseteq Nat \ {0}
  BY LinkAssumption
<1>1. CASE \/ PhoneConnect \/ ForwardFrame \/ AdvCtrl
  BY <1>0, <1>1 DEF CountTypes, PhoneConnect, ForwardFrame, AdvCtrl, stack,
         bounds
<1>2. CASE \/ Closed \/ RetrySignal \/ AdvStart
  BY <1>0, <1>2 DEF CountTypes, Closed, RetrySignal, AdvStart,
         StartAdvertising, stack, bounds
<1>3. CASE \/ UNCHANGED vars \/ PhoneDisconnect \/ PhoneExchangesMtu
           \/ PhoneSubscribes \/ PhoneWritesPiece \/ Opened \/ MtuExchanged
           \/ Written \/ ReportState \/ ReportDropped \/ WriteRing \/ Notify
           \/ FromPhone
  BY <1>0, <1>3 DEF CountTypes, PhoneDisconnect,
         PhoneExchangesMtu, PhoneSubscribes, PhoneWritesPiece, Opened,
         MtuExchanged, Written, ReportState, ReportDropped, WriteRing,
         Notify, NotifyFlush, NotifyTake, NotifySent, NotifyFailed,
         FromPhone, stack, bounds, vars
<1> QED
  BY <1>1, <1>2, <1>3 DEF Next, Handler

LEMMA TypesNext ==
  ASSUME LinkTypes, phoneFrames \in Nat, [Next]_vars
  PROVE  LinkTypes'
BY FlagsNext, StatesNext, CountsNext DEF LinkTypes

LEMMA UnitsNext ==
  ASSUME RingInv, LinkTypes, LinkUnits, [Next]_vars
  PROVE  LinkUnits'
<1>1. /\ ring \in [Index -> Unit] /\ note \in Seq(Unit)
      /\ owed \in Seq(Unit)
  BY DEF LinkUnits
<1>2. pbIn \in Index /\ pbOut \in Index
  BY DEF RingInv, RingTypes
<1>3. CASE WriteRing
  <2> DEFINE f == Frame(conns, frames, frameLen)
  <2>1. /\ frameLen \in Nat /\ frameLen < RingSize /\ RingSize \in Nat
        /\ conns \in 0 .. MaxConns /\ frames \in 0 .. MaxFrames
    BY <1>3, Bounds DEF WriteRing, RingInv, LinkTypes, CountTypes
  <2>2. \A k \in 1 .. frameLen : <<conns, frames, k>> \in Unit
    BY <2>1 DEF Unit
  <2>3. f \in [1 .. frameLen -> Unit]
    BY <2>2 DEF Frame
  <2> HIDE DEF f
  <2>4. f \in Seq(Unit) /\ Len(f) = frameLen
    BY ONLY <2>1, <2>3
  <2>5. owed' \in Seq(Unit)
    <3>1. owed' = owed \o f
      BY <1>3 DEF WriteRing, f
    <3> QED
      BY <1>1, <2>4, <3>1, ConcatProperties
  <2>6. ring' \in [Index -> Unit]
    <3>1. ring' = [i \in Index |->
                     IF Minus(i, pbIn) + 1 <= frameLen
                     THEN f[Minus(i, pbIn) + 1] ELSE ring[i]]
      BY <1>1, <1>3 DEF WriteRing, f
    <3>2. ASSUME NEW i \in Index, Minus(i, pbIn) + 1 <= frameLen
          PROVE  f[Minus(i, pbIn) + 1] \in Unit
      <4>1. Minus(i, pbIn) \in Nat
        BY <1>2, Bounds, Arithmetic
      <4>2. Minus(i, pbIn) + 1 \in 1 .. frameLen
        BY <2>1, <3>2, <4>1
      <4> QED
        BY <2>3, <4>2
    <3> QED
      BY <1>1, <3>1, <3>2
  <2>7. note' = note
    BY <1>3 DEF WriteRing, notifier
  <2> QED
    BY <1>1, <2>5, <2>6, <2>7 DEF LinkUnits
<1>4. CASE NotifyTake
  <2>1. /\ UNCHANGED <<ring, owed>>
        /\ note' = FromRing(IF Used > mtu THEN mtu ELSE Used)
    BY <1>4 DEF NotifyTake, ringVars
  <2>2. Used \in Index /\ Used \in Nat
    BY UsedInRing, Bounds DEF RingInv
  <2>3. (IF Used > mtu THEN mtu ELSE Used) \in 0 .. Used
    BY <2>2 DEF LinkTypes, StateTypes, DefaultMtu, LargeMtu
  <2>4. ASSUME NEW n \in 0 .. Used PROVE FromRing(n) \in Seq(Unit)
    <3>1. n \in Nat /\ \A k \in 1 .. n : k - 1 \in Index
      BY <2>2, Bounds
    <3>2. \A k \in 1 .. n : ring[Plus(pbOut, k - 1)] \in Unit
      BY <1>1, <1>2, <3>1, Arithmetic
    <3>3. FromRing(n) \in [1 .. n -> Unit]
      BY <3>2 DEF FromRing
    <3> HIDE DEF FromRing
    <3> QED
      BY ONLY <3>1, <3>3
  <2> QED
    BY <1>1, <2>1, <2>3, <2>4 DEF LinkUnits
<1>5. CASE NotifySent
  <2>1. ring' = ring /\ note' = <<>>
    BY <1>5 DEF NotifySent
  <2>2. CASE IsPrefix(note, owed)
    <3>1. Len(note) \in 0 .. Len(owed)
      BY <1>1, <2>2, LenProperties DEF IsPrefix
    <3>2. owed' = SubSeq(owed, Len(note) + 1, Len(owed))
      BY <1>5, <2>2 DEF NotifySent
    <3>3. owed' \in Seq(Unit)
      BY <1>1, <3>1, <3>2, SuffixType
    <3> QED
      BY <1>1, <2>1, <3>3, EmptySeq DEF LinkUnits
  <2>3. CASE ~IsPrefix(note, owed)
    BY <1>1, <1>5, <2>1, <2>3, EmptySeq DEF LinkUnits, NotifySent
  <2> QED
    BY <2>2, <2>3
<1>6. CASE \/ UNCHANGED vars \/ PhoneConnect \/ PhoneDisconnect
           \/ PhoneExchangesMtu \/ PhoneSubscribes \/ PhoneWritesPiece
           \/ Handler \/ ReportState \/ ReportDropped \/ ForwardFrame
           \/ AdvCtrl \/ AdvStart \/ NotifyFlush \/ NotifyFailed
           \/ FromPhone
  <2>1. ring' = ring /\ note' \in {note, <<>>} /\ owed' \in {owed, <<>>}
    BY <1>6 DEF vars, PhoneConnect, PhoneDisconnect, PhoneExchangesMtu,
                PhoneSubscribes, PhoneWritesPiece, Handler, Opened, Closed,
                MtuExchanged, Written, RetrySignal, ReportState,
                ReportDropped, ForwardFrame, AdvCtrl, AdvStart, NotifyFlush,
                NotifyFailed, FromPhone, ringVars, notifier
  <2> QED
    BY <1>1, <2>1, EmptySeq DEF LinkUnits
<1> QED
  BY <1>3, <1>4, <1>5, <1>6 DEF Next, Notify

\* Every variable of the Bluetooth side keeps its type, for every number of
\* connections and frames and every size of the rings (app/ble.c,
\* app/uart_ptl.c).
THEOREM TypeCorrect == Spec => []TypeOK
<1> DEFINE Inv == ConnInv /\ RecvInv /\ WayInv /\ RingInv /\ LinkTypes
                  /\ LinkUnits
<1>1. Init => Inv
  BY ConnInit, RecvInit, WayStarts, RingInit, TypesInit DEF Init
<1>2. Inv /\ [Next]_vars => Inv'
  <2> SUFFICES ASSUME Inv, [Next]_vars PROVE Inv'
    OBVIOUS
  <2>1. ConnInv' /\ RecvInv' /\ WayInv' /\ RingInv'
    BY ConnNext, RecvNext, WayNext, RingNext
  <2>2. phoneFrames \in Nat
    BY DEF RecvInv, PhoneInv, BytesInv
  <2>3. LinkTypes' /\ LinkUnits'
    BY <2>2, TypesNext, UnitsNext
  <2> QED
    BY <2>1, <2>3
<1>3. Inv => TypeOK
  <2> SUFFICES ASSUME Inv PROVE TypeOK
    OBVIOUS
  <2>1. PhoneTypeOK
    BY PhoneTypes DEF WayInv
  <2>2. /\ conn \in 0 .. conns /\ conns \in 0 .. MaxConns
    BY DEF ConnInv, LinkTypes, CountTypes
  <2>3. /\ events \in Seq({"opened", "closed", "mtu", "write", "retry"})
        /\ connState \in {0, 1} /\ connHandle \in {0, Handle}
    BY DEF ConnInv, StackEvent
  <2>4. /\ ring \in [0 .. RingSize - 1 -> Unit] /\ pbIn \in 0 .. RingSize - 1
        /\ pbOut \in 0 .. RingSize - 1
        /\ note \in Seq(Unit) /\ owed \in Seq(Unit)
    BY DEF LinkUnits, RingInv, RingTypes, Index
  <2> QED
    BY <2>1, <2>2, <2>3, <2>4 DEF TypeOK, LinkTypes, FlagTypes, StateTypes,
                                   CountTypes
<1> HIDE DEF Inv
<1> QED
  BY <1>1, <1>2, <1>3, PTL DEF Spec
=============================================================================
