--------------------------- MODULE PhoneRxProofs ---------------------------
(***************************************************************************)
(* The parser of the phone's frames stays within ble_recv_buf and hands    *)
(* the frames on whole and in order, for every length of the frames, every *)
(* size of the buffers and every way to cut the frames into writes.  Here  *)
(* are the steps of PhoneRx; BleLinkProofs puts them together with those   *)
(* of the connection.                                                      *)
(***************************************************************************)
EXTENDS PhoneRx, ListLemmas, SequenceTheorems, TLAPS

\* A unit of a frame; the second tells the length of a frame.
Piece == {u \in Nat \X Nat \X Nat : u[2] = 2 => u[3] \in PhoneLen}

BytesInv ==
  /\ phoneFrames \in Nat
  /\ toWrite \in Seq(Piece) /\ writes \in Seq(Seq(Piece))
  /\ recv \in [0 .. RecvSize - 1 -> Piece]
  /\ recvIn \in 0 .. RecvSize - 1 /\ recvOut \in 0 .. RecvSize - 1

\* Between frames nothing is collected.  Within a frame what is collected and
\* what is still to come fit the buffer, and what is to come is at least the
\* checksum.
ParserInv ==
  /\ got \in Seq(Piece) /\ dataLen \in Nat
  /\ start \in BOOLEAN /\ job \in {"get", "send"}
  /\ start => /\ job = "get" /\ Len(got) > 0
              /\ Len(got) = 1 => dataLen = 0
              /\ Len(got) > 1 => dataLen > 0
              /\ Len(got) + dataLen <= MaxData + 2
  /\ ~start => /\ dataLen = 0 /\ Len(got) <= MaxData + 2
               /\ job = "get" => got = <<>>

PhoneInv == BytesInv /\ ParserInv

LEMMA PhoneSizes ==
  /\ MaxData \in Nat /\ RecvSize \in Nat \ {0}
  /\ \A n \in PhoneLen : n \in Nat /\ 2 < n
BY PhoneAssumption

LEMMA PhoneStarts == PhoneInit => PhoneInv
<1> SUFFICES ASSUME PhoneInit PROVE PhoneInv
  OBVIOUS
<1>1. <<0, 0, 0>> \in Piece
  BY DEF Piece
<1>2. /\ <<>> \in Seq(Piece) /\ <<>> \in Seq(Seq(Piece)) /\ Len(<<>>) = 0
  BY EmptySeq
<1>3. BytesInv
  BY <1>1, <1>2, PhoneSizes DEF PhoneInit, BytesInv
<1>4. /\ got = <<>> /\ dataLen = 0 /\ start = FALSE /\ job = "get"
      /\ 0 <= MaxData + 2
  BY PhoneSizes DEF PhoneInit
<1>5. ParserInv
  BY <1>2, <1>4 DEF ParserInv
<1> QED
  BY <1>3, <1>5 DEF PhoneInv

LEMMA PieceOfFrame ==
  ASSUME NEW f \in Nat, NEW n \in PhoneLen
  PROVE  PhoneFrame(f, n) \in Seq(Piece)
<1>1. n \in Nat /\ \A k \in 1 .. n : <<f, k, n>> \in Piece
  BY PhoneSizes DEF Piece
<1> QED
  BY <1>1 DEF PhoneFrame

LEMMA PhoneWrote ==
  ASSUME PhoneInv, PhoneWrites
  PROVE  PhoneInv' /\ \E w \in Seq(Piece) : writes' = Append(writes, w)
<1>1. PICK n \in PhoneLen :
        LET fresh == toWrite = <<>>
            rest == IF fresh THEN PhoneFrame(phoneFrames + 1, n) ELSE toWrite
        IN \E p \in 1 .. Len(rest) :
             /\ writes' = Append(writes, SubSeq(rest, 1, p))
             /\ toWrite' = SubSeq(rest, p + 1, Len(rest))
             /\ phoneFrames' = IF fresh THEN phoneFrames + 1 ELSE phoneFrames
  BY DEF PhoneWrites
<1> DEFINE rest == IF toWrite = <<>> THEN PhoneFrame(phoneFrames + 1, n)
                                     ELSE toWrite
<1>2. PICK p \in 1 .. Len(rest) :
        /\ writes' = Append(writes, SubSeq(rest, 1, p))
        /\ toWrite' = SubSeq(rest, p + 1, Len(rest))
        /\ phoneFrames' \in {phoneFrames, phoneFrames + 1}
  BY <1>1
<1>3. rest \in Seq(Piece) /\ phoneFrames + 1 \in Nat
  BY PieceOfFrame DEF PhoneInv, BytesInv
<1> HIDE DEF rest
<1>4. Len(rest) \in Nat /\ \A i \in 1 .. Len(rest) : rest[i] \in Piece
  BY <1>3, LenProperties, ElementOfSeq
<1>5. SubSeq(rest, 1, p) \in Seq(Piece)
  <2>1. \A i \in 1 .. p : rest[i] \in Piece
    BY <1>4
  <2> QED
    BY <2>1, <1>4, SubSeqProperties
<1>6. SubSeq(rest, p + 1, Len(rest)) \in Seq(Piece)
  <2>1. \A i \in p + 1 .. Len(rest) : rest[i] \in Piece
    BY <1>4
  <2> QED
    BY <2>1, <1>4, SubSeqProperties
<1>7. writes' \in Seq(Seq(Piece))
  BY <1>2, <1>5, AppendProperties DEF PhoneInv, BytesInv
<1>8. UNCHANGED <<recv, recvIn, recvOut, got, dataLen, start, job>>
  BY DEF PhoneWrites, recvRing, phoneParser
<1> QED
  BY <1>2, <1>3, <1>5, <1>6, <1>7, <1>8 DEF PhoneInv, BytesInv, ParserInv

LEMMA PhoneLeft ==
  ASSUME PhoneInv, PhoneGone
  PROVE  PhoneInv' /\ writes' = writes
BY EmptySeq DEF PhoneInv, BytesInv, ParserInv, PhoneGone, recvRing, phoneParser

LEMMA WriteStored ==
  ASSUME PhoneInv, writes # <<>>, StoreWrite
  PROVE  PhoneInv' /\ writes' = Tail(writes)
<1> DEFINE w == Head(writes)
<1>1. /\ writes' = Tail(writes) /\ Tail(writes) \in Seq(Seq(Piece))
      /\ w \in Seq(Piece)
  BY HeadTailProperties DEF PhoneInv, BytesInv, StoreWrite
<1>2. \A k \in DOMAIN w : w[k] \in Piece
  BY <1>1, LenProperties, ElementOfSeq
<1>3. recv' \in [0 .. RecvSize - 1 -> Piece]
  <2>1. ASSUME NEW i \in 0 .. RecvSize - 1
        PROVE  Filled(RecvSize, i, recvIn) + 1 <= Len(w) =>
                 w[Filled(RecvSize, i, recvIn) + 1] \in Piece
    <3>1. Filled(RecvSize, i, recvIn) \in 0 .. RecvSize - 1
      BY PhoneSizes, Distance DEF PhoneInv, BytesInv
    <3> QED
      BY <1>1, <1>2, <3>1, LenProperties
  <2>2. recv' = [i \in 0 .. RecvSize - 1 |->
                   IF Filled(RecvSize, i, recvIn) + 1 <= Len(w)
                   THEN w[Filled(RecvSize, i, recvIn) + 1] ELSE recv[i]]
    BY DEF PhoneInv, BytesInv, StoreWrite, Filled
  <2> QED
    BY <2>1, <2>2 DEF PhoneInv, BytesInv
<1>4. UNCHANGED <<phoneFrames, toWrite, recvOut, got, dataLen, start, job>>
  BY DEF StoreWrite, phoneParser
<1>5. recvIn' \in 0 .. RecvSize - 1
  <2>1. Len(w) \in Nat
    BY <1>1, LenProperties
  <2>2. recvIn' = (recvIn + Len(w)) % RecvSize
    BY DEF StoreWrite
  <2> HIDE DEF w
  <2> QED
    BY <2>1, <2>2, PhoneSizes DEF PhoneInv, BytesInv
<1> QED
  BY <1>1, <1>3, <1>4, <1>5 DEF PhoneInv, BytesInv, ParserInv

LEMMA UnitTaken ==
  ASSUME PhoneInv, GetUnit
  PROVE  PhoneInv' /\ writes' = writes
<1> DEFINE u == recv[recvOut]
<1>1. u \in Piece /\ recvOut' \in 0 .. RecvSize - 1
  BY PhoneSizes DEF PhoneInv, BytesInv, GetUnit, NextSlot
<1>2. BytesInv' /\ writes' = writes
  BY <1>1 DEF PhoneInv, BytesInv, GetUnit
<1>3. Len(got) \in Nat /\ Append(got, u) \in Seq(Piece)
      /\ Len(Append(got, u)) = Len(got) + 1
  BY <1>1, LenProperties, AppendProperties DEF PhoneInv, ParserInv
<1>4. <<u>> \in Seq(Piece) /\ Len(<<u>>) = 1 /\ <<>> \in Seq(Piece)
      /\ Len(<<>>) = 0
  BY <1>1, EmptySeq
<1>5. \A d \in LengthIn(u) : d \in Nat \ {0}
  BY <1>1, PhoneSizes DEF LengthIn, Piece
<1> HIDE DEF u
<1>6. CASE ~start /\ Skip
  BY <1>2, <1>6 DEF Skip, PhoneInv, ParserInv
<1>7. CASE ~start /\ start' = TRUE /\ got' = <<u>> /\ UNCHANGED <<dataLen, job>>
  <2>1. job = "get"
    BY DEF GetUnit
  <2> QED
    BY <1>2, <1>4, <1>7, <2>1, PhoneSizes DEF PhoneInv, ParserInv
<1>8. CASE start /\ Len(got) = 1 /\ TakeLength(u)
  <2>1. PICK d \in LengthIn(u) :
          \/ d > MaxData /\ Restart
          \/ /\ d <= MaxData /\ dataLen' = d /\ got' = Append(got, u)
             /\ UNCHANGED <<start, job>>
    BY <1>8 DEF TakeLength
  <2>2. CASE Restart
    <3>1. /\ start' = FALSE /\ got' = <<>> /\ dataLen' = 0 /\ job' = job
          /\ job \in {"get", "send"}
      BY <2>2 DEF Restart, PhoneInv, ParserInv
    <3>2. ~start' /\ start' \in BOOLEAN
      BY <3>1
    <3>3. got' \in Seq(Piece) /\ Len(got') = 0 /\ 0 <= MaxData + 2
      BY <1>4, <3>1, PhoneSizes
    <3> QED
      BY <1>2, <3>1, <3>2, <3>3 DEF PhoneInv, ParserInv
  <2>3. CASE d <= MaxData /\ dataLen' = d /\ got' = Append(got, u)
             /\ UNCHANGED <<start, job>>
    BY <1>2, <1>3, <1>5, <1>8, <2>3, PhoneSizes DEF PhoneInv, ParserInv
  <2> QED
    BY <2>1, <2>2, <2>3
<1>9. CASE start /\ Len(got) > 1 /\ TakeData(u)
  <2>1. /\ dataLen \in Nat /\ dataLen > 0 /\ job = "get"
        /\ Len(got) + dataLen <= MaxData + 2
    BY <1>9 DEF PhoneInv, ParserInv
  <2>2. /\ got' \in Seq(Piece) /\ Len(got') = Len(got) + 1
        /\ dataLen' = dataLen - 1 /\ dataLen' \in Nat
        /\ start' = (dataLen' # 0) /\ start' \in BOOLEAN
        /\ job' = IF dataLen' = 0 THEN "send" ELSE "get"
    BY <1>3, <1>9, <2>1 DEF TakeData
  <2>3. CASE dataLen' = 0
    <3>1. ~start'
      BY <2>2, <2>3
    <3>2. job' = "send" /\ Len(got') <= MaxData + 2
      BY <1>3, <2>1, <2>2, <2>3, PhoneSizes
    <3> QED
      BY <1>2, <2>2, <2>3, <3>1, <3>2 DEF PhoneInv, ParserInv
  <2>4. CASE dataLen' # 0
    <3>1. start'
      BY <2>2, <2>4
    <3>2. /\ job' = "get" /\ Len(got') > 1 /\ dataLen' > 0
          /\ Len(got') + dataLen' <= MaxData + 2
      BY <1>3, <1>9, <2>1, <2>2, <2>4, PhoneSizes
    <3> QED
      BY <1>2, <1>3, <2>2, <3>1, <3>2 DEF PhoneInv, ParserInv
  <2> QED
    BY <2>3, <2>4
<1> QED
  BY <1>2, <1>6, <1>7, <1>8, <1>9 DEF GetUnit, u

LEMMA FrameHandedOver ==
  ASSUME PhoneInv, HandOver
  PROVE  PhoneInv' /\ writes' = writes
BY EmptySeq, PhoneSizes
   DEF PhoneInv, BytesInv, ParserInv, HandOver, recvRing

LEMMA PhoneFits == PhoneInv => PhoneFrameFits
BY LenProperties, PhoneSizes DEF PhoneInv, ParserInv, PhoneFrameFits

-----------------------------------------------------------------------------
(* The frames on their way.                                                *)

\* The units on their way to the host, in order.
Stored == Between(recv, RecvSize, recvIn, recvOut)
Flow == got \o (Stored \o FlattenSeq(writes))

\* The phone leaves room for what it writes.
RoomInv ==
  Filled(RecvSize, recvIn, recvOut) + Len(FlattenSeq(writes)) < RecvSize

Triple == Nat \X Nat \X Nat

\* u is the m units of frame f of length n after its first j.
Stretch(u, f, n, j, m) ==
  /\ u \in Seq(Triple) /\ Len(u) = m
  /\ \A i \in 1 .. m : u[i] = <<f, j + i, n>>

\* What is still to write is the rest of the last frame.
RestInv ==
  toWrite # <<>> =>
    /\ phoneFrames > 0
    /\ \E n \in PhoneLen : \E j \in 1 .. n - 1 :
         Stretch(toWrite, phoneFrames, n, j, n - j)

\* Unit v comes next after unit u: in its frame, or as the first of the next.
Comes(u, v) ==
  IF u[2] < u[3] THEN v = <<u[1], u[2] + 1, u[3]>>
  ELSE \E n \in PhoneLen : v = <<u[1] + 1, 1, n>>

\* A stream s that goes on from unit to unit up to frame c, which was cut; it
\* begins with frame f.
Chain(s, c) ==
  \A i \in 1 .. Len(s) - 1 :
    c = 0 \/ s[i][1] < c => Comes(s[i], s[i + 1])
Begins(s, f) == s # <<>> => \E n \in PhoneLen : s[1] = <<f, 1, n>>

\* How it ends: with what is still to write, or with the last frame, or with a
\* frame not before the one that was cut.
Ends(s, c, rest, f) ==
  /\ c = 0 /\ rest # <<>> => s # <<>> /\ s[Len(s)][2] < s[Len(s)][3]
                             /\ Comes(s[Len(s)], rest[1])
  /\ c = 0 /\ rest = <<>> /\ s # <<>> =>
       s[Len(s)][1] = f /\ s[Len(s)][2] >= s[Len(s)][3]
  /\ c # 0 => s # <<>> /\ s[Len(s)][1] >= c

\* As long as no frame was cut that App_Ble_Parse_Task has reached, the units
\* on their way begin with the frame it lists next and go on up to the cut.
FlowInv ==
  InStep =>
    /\ Begins(Flow, lastFrame + 1) /\ Chain(Flow, cut)
    /\ Ends(Flow, cut, toWrite, phoneFrames)
    /\ Flow = <<>> => lastFrame = phoneFrames
    /\ Len(got) > 1 => Len(got) + dataLen = Flow[1][3]
    /\ job = "send" => Len(got) > 1

-----------------------------------------------------------------------------
(* Streams of units.                                                       *)

LEMMA FrameStretch ==
  ASSUME NEW f \in Nat, NEW n \in Nat
  PROVE  Stretch(PhoneFrame(f, n), f, n, 0, n)
<1> DEFINE u == PhoneFrame(f, n)
<1>1. \A i \in 1 .. n : <<f, i, n>> \in Triple
  BY DEF Triple
<1>2. u \in [1 .. n -> Triple]
  BY <1>1 DEF PhoneFrame
<1>3. u \in Seq(Triple) /\ Len(u) = n
  BY ONLY <1>2, n \in Nat
<1>4. \A i \in 1 .. n : u[i] = <<f, 0 + i, n>>
  BY DEF PhoneFrame
<1> HIDE DEF u
<1>5. Stretch(u, f, n, 0, n)
  BY ONLY <1>3, <1>4 DEF Stretch
<1> QED
  BY <1>5 DEF u

\* A stretch, cut in two.
LEMMA StretchCut ==
  ASSUME NEW f, NEW n, NEW j \in Nat, NEW m \in Nat, NEW p \in 1 .. m,
         NEW u, Stretch(u, f, n, j, m)
  PROVE  /\ Stretch(SubSeq(u, 1, p), f, n, j, p)
         /\ Stretch(SubSeq(u, p + 1, Len(u)), f, n, j + p, m - p)
<1> DEFINE v == SubSeq(u, 1, p)
           w == SubSeq(u, p + 1, Len(u))
<1>1. /\ u \in Seq(Triple) /\ Len(u) = m
      /\ \A i \in 1 .. m : u[i] = <<f, j + i, n>>
  BY DEF Stretch
<1>2. p \in Nat /\ p \in 0 .. Len(u)
  BY <1>1
<1>3. v \in Seq(Triple) /\ Len(v) = p /\ \A i \in 1 .. p : v[i] = u[i]
  BY <1>1, <1>2, PrefixType
<1>4. /\ w \in Seq(Triple) /\ Len(w) = m - p
      /\ \A i \in 1 .. m - p : w[i] = u[p + i]
  BY <1>1, <1>2, SuffixType
<1> HIDE DEF v, w
<1>5. ASSUME NEW i \in 1 .. p PROVE v[i] = <<f, j + i, n>>
  <2>1. i \in 1 .. m
    BY <1>2
  <2> QED
    BY ONLY <1>1, <1>3, <2>1, i \in 1 .. p
<1>6. ASSUME NEW i \in 1 .. m - p PROVE w[i] = <<f, (j + p) + i, n>>
  <2>1. p + i \in 1 .. m /\ j + (p + i) = (j + p) + i
    BY <1>2
  <2>2. u[p + i] = <<f, j + (p + i), n>>
    BY ONLY <1>1, <2>1
  <2> QED
    BY ONLY <1>4, <2>1, <2>2, i \in 1 .. m - p
<1>7. Stretch(v, f, n, j, p)
  BY ONLY <1>3, <1>5 DEF Stretch
<1>8. Stretch(w, f, n, j + p, m - p)
  BY ONLY <1>4, <1>6 DEF Stretch
<1> QED
  BY <1>7, <1>8 DEF v, w

\* What a write adds to a stream.
LEMMA ChainGrows ==
  ASSUME NEW s \in Seq(Triple), NEW c \in Nat, NEW w \in Seq(Triple),
         NEW f \in Nat, NEW n \in Nat, NEW j \in Nat, w # <<>>,
         Stretch(w, f, n, j, Len(w)), j + Len(w) <= n, Chain(s, c),
         s # <<>> => \/ c # 0 /\ s[Len(s)][1] >= c
                     \/ Comes(s[Len(s)], w[1])
  PROVE  Chain(s \o w, c)
<1> DEFINE t == s \o w
<1>1. /\ Len(s) \in Nat /\ Len(w) \in Nat /\ Len(t) = Len(s) + Len(w)
      /\ \A i \in 1 .. Len(s) + Len(w) :
           t[i] = IF i <= Len(s) THEN s[i] ELSE w[i - Len(s)]
  BY ConcatProperties, LenProperties
<1> HIDE DEF t
<1>3. ASSUME NEW i \in 1 .. Len(t) - 1, c = 0 \/ t[i][1] < c
      PROVE  Comes(t[i], t[i + 1])
  <2>1. CASE i < Len(s)
    <3>1. i \in 1 .. Len(s) - 1 /\ i \in 1 .. Len(s) + Len(w)
          /\ i + 1 \in 1 .. Len(s) + Len(w) /\ i <= Len(s) /\ i + 1 <= Len(s)
      BY <1>1, <2>1
    <3>2. t[i] = s[i] /\ t[i + 1] = s[i + 1]
      BY <1>1, <3>1
    <3> QED
      BY <1>3, <3>1, <3>2 DEF Chain
  <2>2. CASE i = Len(s)
    <3>1. i \in 1 .. Len(s) + Len(w) /\ i + 1 \in 1 .. Len(s) + Len(w)
          /\ i <= Len(s) /\ ~(i + 1 <= Len(s)) /\ i + 1 - Len(s) = 1
      BY <1>1, <2>2
    <3>2. t[i] = s[Len(s)] /\ t[i + 1] = w[1]
      BY <1>1, <2>2, <3>1
    <3>3. s # <<>> /\ s[Len(s)] \in Triple
      BY <2>2, <3>1, ElementOfSeq
    <3> DEFINE e == s[Len(s)][1]
    <3>4. e \in Nat /\ (c = 0 \/ e < c)
      BY <1>3, <3>2, <3>3 DEF Triple
    <3> HIDE DEF e
    <3>5. ~(c # 0 /\ e >= c)
      BY <3>4
    <3> QED
      BY <3>2, <3>3, <3>5 DEF e
  <2>3. CASE i > Len(s)
    <3> DEFINE k == i - Len(s)
    <3>0. Len(s) \in Nat /\ Len(w) \in Nat /\ Len(t) = Len(s) + Len(w)
      BY <1>1
    <3>1. /\ i \in 1 .. Len(s) + Len(w) /\ i + 1 \in 1 .. Len(s) + Len(w)
          /\ ~(i <= Len(s)) /\ ~(i + 1 <= Len(s))
          /\ k \in 1 .. Len(w) /\ k + 1 \in 1 .. Len(w)
          /\ i + 1 - Len(s) = k + 1 /\ j + k < n
      BY ONLY <3>0, <2>3, i \in 1 .. Len(t) - 1, j \in Nat, n \in Nat,
              j + Len(w) <= n
    <3>2. t[i] = w[k] /\ t[i + 1] = w[k + 1]
      BY <1>1, <3>1
    <3> HIDE DEF k
    <3>3. w[k] = <<f, j + k, n>> /\ w[k + 1] = <<f, (j + k) + 1, n>>
      <4>1. \A x \in 1 .. Len(w) : w[x] = <<f, j + x, n>>
        BY DEF Stretch
      <4>2. j + (k + 1) = (j + k) + 1
        BY <3>1
      <4> QED
        BY ONLY <3>1, <4>1, <4>2
    <3>4. j + k < n
      BY <3>1
    <3> QED
      BY <3>2, <3>3, <3>4 DEF Comes
  <2> QED
    BY <1>1, <2>1, <2>2, <2>3
<1>4. Chain(t, c)
  BY <1>3 DEF Chain
<1> QED
  BY <1>4 DEF t

\* s begins with the units of frame f.
Opens(s, f, n) == \A i \in 1 .. Len(s) : i <= n => s[i] = <<f, i, n>>

\* A frame that was not cut follows its beginning.
LEMMA ChainFrame ==
  ASSUME NEW s \in Seq(Triple), NEW c \in Nat, NEW f \in Nat, NEW n \in Nat,
         Chain(s, c), s # <<>>, s[1] = <<f, 1, n>>, c = 0 \/ f < c
  PROVE  Opens(s, f, n)
<1> DEFINE Good == {i \in Nat : i \in 1 .. Len(s) /\ i <= n =>
                                  s[i] = <<f, i, n>>}
<1>1. Len(s) \in Nat /\ 0 \in Good
  BY LenProperties
<1>2. ASSUME NEW i \in 1 .. Len(s), i - 1 \in Good PROVE i \in Good
  <2>1. CASE i = 1
    BY <2>1
  <2>2. CASE i > 1 /\ i <= n
    <3>1. i - 1 \in 1 .. Len(s) - 1 /\ i - 1 \in 1 .. Len(s) /\ i - 1 <= n
          /\ i - 1 < n /\ (i - 1) + 1 = i
      BY <1>1, <2>2
    <3>2. s[i - 1] = <<f, i - 1, n>>
      BY <1>2, <3>1
    <3>3. Comes(s[i - 1], s[(i - 1) + 1])
      BY <3>1, <3>2 DEF Chain
    <3>4. s[i] = <<f, (i - 1) + 1, n>>
      BY <3>1, <3>2, <3>3 DEF Comes
    <3> QED
      BY <3>1, <3>4
  <2>3. CASE i > n
    BY <1>1, <2>3
  <2> QED
    BY <1>1, <2>1, <2>2, <2>3
<1> HIDE DEF Good
<1>3. \A i \in 0 .. Len(s) : i \in Good
  BY <1>1, <1>2, InductionUpTo
<1> QED
  BY <1>1, <1>3 DEF Good, Opens

\* What is left of a stream when its first frame is taken out.
LEMMA ChainRest ==
  ASSUME NEW g \in Seq(Triple), NEW r \in Seq(Triple), NEW c \in Nat,
         NEW f \in Nat, NEW s, s = g \o r, g # <<>>, Chain(s, c),
         Begins(s, f), Len(g) = s[1][3], c = 0 \/ f < c
  PROVE  /\ g = PhoneFrame(f, Len(g))
         /\ Chain(r, c) /\ Begins(r, f + 1)
         /\ Len(g) \in PhoneLen /\ g[Len(g)] = <<f, Len(g), Len(g)>>
<1>1. /\ s \in Seq(Triple)
      /\ Len(g) \in Nat /\ Len(r) \in Nat /\ Len(s) = Len(g) + Len(r)
      /\ \A i \in 1 .. Len(g) + Len(r) :
           s[i] = IF i <= Len(g) THEN g[i] ELSE r[i - Len(g)]
  BY ConcatProperties, LenProperties
<1>2. Len(g) > 0 /\ s # <<>> /\ 1 <= Len(s)
  BY <1>1, EmptySeq
<1>3. PICK n \in PhoneLen : s[1] = <<f, 1, n>>
  BY <1>2 DEF Begins
<1>4. Len(g) = n /\ n \in Nat
  BY <1>1, <1>3, PhoneSizes
<1>5. \A i \in 1 .. Len(s) : i <= n => s[i] = <<f, i, n>>
  <2>1. Opens(s, f, n)
    BY <1>1, <1>2, <1>3, <1>4, ChainFrame
  <2> QED
    BY <2>1 DEF Opens
<1>6. \A i \in 1 .. n : g[i] = <<f, i, n>> /\ s[i] = <<f, i, n>>
  BY <1>1, <1>4, <1>5
<1>7. g = PhoneFrame(f, Len(g))
  <2>1. \A i \in 1 .. n : <<f, i, n>> \in Triple
    BY <1>4 DEF Triple
  <2> DEFINE h == PhoneFrame(f, n)
  <2>2. h = [k \in 1 .. n |-> <<f, k, n>>]
    BY DEF PhoneFrame
  <2>3. h \in [1 .. n -> Triple] /\ \A i \in 1 .. n : h[i] = <<f, i, n>>
    BY <2>1, <2>2
  <2> HIDE DEF h
  <2>4. h \in Seq(Triple) /\ Len(h) = n
    BY <1>4, <2>3
  <2>5. \A i \in 1 .. n : g[i] = h[i]
    BY <1>6, <2>3
  <2>6. g = h
    BY ONLY <1>4, <2>4, <2>5, g \in Seq(Triple), SeqEqual
  <2> QED
    BY <1>4, <2>6 DEF h
<1>8. Len(s) = Len(g) + Len(r) /\ Len(g) \in Nat /\ Len(r) \in Nat
  BY <1>1
<1>9. ASSUME NEW k \in Nat, k > Len(g), k <= Len(s)
      PROVE  s[k] = r[k - Len(g)]
  <2>1. k \in 1 .. Len(g) + Len(r) /\ ~(k <= Len(g))
    BY ONLY <1>8, <1>9, k \in Nat
  <2> QED
    BY <1>1, <2>1
<1>10. ASSUME NEW i \in 1 .. Len(r) - 1, c = 0 \/ r[i][1] < c
      PROVE  Comes(r[i], r[i + 1])
  <2> DEFINE k == Len(g) + i
  <2>1. /\ k \in Nat /\ k > Len(g) /\ k <= Len(s)
        /\ k + 1 \in Nat /\ k + 1 > Len(g) /\ k + 1 <= Len(s)
        /\ k - Len(g) = i /\ k + 1 - Len(g) = i + 1 /\ k \in 1 .. Len(s) - 1
    BY ONLY <1>8, i \in 1 .. Len(r) - 1
  <2> HIDE DEF k
  <2>2. s[k] = r[k - Len(g)] /\ s[k + 1] = r[k + 1 - Len(g)]
    BY ONLY <1>9, <2>1
  <2>3. s[k] = r[i] /\ s[k + 1] = r[i + 1]
    BY ONLY <2>1, <2>2
  <2>4. c = 0 \/ s[k][1] < c => Comes(s[k], s[k + 1])
    BY ONLY Chain(s, c), <2>1 DEF Chain
  <2> QED
    BY ONLY <1>10, <2>3, <2>4
<1>11. ASSUME r # <<>> PROVE \E m \in PhoneLen : r[1] = <<f + 1, 1, m>>
  <2>1. Len(r) > 0
    BY <1>8, <1>11, EmptySeq
  <2>2. /\ n \in 1 .. n /\ n \in 1 .. Len(s) - 1
        /\ n + 1 \in Nat /\ n + 1 > Len(g) /\ n + 1 <= Len(s)
        /\ n + 1 - Len(g) = 1
    BY ONLY <1>2, <1>4, <1>8, <2>1
  <2>3. s[n] = <<f, n, n>>
    BY ONLY <1>6, <2>2
  <2>4. s[n + 1] = r[n + 1 - Len(g)]
    BY ONLY <1>9, <2>2
  <2>5. s[n + 1] = r[1]
    BY ONLY <2>2, <2>4
  <2>6. s[n][1] = f /\ s[n][2] = n /\ s[n][3] = n
    BY ONLY <2>3
  <2>7. c = 0 \/ s[n][1] < c => Comes(s[n], s[n + 1])
    BY ONLY Chain(s, c), <2>2 DEF Chain
  <2>8. Comes(s[n], s[n + 1])
    BY ONLY <2>6, <2>7, c = 0 \/ f < c
  <2> QED
    BY ONLY <1>4, <2>5, <2>6, <2>8 DEF Comes
<1>12. Len(g) \in 1 .. n
  BY <1>2, <1>4
<1> QED
  BY <1>3, <1>4, <1>6, <1>7, <1>10, <1>11, <1>12 DEF Chain, Begins

\* Frame h is the last, f, if nothing of r is left.
IsLast(r, h, f) == r = <<>> => h = f

\* And how it ends.
LEMMA EndsRest ==
  ASSUME NEW g \in Seq(Triple), NEW r \in Seq(Triple), NEW c \in Nat,
         NEW rest, NEW f, NEW h \in Nat, NEW n \in Nat, NEW s, s = g \o r,
         g # <<>>, Ends(s, c, rest, f), g[Len(g)] = <<h, n, n>>,
         c = 0 \/ h < c
  PROVE  Ends(r, c, rest, f) /\ IsLast(r, h, f)
<1>1. /\ Len(g) \in Nat /\ Len(r) \in Nat /\ Len(s) = Len(g) + Len(r)
      /\ \A i \in 1 .. Len(g) + Len(r) :
           s[i] = IF i <= Len(g) THEN g[i] ELSE r[i - Len(g)]
  BY ConcatProperties, LenProperties
<1>2. Len(g) > 0 /\ (Len(r) = 0 <=> r = <<>>)
  BY <1>1, EmptySeq
<1>3. s # <<>>
  BY <1>1, <1>2, EmptySeq
<1>4. CASE r # <<>>
  <2>1. /\ Len(s) \in 1 .. Len(g) + Len(r) /\ ~(Len(s) <= Len(g))
        /\ Len(s) - Len(g) = Len(r)
    BY ONLY <1>1, <1>2, <1>4
  <2>2. s[Len(s)] = r[Len(r)]
    BY ONLY <1>1, <2>1
  <2> QED
    BY ONLY <1>3, <1>4, <2>2, Ends(s, c, rest, f) DEF Ends, IsLast
<1>5. CASE r = <<>>
  <2>1. Len(s) \in 1 .. Len(g) + Len(r) /\ Len(s) = Len(g)
        /\ Len(s) <= Len(g)
    BY ONLY <1>1, <1>2, <1>5
  <2>2. s[Len(s)] = <<h, n, n>>
    BY <1>1, <2>1
  <2>3. /\ s[Len(s)][1] = h /\ s[Len(s)][2] = n /\ s[Len(s)][3] = n
    BY ONLY <2>2
  <2>4. ~(n < n) /\ (c # 0 => ~(h >= c))
    OBVIOUS
  <2>5. c = 0 /\ rest = <<>> /\ h = f
    BY ONLY <1>3, <2>3, <2>4, Ends(s, c, rest, f) DEF Ends
  <2> QED
    BY ONLY <1>5, <2>5 DEF Ends, IsLast
<1> QED
  BY <1>4, <1>5

-----------------------------------------------------------------------------
(* The steps, seen in the stream.                                          *)

LEMMA FlowType ==
  ASSUME PhoneInv
  PROVE  /\ got \in Seq(Triple) /\ Stored \in Seq(Triple)
         /\ writes \in Seq(Seq(Triple)) /\ FlattenSeq(writes) \in Seq(Triple)
         /\ Stored \o FlattenSeq(writes) \in Seq(Triple)
         /\ Flow \in Seq(Triple)
         /\ Len(Stored) = Filled(RecvSize, recvIn, recvOut)
<1>1. Piece \subseteq Triple
  BY DEF Piece, Triple
<1>2. /\ got \in Seq(Triple) /\ writes \in Seq(Seq(Triple))
      /\ recv \in [0 .. RecvSize - 1 -> Triple]
  <2>1. Seq(Piece) \subseteq Seq(Triple)
    BY <1>1, SeqMonotonic
  <2>2. Seq(Seq(Piece)) \subseteq Seq(Seq(Triple))
    BY <2>1, SeqMonotonic
  <2>3. recv \in [0 .. RecvSize - 1 -> Triple]
    BY <1>1 DEF PhoneInv, BytesInv
  <2> QED
    BY <2>1, <2>2, <2>3 DEF PhoneInv, BytesInv, ParserInv
<1>3. /\ RecvSize \in Nat \ {0} /\ recvIn \in 0 .. RecvSize - 1
      /\ recvOut \in 0 .. RecvSize - 1
  BY PhoneSizes DEF PhoneInv, BytesInv
<1>4. /\ Stored \in Seq(Triple)
      /\ Len(Stored) = Filled(RecvSize, recvIn, recvOut)
  <2>1. IsRing(recv, RecvSize, Triple, recvIn, recvOut)
    BY <1>2, <1>3 DEF IsRing
  <2> QED
    BY <2>1, RingBytes DEF Stored
<1>5. FlattenSeq(writes) \in Seq(Triple)
  BY <1>2, FlattenType
<1>6. Stored \o FlattenSeq(writes) \in Seq(Triple)
  BY <1>4, <1>5, ConcatProperties
<1>7. Flow \in Seq(Triple)
  BY <1>2, <1>6, ConcatProperties DEF Flow
<1> QED
  BY <1>2, <1>4, <1>5, <1>6, <1>7

\* The phone writes w, the p units of a frame of length n after its first j.
Wrote(n, j, p, w) ==
  /\ writes' = Append(writes, w)
  /\ Stretch(w, phoneFrames', n, j, p)
  /\ Stretch(toWrite', phoneFrames', n, j + p, n - j - p)
  /\ Filled(RecvSize, recvIn, recvOut) + Len(FlattenSeq(writes)) + p < RecvSize
  /\ toWrite = <<>> => j = 0 /\ phoneFrames' = phoneFrames + 1
  /\ toWrite # <<>> => /\ phoneFrames' = phoneFrames
                       /\ toWrite[1] = <<phoneFrames, j + 1, n>>

LEMMA PieceWritten ==
  ASSUME PhoneInv, RestInv, PhoneWrites
  PROVE  \E n \in PhoneLen : \E j \in 0 .. n - 1 : \E p \in 1 .. n - j :
           \E w \in Seq(Triple) : Wrote(n, j, p, w)
<1>1. phoneFrames \in Nat /\ phoneFrames + 1 \in Nat
  BY DEF PhoneInv, BytesInv
<1>2. PICK l \in PhoneLen :
        LET fresh == toWrite = <<>>
            rest == IF fresh THEN PhoneFrame(phoneFrames + 1, l) ELSE toWrite
        IN \E p \in 1 .. Len(rest) :
             /\ Unread + Len(FlattenSeq(writes)) + p < RecvSize
             /\ writes' = Append(writes, SubSeq(rest, 1, p))
             /\ toWrite' = SubSeq(rest, p + 1, Len(rest))
             /\ phoneFrames' = IF fresh THEN phoneFrames + 1 ELSE phoneFrames
  BY DEF PhoneWrites
<1> DEFINE rest == IF toWrite = <<>> THEN PhoneFrame(phoneFrames + 1, l)
                                     ELSE toWrite
           f == phoneFrames'
<1>3. PICK p \in 1 .. Len(rest) :
        /\ Unread + Len(FlattenSeq(writes)) + p < RecvSize
        /\ writes' = Append(writes, SubSeq(rest, 1, p))
        /\ toWrite' = SubSeq(rest, p + 1, Len(rest))
        /\ f = IF toWrite = <<>> THEN phoneFrames + 1 ELSE phoneFrames
  BY <1>2
<1>4. PICK n \in PhoneLen, j \in Nat :
        /\ Stretch(rest, f, n, j, n - j)
        /\ j \in 0 .. n - 1
        /\ toWrite = <<>> => j = 0
  <2>1. CASE toWrite = <<>>
    <3>1. l \in Nat /\ 0 \in 0 .. l - 1 /\ l - 0 = l
      BY PhoneSizes
    <3>2. Stretch(PhoneFrame(phoneFrames + 1, l), phoneFrames + 1, l, 0, l)
      BY <1>1, <3>1, FrameStretch
    <3> QED
      BY <1>3, <2>1, <3>1, <3>2
  <2>2. CASE toWrite # <<>>
    <3>1. PICK n \in PhoneLen :
            \E j \in 1 .. n - 1 : Stretch(toWrite, phoneFrames, n, j, n - j)
      BY <2>2 DEF RestInv
    <3>2. PICK j \in 1 .. n - 1 : Stretch(toWrite, phoneFrames, n, j, n - j)
      BY <3>1
    <3>3. n \in Nat /\ j \in 0 .. n - 1 /\ j \in Nat
      BY PhoneSizes
    <3> QED
      BY <1>3, <2>2, <3>2, <3>3
  <2> QED
    BY <2>1, <2>2
<1> DEFINE m == n - j
           v == SubSeq(rest, 1, p)
           w == SubSeq(rest, p + 1, Len(rest))
<1>5. n \in Nat /\ j \in Nat /\ m \in Nat /\ m = n - j
  BY <1>4, PhoneSizes
<1>6. writes' = Append(writes, v) /\ toWrite' = w /\ Stretch(rest, f, n, j, m)
  BY <1>3, <1>4
<1>7. toWrite # <<>> => toWrite = rest /\ f = phoneFrames
  BY <1>3
<1> HIDE DEF rest, f, m
<1>8. /\ rest \in Seq(Triple) /\ Len(rest) = m /\ p \in 1 .. m
      /\ 1 \in 1 .. m /\ rest[1] = <<f, j + 1, n>>
  <2>1. rest \in Seq(Triple) /\ Len(rest) = m
    BY <1>6 DEF Stretch
  <2>2. p \in 1 .. m /\ 1 \in 1 .. m
    BY <1>5, <2>1
  <2> QED
    BY <1>6, <2>1, <2>2 DEF Stretch
<1>9. Stretch(v, f, n, j, p) /\ Stretch(w, f, n, j + p, m - p)
  BY <1>5, <1>6, <1>8, StretchCut
<1>10. m - p = n - j - p /\ p \in 1 .. n - j
  BY <1>5, <1>8
<1>11. v \in Seq(Triple)
  BY <1>9 DEF Stretch
<1>12. Unread = Filled(RecvSize, recvIn, recvOut)
  BY DEF Unread, Filled
<1> HIDE DEF v, w
<1>13. /\ writes' = Append(writes, v) /\ Stretch(v, f, n, j, p)
       /\ Stretch(toWrite', f, n, j + p, n - j - p)
       /\ Filled(RecvSize, recvIn, recvOut) + Len(FlattenSeq(writes)) + p
            < RecvSize
       /\ toWrite = <<>> => j = 0 /\ f = phoneFrames + 1
       /\ toWrite # <<>> => /\ f = phoneFrames
                            /\ toWrite[1] = <<phoneFrames, j + 1, n>>
  BY <1>3, <1>4, <1>6, <1>7, <1>8, <1>9, <1>10, <1>12
<1> QED
  BY <1>4, <1>10, <1>11, <1>13 DEF f, Wrote

\* What the phone writes continues the stream.
LEMMA FlowGrows ==
  ASSUME NEW s \in Seq(Triple), NEW w \in Seq(Triple), NEW c \in Nat,
         NEW rest, NEW h, NEW rest2, NEW f \in Nat, NEW n \in PhoneLen,
         NEW j \in Nat, NEW p \in Nat, NEW l \in Nat,
         j < n, p > 0, j + p <= n, Stretch(w, f, n, j, p),
         Stretch(rest2, f, n, j + p, n - j - p), c <= f,
         Chain(s, c), Begins(s, l + 1), Ends(s, c, rest, h),
         s = <<>> => l = h,
         rest = <<>> => j = 0 /\ f = h + 1,
         rest # <<>> => f = h /\ rest[1] = <<h, j + 1, n>>
  PROVE  /\ Chain(s \o w, c) /\ Begins(s \o w, l + 1)
         /\ Ends(s \o w, c, rest2, f) /\ s \o w # <<>>
         /\ s # <<>> => (s \o w)[1] = s[1]
<1> DEFINE t == s \o w
<1>1. n \in Nat
  BY PhoneSizes
<1>2. /\ w \in Seq(Triple) /\ Len(w) = p /\ w # <<>>
      /\ w[1] = <<f, j + 1, n>> /\ w[p] = <<f, j + p, n>>
  <2>1. Len(w) = p /\ \A i \in 1 .. p : w[i] = <<f, j + i, n>>
    BY DEF Stretch
  <2>2. 1 \in 1 .. p /\ p \in 1 .. p
    OBVIOUS
  <2>3. w # <<>>
    BY <2>1, EmptySeq
  <2> QED
    BY ONLY <2>1, <2>2, <2>3, w \in Seq(Triple)
<1>3. /\ Len(s) \in Nat /\ Len(t) = Len(s) + p /\ t \in Seq(Triple)
      /\ \A i \in 1 .. Len(s) + p :
           t[i] = IF i <= Len(s) THEN s[i] ELSE w[i - Len(s)]
  BY ONLY <1>2, s \in Seq(Triple), ConcatProperties, LenProperties
<1>4. /\ Len(s) = 0 <=> s = <<>>
      /\ s # <<>> => s[Len(s)] \in Triple
  BY ONLY <1>3, s \in Seq(Triple), EmptySeq, ElementOfSeq
<1> HIDE DEF t
<1>5. t # <<>> /\ t[Len(t)] = <<f, j + p, n>>
  <2>1. /\ Len(t) \in 1 .. Len(s) + p /\ ~(Len(t) <= Len(s))
        /\ Len(t) - Len(s) = p /\ Len(t) # 0
    BY ONLY <1>3, p \in Nat, p > 0
  <2>2. t[Len(t)] = w[Len(t) - Len(s)]
    BY ONLY <1>3, <2>1
  <2>3. t # <<>>
    BY ONLY <1>3, <2>1, EmptySeq
  <2> QED
    BY ONLY <1>2, <2>1, <2>2, <2>3
<1>6. s # <<>> => t[1] = s[1]
  <2>1. s # <<>> => 1 \in 1 .. Len(s) + p /\ 1 <= Len(s)
    BY ONLY <1>3, <1>4, p \in Nat
  <2> QED
    BY ONLY <1>3, <2>1
<1>7. s = <<>> => t[1] = <<f, j + 1, n>>
  <2>1. s = <<>> => 1 \in 1 .. Len(s) + p /\ ~(1 <= Len(s)) /\ 1 - Len(s) = 1
    BY ONLY <1>3, <1>4, p \in Nat, p > 0
  <2> QED
    BY ONLY <1>2, <1>3, <2>1
<1>8. Begins(t, l + 1)
  <2>1. CASE s # <<>>
    BY <1>6, <2>1 DEF Begins
  <2>2. CASE s = <<>>
    <3>1. rest = <<>> /\ c = 0
      BY <2>2 DEF Ends
    <3>2. t[1] = <<l + 1, 1, n>>
      BY <1>7, <2>2, <3>1
    <3> QED
      BY <3>2 DEF Begins
  <2> QED
    BY <2>1, <2>2
<1>9. s # <<>> => \/ c # 0 /\ s[Len(s)][1] >= c
                  \/ Comes(s[Len(s)], w[1])
  <2> SUFFICES ASSUME s # <<>>, c = 0 PROVE Comes(s[Len(s)], w[1])
    BY DEF Ends
  <2>1. CASE rest # <<>>
    BY <1>2, <2>1 DEF Ends
  <2>2. CASE rest = <<>>
    <3>1. /\ s[Len(s)][1] = h /\ s[Len(s)][2] >= s[Len(s)][3]
          /\ w[1] = <<h + 1, 1, n>>
      BY <1>2, <2>2 DEF Ends
    <3>2. s[Len(s)][2] \in Nat /\ s[Len(s)][3] \in Nat
      BY <1>4 DEF Triple
    <3>3. ~(s[Len(s)][2] < s[Len(s)][3])
      BY ONLY <3>1, <3>2
    <3> QED
      BY ONLY <3>1, <3>3, n \in PhoneLen DEF Comes
  <2> QED
    BY <2>1, <2>2
<1>10. Chain(t, c)
  <2>1. Stretch(w, f, n, j, Len(w)) /\ j + Len(w) <= n
    BY <1>2
  <2> QED
    BY ONLY <1>1, <1>2, <1>9, <2>1, s \in Seq(Triple), c \in Nat, f \in Nat,
            j \in Nat, Chain(s, c), ChainGrows DEF t
<1>11. Ends(t, c, rest2, f)
  <2> DEFINE e == t[Len(t)]
  <2>1. e[1] = f /\ e[2] = j + p /\ e[3] = n /\ e = <<f, j + p, n>>
    BY <1>5
  <2>2. /\ rest2 \in Seq(Triple) /\ Len(rest2) = n - j - p
        /\ \A i \in 1 .. n - j - p : rest2[i] = <<f, (j + p) + i, n>>
    BY DEF Stretch
  <2> HIDE DEF e
  <2>3. CASE rest2 # <<>>
    <3>1. j + p < n /\ 1 \in 1 .. n - j - p
      BY <1>1, <2>2, <2>3, EmptySeq
    <3>2. rest2[1] = <<f, (j + p) + 1, n>>
      BY ONLY <2>2, <3>1
    <3>3. e[2] < e[3] /\ Comes(e, rest2[1])
      BY ONLY <2>1, <3>1, <3>2 DEF Comes
    <3> QED
      BY ONLY <1>5, <2>1, <2>3, <3>3, c <= f DEF Ends, e
  <2>4. CASE rest2 = <<>>
    <3>1. j + p >= n
      BY <1>1, <2>2, <2>4, EmptySeq
    <3> QED
      BY ONLY <1>5, <2>1, <2>4, <3>1, c <= f DEF Ends, e
  <2> QED
    BY <2>3, <2>4
<1> QED
  BY <1>5, <1>6, <1>8, <1>10, <1>11 DEF t

-----------------------------------------------------------------------------
(* The types of the units.                                                 *)

UnitsUpTo(f) == {<<g, k, n>> : g \in 0 .. f, k \in 0 .. MaxData + 2,
                               n \in {0} \cup PhoneLen}

LEMMA UnitsMore ==
  ASSUME NEW f \in Nat, NEW g \in Nat, f <= g
  PROVE  UnitsUpTo(f) \subseteq UnitsUpTo(g)
<1>1. 0 .. f \subseteq 0 .. g
  OBVIOUS
<1> QED
  BY <1>1 DEF UnitsUpTo

LEMMA StretchUnits ==
  ASSUME NEW f \in Nat, NEW n \in PhoneLen, NEW j \in Nat, NEW m \in Nat,
         NEW u, Stretch(u, f, n, j, m), j + m <= n
  PROVE  u \in Seq(UnitsUpTo(f))
<1>1. n \in Nat /\ n <= MaxData + 2 /\ MaxData \in Nat
  BY PhoneAssumption
<1>2. u \in Seq(Triple) /\ Len(u) = m
      /\ \A i \in 1 .. m : u[i] = <<f, j + i, n>>
  BY DEF Stretch
<1>3. ASSUME NEW i \in 1 .. m PROVE u[i] \in UnitsUpTo(f)
  <2>1. f \in 0 .. f /\ j + i \in 0 .. MaxData + 2
    BY <1>1
  <2>2. u[i] = <<f, j + i, n>>
    BY ONLY <1>2, i \in 1 .. m
  <2>3. n \in {0} \cup PhoneLen
    OBVIOUS
  <2> QED
    BY ONLY <2>1, <2>2, <2>3 DEF UnitsUpTo
<1>4. u \in [1 .. m -> UnitsUpTo(f)]
  BY ONLY <1>2, <1>3
<1> QED
  BY ONLY <1>4, m \in Nat

\* PhoneTypeOK, but for what PhoneInv tells.
UnitsInv ==
  /\ phoneFrames \in Nat /\ cut \in 0 .. phoneFrames
  /\ lastFrame \in 0 .. phoneFrames
  /\ toWrite \in Seq(UnitsUpTo(phoneFrames))
  /\ writes \in Seq(Seq(UnitsUpTo(phoneFrames)))
  /\ recv \in [0 .. RecvSize - 1 -> UnitsUpTo(phoneFrames)]
  /\ got \in Seq(UnitsUpTo(phoneFrames))

LEMMA PhoneTypes == PhoneInv /\ UnitsInv => PhoneTypeOK
<1> SUFFICES ASSUME PhoneInv, UnitsInv PROVE PhoneTypeOK
  OBVIOUS
<1>1. PhoneUnit = UnitsUpTo(phoneFrames)
  BY DEF PhoneUnit, UnitsUpTo
<1>2. dataLen \in 0 .. MaxData
  <2> DEFINE l == Len(got)
  <2>1. l \in Nat /\ dataLen \in Nat /\ MaxData \in Nat
    BY LenProperties, PhoneSizes DEF PhoneInv, ParserInv
  <2>2. start => /\ l > 0
                 /\ l = 1 => dataLen = 0
                 /\ l + dataLen <= MaxData + 2
    BY DEF PhoneInv, ParserInv
  <2>3. ~start => dataLen = 0
    BY DEF PhoneInv, ParserInv
  <2> HIDE DEF l
  <2> QED
    BY <2>1, <2>2, <2>3
<1> QED
  BY <1>1, <1>2 DEF PhoneInv, BytesInv, ParserInv, UnitsInv, PhoneTypeOK

WayInv == PhoneInv /\ UnitsInv /\ RoomInv /\ RestInv /\ FlowInv

\* PhoneWrites.
LEMMA WroteFlow ==
  ASSUME WayInv, PhoneWrites
  PROVE  WayInv'
<1>1. PhoneInv /\ UnitsInv /\ RoomInv /\ RestInv /\ FlowInv
  BY DEF WayInv
<1>2. PICK n \in PhoneLen :
        \E j \in 0 .. n - 1 : \E p \in 1 .. n - j :
          \E w \in Seq(Triple) : Wrote(n, j, p, w)
  BY <1>1, PieceWritten
<1>3. PICK j \in 0 .. n - 1 :
        \E p \in 1 .. n - j : \E w \in Seq(Triple) : Wrote(n, j, p, w)
  BY <1>2
<1>4. PICK p \in 1 .. n - j : \E w \in Seq(Triple) : Wrote(n, j, p, w)
  BY <1>3
<1>5. PICK w \in Seq(Triple) :
        /\ writes' = Append(writes, w)
        /\ Stretch(w, phoneFrames', n, j, p)
        /\ Stretch(toWrite', phoneFrames', n, j + p, n - j - p)
        /\ Filled(RecvSize, recvIn, recvOut) + Len(FlattenSeq(writes)) + p
             < RecvSize
        /\ toWrite = <<>> => j = 0 /\ phoneFrames' = phoneFrames + 1
        /\ toWrite # <<>> => /\ phoneFrames' = phoneFrames
                             /\ toWrite[1] = <<phoneFrames, j + 1, n>>
  BY <1>4 DEF Wrote
<1>6. /\ n \in Nat /\ j \in Nat /\ p \in Nat /\ p > 0 /\ j < n /\ j + p <= n
      /\ n - j - p \in Nat /\ (j + p) + (n - j - p) <= n
  BY PhoneSizes
<1>7. UNCHANGED <<recv, recvIn, recvOut, start, got, dataLen, job, lastFrame,
                  cut>>
  BY DEF PhoneWrites, recvRing, phoneParser
<1>8. /\ phoneFrames \in Nat /\ phoneFrames' \in Nat
      /\ phoneFrames <= phoneFrames' /\ cut \in Nat /\ lastFrame \in Nat
      /\ cut <= phoneFrames /\ cut <= phoneFrames'
      /\ lastFrame <= phoneFrames /\ phoneFrames' > 0
  <2>1. /\ phoneFrames \in Nat /\ cut \in 0 .. phoneFrames
        /\ lastFrame \in 0 .. phoneFrames
    BY <1>1 DEF UnitsInv
  <2>2. \/ phoneFrames' = phoneFrames + 1
        \/ phoneFrames' = phoneFrames /\ phoneFrames > 0
    BY <1>1, <1>5 DEF RestInv
  <2> QED
    BY ONLY <2>1, <2>2
<1>9. PhoneInv'
  BY <1>1, PhoneWrote
<1>10. UnitsInv'
  <2>1. UnitsUpTo(phoneFrames) \subseteq UnitsUpTo(phoneFrames')
    BY <1>8, UnitsMore
  <2> DEFINE S == UnitsUpTo(phoneFrames)
             T == UnitsUpTo(phoneFrames')
  <2>2. Seq(S) \subseteq Seq(T)
    BY <2>1, SeqMonotonic
  <2>3. Seq(Seq(S)) \subseteq Seq(Seq(T))
    BY <2>2, SeqMonotonic
  <2>4. w \in Seq(T)
    BY <1>5, <1>6, <1>8, StretchUnits
  <2>5. toWrite' \in Seq(T)
    <3>1. j + p \in Nat
      BY <1>6
    <3> QED
      BY <1>5, <1>6, <1>8, <3>1, StretchUnits
  <2>6. writes' \in Seq(Seq(T))
    <3>1. writes \in Seq(Seq(T))
      BY <1>1, <2>3 DEF UnitsInv
    <3> QED
      BY <1>5, <2>4, <3>1, AppendProperties
  <2>7. recv' \in [0 .. RecvSize - 1 -> T] /\ got' \in Seq(T)
    BY <1>1, <1>7, <2>1, <2>2 DEF UnitsInv
  <2>8. cut' \in 0 .. phoneFrames' /\ lastFrame' \in 0 .. phoneFrames'
    BY <1>7, <1>8
  <2> QED
    BY <1>8, <2>5, <2>6, <2>7, <2>8 DEF UnitsInv
<1>11. /\ got \in Seq(Triple) /\ Stored \in Seq(Triple)
       /\ writes \in Seq(Seq(Triple)) /\ FlattenSeq(writes) \in Seq(Triple)
       /\ Stored \o FlattenSeq(writes) \in Seq(Triple) /\ Flow \in Seq(Triple)
  BY <1>1, FlowType
<1>12. FlattenSeq(writes') = FlattenSeq(writes) \o w
  <2>1. FlattenSeq(Append(writes, w)) = FlattenSeq(writes) \o w
    BY <1>11, FlattenAppend
  <2> QED
    BY <1>5, <2>1
<1>13. RoomInv'
  <2>1. Len(w) = p
    BY <1>5 DEF Stretch
  <2>2. Len(FlattenSeq(writes')) = Len(FlattenSeq(writes)) + p
    BY <1>11, <1>12, <2>1, ConcatProperties
  <2>3. Len(FlattenSeq(writes)) \in Nat
    BY <1>11, LenProperties
  <2>4. Filled(RecvSize, recvIn, recvOut) \in 0 .. RecvSize - 1
    BY <1>1, PhoneSizes, Distance DEF PhoneInv, BytesInv
  <2>5. Filled(RecvSize, recvIn, recvOut)'
          = Filled(RecvSize, recvIn, recvOut)
    BY <1>7 DEF Filled
  <2>6. RoomInv' <=> Filled(RecvSize, recvIn, recvOut)'
                       + Len(FlattenSeq(writes')) < RecvSize
    BY DEF RoomInv
  <2> DEFINE a == Filled(RecvSize, recvIn, recvOut)
             b == Len(FlattenSeq(writes))
  <2>7. a \in Nat /\ b \in Nat /\ a + b + p < RecvSize
    BY <1>5, <2>3, <2>4, PhoneSizes
  <2> HIDE DEF a, b
  <2>8. a + (b + p) < RecvSize
    BY ONLY <1>6, <2>7
  <2> QED
    BY <2>2, <2>5, <2>6, <2>8 DEF a, b
<1>14. Flow' = Flow \o w
  <2>1. Stored' = Stored
    BY <1>7 DEF Stored, Between, Filled, Spot
  <2> DEFINE x == got
             y == Stored
             z == FlattenSeq(writes)
             v == y \o z
  <2>2. x \in Seq(Triple) /\ y \in Seq(Triple) /\ z \in Seq(Triple)
        /\ w \in Seq(Triple)
    BY <1>11
  <2>7. v \in Seq(Triple)
    BY <1>11
  <2>8. v = y \o z
    OBVIOUS
  <2>3. Flow' = x \o (y \o (z \o w))
    BY <1>7, <1>12, <2>1 DEF Flow
  <2>4. Flow = x \o v
    BY DEF Flow
  <2> HIDE DEF x, y, z, v
  <2>5. Joined(Joined(y, z), w) = Joined(y, Joined(z, w))
    BY ONLY <2>2, Regroup
  <2>6. Joined(Joined(x, v), w) = Joined(x, Joined(v, w))
    BY ONLY <2>2, <2>7, Regroup
  <2> QED
    BY ONLY <2>3, <2>4, <2>5, <2>6, <2>8 DEF Joined
<1>15. RestInv'
  <2>1. ASSUME toWrite' # <<>> PROVE j + p \in 1 .. n - 1
    <3>1. n - j - p # 0
      BY <1>5, <1>6, <2>1, EmptySeq DEF Stretch
    <3> QED
      BY <1>6, <3>1
  <2>2. n - j - p = n - (j + p)
    BY <1>6
  <2>3. Stretch(toWrite', phoneFrames', n, j + p, n - (j + p))
    BY <1>5, <2>2
  <2> QED
    BY <1>8, <2>1, <2>3 DEF RestInv
<1>16. FlowInv'
  <2> SUFFICES ASSUME InStep
               PROVE  /\ Begins(Flow', lastFrame + 1) /\ Chain(Flow', cut)
                      /\ Ends(Flow', cut, toWrite', phoneFrames')
                      /\ Flow' # <<>>
                      /\ Len(got) > 1 => Len(got) + dataLen = Flow'[1][3]
                      /\ job = "send" => Len(got) > 1
    BY <1>7 DEF FlowInv, InStep
  <2>1. /\ Begins(Flow, lastFrame + 1) /\ Chain(Flow, cut)
        /\ Ends(Flow, cut, toWrite, phoneFrames)
        /\ Flow = <<>> => lastFrame = phoneFrames
        /\ Len(got) > 1 => Len(got) + dataLen = Flow[1][3]
        /\ job = "send" => Len(got) > 1
    BY <1>1 DEF FlowInv
  <2>2. /\ toWrite = <<>> => j = 0 /\ phoneFrames' = phoneFrames + 1
        /\ toWrite # <<>> => /\ phoneFrames' = phoneFrames
                             /\ toWrite[1] = <<phoneFrames, j + 1, n>>
        /\ Stretch(w, phoneFrames', n, j, p)
        /\ Stretch(toWrite', phoneFrames', n, j + p, n - j - p)
    BY <1>5
  <2>3. /\ Chain(Flow \o w, cut) /\ Begins(Flow \o w, lastFrame + 1)
        /\ Ends(Flow \o w, cut, toWrite', phoneFrames') /\ Flow \o w # <<>>
        /\ Flow # <<>> => (Flow \o w)[1] = Flow[1]
    BY ONLY <1>6, <1>8, <1>11, <2>1, <2>2, n \in PhoneLen,
            w \in Seq(Triple), FlowGrows
  <2>4. Len(got) > 1 => Flow # <<>>
    <3>1. got \o (Stored \o FlattenSeq(writes)) = <<>> => got = <<>>
      BY <1>11, ConcatProperties, EmptySeq, LenProperties
    <3> QED
      BY <3>1, EmptySeq DEF Flow
  <2> QED
    BY <1>14, <2>1, <2>3, <2>4
<1> QED
  BY <1>9, <1>10, <1>13, <1>15, <1>16 DEF WayInv

\* PhoneGone.
LEMMA LeftFlow ==
  ASSUME WayInv, PhoneGone
  PROVE  WayInv'
<1>1. PhoneInv /\ UnitsInv /\ RoomInv /\ RestInv /\ FlowInv
  BY DEF WayInv
<1>2. /\ toWrite' = <<>>
      /\ cut' = IF cut = 0 /\ toWrite # <<>> THEN phoneFrames ELSE cut
      /\ UNCHANGED <<phoneFrames, writes, recv, recvIn, recvOut, start, got,
                     dataLen, job, lastFrame>>
  BY DEF PhoneGone, recvRing, phoneParser
<1>3. phoneFrames \in Nat /\ cut \in 0 .. phoneFrames
  BY <1>1 DEF UnitsInv
<1>4. PhoneInv'
  BY <1>1, PhoneLeft
<1>5. UnitsInv'
  BY <1>1, <1>2, EmptySeq DEF UnitsInv
<1>6. RoomInv' /\ RestInv'
  BY <1>1, <1>2 DEF RoomInv, RestInv, Filled
<1>7. Flow' = Flow
  BY <1>2 DEF Flow, Stored, Between, Filled, Spot
<1>8. FlowInv'
  <2> SUFFICES ASSUME InStep'
               PROVE  /\ Begins(Flow, lastFrame + 1) /\ Chain(Flow, cut')
                      /\ Ends(Flow, cut', <<>>, phoneFrames)
                      /\ Flow = <<>> => lastFrame = phoneFrames
                      /\ Len(got) > 1 => Len(got) + dataLen = Flow[1][3]
                      /\ job = "send" => Len(got) > 1
    BY <1>2, <1>7 DEF FlowInv
  <2>1. InStep
    BY <1>2 DEF InStep
  <2>2. /\ Begins(Flow, lastFrame + 1) /\ Chain(Flow, cut)
        /\ Ends(Flow, cut, toWrite, phoneFrames)
        /\ Flow = <<>> => lastFrame = phoneFrames
        /\ Len(got) > 1 => Len(got) + dataLen = Flow[1][3]
        /\ job = "send" => Len(got) > 1
    BY <1>1, <2>1 DEF FlowInv
  <2>3. CASE cut = 0 /\ toWrite # <<>>
    <3> DEFINE e == Flow[Len(Flow)]
    <3>1. Flow # <<>> /\ e[2] < e[3] /\ Comes(e, toWrite[1])
      BY <2>2, <2>3 DEF Ends
    <3>2. toWrite[1][1] = e[1]
      BY <3>1 DEF Comes
    <3>3. phoneFrames > 0 /\ toWrite[1][1] = phoneFrames
      <4>1. PICK n \in PhoneLen :
              \E j \in 1 .. n - 1 : Stretch(toWrite, phoneFrames, n, j, n - j)
        BY <1>1, <2>3 DEF RestInv
      <4>2. PICK j \in 1 .. n - 1 : Stretch(toWrite, phoneFrames, n, j, n - j)
        BY <4>1
      <4>3. 1 \in 1 .. n - j
        BY PhoneSizes
      <4>4. toWrite[1] = <<phoneFrames, j + 1, n>>
        BY <4>2, <4>3 DEF Stretch
      <4> QED
        BY <1>1, <2>3, <4>4 DEF RestInv
    <3> HIDE DEF e
    <3>4. Ends(Flow, cut', <<>>, phoneFrames)
      <4>1. cut' = phoneFrames /\ cut' # 0 /\ e[1] = phoneFrames
            /\ e[1] >= cut'
        BY <1>2, <1>3, <2>3, <3>2, <3>3
      <4> QED
        BY <3>1, <4>1 DEF Ends, e
    <3>5. Chain(Flow, cut')
      BY <2>2, <2>3 DEF Chain
    <3> QED
      BY <2>2, <3>4, <3>5
  <2>4. CASE ~(cut = 0 /\ toWrite # <<>>)
    <3>1. cut' = cut
      BY <1>2, <2>4
    <3>2. Ends(Flow, cut, <<>>, phoneFrames)
      BY <2>2, <2>4 DEF Ends
    <3> QED
      BY <2>2, <3>1, <3>2
  <2> QED
    BY <2>3, <2>4
<1> QED
  BY <1>4, <1>5, <1>6, <1>8 DEF WayInv

\* StoreWrite moves a write into the ring, where it follows what is there.
LEMMA StoredFlow ==
  ASSUME WayInv, writes # <<>>, StoreWrite
  PROVE  WayInv'
<1>1. PhoneInv /\ UnitsInv /\ RoomInv /\ RestInv /\ FlowInv
  BY DEF WayInv
<1> DEFINE w == Head(writes)
           F == FlattenSeq(writes)
           T == FlattenSeq(Tail(writes))
           R == RecvSize
           U == UnitsUpTo(phoneFrames)
<1>2. /\ R \in Nat \ {0} /\ recvIn \in 0 .. R - 1 /\ recvOut \in 0 .. R - 1
      /\ recv \in [0 .. R - 1 -> U] /\ writes \in Seq(Seq(U))
  BY <1>1, PhoneSizes DEF PhoneInv, BytesInv, UnitsInv
<1>3. /\ recv' = RingWith(recv, R, recvIn, w)
      /\ recvIn' = Moved(R, recvIn, Len(w)) /\ writes' = Tail(writes)
      /\ UNCHANGED <<phoneFrames, toWrite, recvOut, start, got, dataLen, job,
                     lastFrame, cut>>
  <2>1. DOMAIN recv = 0 .. R - 1
    BY <1>2
  <2>2. recv' = [j \in 0 .. R - 1 |->
                   IF Filled(R, j, recvIn) + 1 <= Len(w)
                   THEN w[Filled(R, j, recvIn) + 1] ELSE recv[j]]
    BY <2>1 DEF StoreWrite, Filled
  <2> QED
    BY <2>2 DEF StoreWrite, RingWith, Moved, phoneParser
<1>4. /\ got \in Seq(Triple) /\ Stored \in Seq(Triple)
      /\ writes \in Seq(Seq(Triple)) /\ F \in Seq(Triple)
      /\ Flow \in Seq(Triple)
  BY <1>1, FlowType
<1>5. recv \in [0 .. R - 1 -> Triple]
  BY <1>1 DEF PhoneInv, BytesInv, Piece, Triple
<1>6. /\ w \in Seq(Triple) /\ Tail(writes) \in Seq(Seq(Triple))
      /\ w \in Seq(U) /\ Tail(writes) \in Seq(Seq(U))
  BY <1>2, <1>4, HeadTailProperties
<1>7. F = w \o T /\ T \in Seq(Triple)
  BY <1>4, <1>6, FlattenHead, FlattenType
<1>8. /\ Len(F) = Len(w) + Len(T) /\ Len(w) \in Nat /\ Len(T) \in Nat
  <2> HIDE DEF F, w, T
  <2> QED
    BY <1>6, <1>7, ConcatProperties, LenProperties
<1>9. /\ Filled(R, recvIn, recvOut) \in 0 .. R - 1
      /\ Filled(R, recvIn, recvOut) + Len(w) < R
  <2>1. Filled(R, recvIn, recvOut) + Len(F) < R
    BY <1>1 DEF RoomInv
  <2>2. Filled(R, recvIn, recvOut) \in 0 .. R - 1
    BY <1>2, Distance
  <2> HIDE DEF F, w, T
  <2> QED
    BY <1>2, <1>8, <2>1, <2>2
<1> HIDE DEF F, w, T, U
<1>10. /\ Filled(R, recvIn', recvOut) = Filled(R, recvIn, recvOut) + Len(w)
       /\ Between(recv', R, recvIn', recvOut) =
            Between(recv, R, recvIn, recvOut) \o w
  <2>0. /\ w \in Seq(Triple) /\ HasRoom(R, recvIn, recvOut, w)
        /\ IsRing(recv, R, Triple, recvIn, recvOut)
    BY <1>2, <1>5, <1>6, <1>9 DEF IsRing, HasRoom
  <2>1. Put(recv, R, Triple, recvIn, recvOut, w)
    BY ONLY <2>0, RingPut
  <2> QED
    BY <1>3, <2>1 DEF Put
<1>11. recv' \in [0 .. R - 1 -> U]
  <2>1. IsRing(recv, R, U, recvIn, recvOut)
    BY <1>2 DEF IsRing
  <2>2. w \in Seq(U) /\ HasRoom(R, recvIn, recvOut, w)
    BY <1>6, <1>9 DEF HasRoom
  <2>3. Put(recv, R, U, recvIn, recvOut, w)
    BY ONLY <2>1, <2>2, RingPut
  <2> QED
    BY <1>3, <2>3 DEF IsRing, Put
<1>12. PhoneInv'
  BY <1>1, WriteStored
<1>13. UnitsInv'
  BY <1>1, <1>3, <1>6, <1>11 DEF UnitsInv, U
<1>14. RoomInv'
  <2>1. Filled(R, recvIn, recvOut) + Len(F) < R
    BY <1>1 DEF RoomInv, F
  <2>2. Filled(R, recvIn', recvOut) + Len(T) < R
    BY <1>2, <1>8, <1>9, <1>10, <2>1
  <2> QED
    BY <1>3, <2>2 DEF RoomInv, T
<1>15. RestInv'
  BY <1>1, <1>3 DEF RestInv
<1>16. Flow' = Flow
  <2>1. Stored' = Stored \o w
    BY <1>3, <1>10 DEF Stored
  <2>2. Flow' = got \o (Stored' \o T)
    BY <1>3 DEF Flow, T
  <2>3. (Stored \o w) \o T = Stored \o (w \o T)
    <3>1. Stored \in Seq(Triple) /\ w \in Seq(Triple) /\ T \in Seq(Triple)
      BY <1>4, <1>6, <1>7
    <3>2. Joined(Joined(Stored, w), T) = Joined(Stored, Joined(w, T))
      BY ONLY <3>1, Regroup
    <3> QED
      BY ONLY <3>2 DEF Joined
  <2>4. Flow = got \o (Stored \o F)
    BY DEF Flow, F
  <2> QED
    BY ONLY <1>7, <2>1, <2>2, <2>3, <2>4
<1>17. FlowInv'
  BY <1>1, <1>3, <1>16 DEF FlowInv, InStep
<1> QED
  BY <1>12, <1>13, <1>14, <1>15, <1>17 DEF WayInv

\* What GetUnit and HandOver do.
LEMMA TakenFlow ==
  ASSUME WayInv, GetUnit
  PROVE  WayInv'
<1>1. PhoneInv /\ UnitsInv /\ RoomInv /\ RestInv /\ FlowInv
  BY DEF WayInv
<1> DEFINE u == recv[recvOut]
           F == FlattenSeq(writes)
           R == RecvSize
           U == UnitsUpTo(phoneFrames)
           a == Append(got, u)
<1>2. /\ recvOut # recvIn /\ recvOut' = NextSpot(R, recvOut) /\ job = "get"
      /\ UNCHANGED <<phoneFrames, toWrite, writes, recv, recvIn, lastFrame,
                     cut>>
  BY DEF GetUnit, NextSlot, NextSpot
<1>3. /\ R \in Nat \ {0} /\ recvIn \in 0 .. R - 1 /\ recvOut \in 0 .. R - 1
      /\ recv \in [0 .. R - 1 -> Triple] /\ u \in Triple /\ u \in U
  <2>1. Piece \subseteq Triple
    BY DEF Piece, Triple
  <2> QED
    BY <1>1, <2>1, PhoneSizes DEF PhoneInv, BytesInv, UnitsInv
<1>4. /\ got \in Seq(Triple) /\ Stored \in Seq(Triple) /\ F \in Seq(Triple)
      /\ Flow \in Seq(Triple)
  BY <1>1, FlowType
<1> HIDE DEF u, F, U
<1>5. IsRing(recv, R, Triple, recvIn, recvOut)
  BY <1>3 DEF IsRing
<1>6. /\ Filled(R, recvIn, recvOut) > 0
      /\ Filled(R, recvIn, recvOut') = Filled(R, recvIn, recvOut) - 1
      /\ Stored # <<>> /\ Head(Stored) = u
      /\ Between(recv, R, recvIn, recvOut') = Tail(Stored)
  <2>1. /\ Filled(R, recvIn, recvOut) > 0
        /\ Filled(R, recvIn, NextSpot(R, recvOut)) =
             Filled(R, recvIn, recvOut) - 1
        /\ Between(recv, R, recvIn, recvOut) # <<>>
        /\ Head(Between(recv, R, recvIn, recvOut)) = recv[recvOut]
        /\ Between(recv, R, recvIn, NextSpot(R, recvOut)) =
             Tail(Between(recv, R, recvIn, recvOut))
    BY <1>2, <1>5, RingTake
  <2>2. recvOut' = NextSpot(R, recvOut)
    BY <1>2
  <2> QED
    BY <2>1, <2>2 DEF Stored, u, R
<1>7. /\ a \in Seq(Triple) /\ Len(a) = Len(got) + 1 /\ a[Len(got) + 1] = u
      /\ Len(got) \in Nat /\ \A i \in 1 .. Len(got) : a[i] = got[i]
  BY <1>3, <1>4, AppendProperties, LenProperties
<1>8. /\ Stored' = Tail(Stored) /\ Tail(Stored) \in Seq(Triple)
      /\ Tail(Stored) \o F \in Seq(Triple)
  <2>1. Tail(Stored) \in Seq(Triple)
    BY <1>4, <1>6, HeadTailProperties
  <2>2. Stored' = Tail(Stored)
    BY <1>2, <1>6 DEF Stored
  <2> QED
    BY <1>4, <2>1, <2>2, ConcatProperties
<1>9. a \o (Tail(Stored) \o F) = Flow
  <2>1. Append(got, Head(Stored)) \o (Tail(Stored) \o F)
          = got \o (Stored \o F)
    <3>1. /\ got \in Seq(Triple) /\ Stored \in Seq(Triple)
          /\ Stored # <<>> /\ F \in Seq(Triple)
      BY <1>4, <1>6
    <3>2. Joined(Append(got, Head(Stored)), Joined(Tail(Stored), F))
            = Joined(got, Joined(Stored, F))
      BY ONLY <3>1, TakeFirst
    <3> QED
      BY ONLY <3>2 DEF Joined
  <2> QED
    BY <1>6, <2>1 DEF Flow, F
<1>10. ASSUME got' = a PROVE Flow' = Flow
  BY <1>2, <1>8, <1>9, <1>10 DEF Flow, F
<1>11. \A i \in 1 .. Len(got) + 1 : i <= Len(Flow) /\ Flow[i] = a[i]
  <2>1. \A i \in 1 .. Len(a) :
          /\ i <= Len(a \o (Tail(Stored) \o F))
          /\ (a \o (Tail(Stored) \o F))[i] = a[i]
    BY <1>7, <1>8, Beginning
  <2> QED
    BY <1>7, <1>9, <2>1
<1>12. /\ Flow # <<>> /\ Len(Flow) \in Nat /\ Flow[Len(got) + 1] = u
       /\ Len(got) + 1 <= Len(Flow)
  <2>1. Len(got) + 1 \in 1 .. Len(got) + 1
    BY <1>7
  <2>2. Len(Flow) # 0 /\ Len(Flow) \in Nat
    BY <1>4, <1>7, <1>11, <2>1, LenProperties
  <2> QED
    BY <1>7, <1>11, <2>1, <2>2, EmptySeq
<1>13. PhoneInv'
  BY <1>1, UnitTaken
<1>14. UnitsInv'
  <2>1. got' \in {got, <<>>, <<u>>, a}
    BY DEF GetUnit, Skip, TakeLength, Restart, TakeData, u
  <2>2. got \in Seq(U)
    BY <1>1 DEF UnitsInv, U
  <2>3. <<u>> \in Seq(U) /\ <<>> \in Seq(U) /\ a \in Seq(U)
    BY <1>3, <2>2, EmptySeq, AppendProperties
  <2>4. got' \in Seq(U)
    BY <2>1, <2>2, <2>3
  <2> QED
    BY <1>1, <1>2, <2>4 DEF UnitsInv, U
<1>15. RoomInv'
  <2>1. Filled(R, recvIn, recvOut) + Len(F) < R
    BY <1>1 DEF RoomInv, F
  <2>2. Filled(R, recvIn, recvOut) \in 0 .. R - 1
    BY <1>3, Distance
  <2>3. Len(F) \in Nat
    BY <1>4, LenProperties
  <2>4. Filled(R, recvIn, recvOut') + Len(F) < R
    BY <1>3, <1>6, <2>1, <2>2, <2>3
  <2> QED
    BY <1>2, <2>4 DEF RoomInv, F
<1>16. RestInv'
  BY <1>1, <1>2 DEF RestInv
<1>17. FlowInv'
  <2> SUFFICES ASSUME InStep
               PROVE  /\ Flow' = Flow
                      /\ Len(got') > 1 => Len(got') + dataLen' = Flow[1][3]
                      /\ job' = "send" => Len(got') > 1
    BY <1>1, <1>2, <1>12 DEF FlowInv, InStep
  <2>1. /\ Begins(Flow, lastFrame + 1) /\ Chain(Flow, cut)
        /\ Len(got) > 1 => Len(got) + dataLen = Flow[1][3]
        /\ cut = 0 \/ lastFrame + 1 < cut
    BY <1>1 DEF FlowInv, InStep
  <2>2. PICK n \in PhoneLen : Flow[1] = <<lastFrame + 1, 1, n>>
    BY <1>12, <2>1 DEF Begins
  <2>3. ~start => got = <<>>
    BY <1>1, <1>2 DEF PhoneInv, ParserInv
  <2>4. CASE ~start
    <3>1. Len(got) + 1 = 1
      BY <2>3, <2>4, EmptySeq
    <3>2. u = <<lastFrame + 1, 1, n>>
      BY <1>12, <2>2, <3>1
    <3>3. FALSE \notin LooksLikeHeader(u)
      BY <3>2 DEF LooksLikeHeader
    <3>4. got' = <<u>> /\ job' = job
      BY <2>4, <3>3 DEF GetUnit, u
    <3>5. a = <<u>>
      BY <2>3, <2>4
    <3>6. Len(got') = 1
      BY <3>4
    <3> QED
      BY <1>2, <1>10, <3>4, <3>5, <3>6
  <2>5. CASE start /\ Len(got) = 1
    <3>1. /\ n \in Nat /\ 2 < n /\ n <= MaxData + 2 /\ MaxData \in Nat
          /\ lastFrame \in Nat /\ cut \in Nat
      BY <1>1, PhoneAssumption DEF UnitsInv
    <3>2. Opens(Flow, lastFrame + 1, n)
      <4> DEFINE f == lastFrame + 1
      <4>1. /\ Flow \in Seq(Triple) /\ cut \in Nat /\ f \in Nat
            /\ n \in Nat /\ Chain(Flow, cut) /\ Flow # <<>>
            /\ Flow[1] = <<f, 1, n>> /\ (cut = 0 \/ f < cut)
        BY <1>4, <1>12, <2>1, <2>2, <3>1
      <4> HIDE DEF f
      <4>2. Opens(Flow, f, n)
        BY ONLY <4>1, ChainFrame
      <4> QED
        BY <4>2 DEF f
    <3>3. u = <<lastFrame + 1, 2, n>>
      <4>1. 2 \in 1 .. Len(Flow) /\ 2 <= n
        BY <1>12, <2>5, <3>1
      <4>2. Flow[2] = u
        BY <1>12, <2>5
      <4> QED
        BY <3>2, <4>1, <4>2 DEF Opens
    <3>4. TakeLength(u)
      BY <2>5 DEF GetUnit, u
    <3>5. LengthIn(u) = {n - 2}
      BY <3>3 DEF LengthIn
    <3>6. n - 2 <= MaxData /\ ~(n - 2 > MaxData)
      BY <3>1
    <3>7. dataLen' = n - 2 /\ got' = a /\ job' = job
      BY <3>4, <3>5, <3>6 DEF TakeLength
    <3>8. Len(got') + dataLen' = Flow[1][3]
      BY <1>7, <2>2, <2>5, <3>1, <3>7
    <3> QED
      BY <1>2, <1>10, <3>7, <3>8
  <2>6. CASE start /\ Len(got) > 1
    <3>0. ~(Len(got) = 1)
      <4>1. Len(got) \in Nat
        BY <1>7
      <4> QED
        BY ONLY <4>1, <2>6
    <3>1. TakeData(u)
      BY <2>6, <3>0 DEF GetUnit, u
    <3>2. dataLen' = dataLen - 1 /\ got' = a
      BY <3>1 DEF TakeData
    <3>3. dataLen \in Nat
      BY <1>1 DEF PhoneInv, ParserInv
    <3>4. Len(got') + dataLen' = Len(got) + dataLen /\ Len(got') > 1
      BY <1>7, <2>6, <3>2, <3>3
    <3> QED
      BY <1>10, <2>1, <2>6, <3>2, <3>4
  <2>7. start => Len(got) = 1 \/ Len(got) > 1
    BY <1>7 DEF GetUnit
  <2> QED
    BY <2>4, <2>5, <2>6, <2>7
<1> QED
  BY <1>13, <1>14, <1>15, <1>16, <1>17 DEF WayInv

LEMMA HandedFlow ==
  ASSUME WayInv, HandOver
  PROVE  /\ WayInv'
         /\ InStep => got = PhoneFrame(lastFrame + 1, Len(got))
<1>1. PhoneInv /\ UnitsInv /\ RoomInv /\ RestInv /\ FlowInv
  BY DEF WayInv
<1> DEFINE r == Stored \o FlattenSeq(writes)
<1>2. /\ job = "send" /\ job' = "get" /\ got' = <<>>
      /\ lastFrame' = IF InStep THEN lastFrame + 1 ELSE lastFrame
      /\ UNCHANGED <<phoneFrames, toWrite, writes, recv, recvIn, recvOut,
                     start, dataLen, cut>>
  BY DEF HandOver, recvRing
<1>3. /\ got \in Seq(Triple) /\ r \in Seq(Triple) /\ Flow \in Seq(Triple)
      /\ Flow = got \o r
  BY <1>1, FlowType DEF Flow
<1>4. Flow' = r
  <2>1. Stored' = Stored
    BY <1>2 DEF Stored
  <2>2. <<>> \o r = r
    BY <1>3
  <2> QED
    BY <1>2, <2>1, <2>2 DEF Flow
<1> HIDE DEF r
<1>5. dataLen = 0
  BY <1>1, <1>2 DEF PhoneInv, ParserInv
<1>6. cut \in Nat /\ lastFrame \in Nat /\ lastFrame + 1 \in Nat
      /\ phoneFrames \in Nat
  BY <1>1 DEF UnitsInv
<1>7. PhoneInv' /\ RoomInv' /\ RestInv'
  BY <1>1, <1>2, FrameHandedOver DEF RoomInv, RestInv, Filled
<1>8. CASE InStep
  <2> DEFINE f == lastFrame + 1
  <2>1. /\ Begins(Flow, f) /\ Chain(Flow, cut)
        /\ Ends(Flow, cut, toWrite, phoneFrames)
        /\ Len(got) > 1 /\ Len(got) + dataLen = Flow[1][3]
        /\ cut = 0 \/ f < cut
    BY <1>1, <1>2, <1>8 DEF FlowInv, InStep
  <2>2. /\ got \in Seq(Triple) /\ r \in Seq(Triple) /\ cut \in Nat
        /\ f \in Nat /\ Flow = got \o r /\ got # <<>> /\ Chain(Flow, cut)
        /\ Begins(Flow, f) /\ Len(got) = Flow[1][3] /\ (cut = 0 \/ f < cut)
        /\ Len(got) \in Nat
    BY <1>3, <1>5, <1>6, <2>1, EmptySeq, LenProperties
  <2> HIDE DEF f
  <2>3. got = PhoneFrame(f, Len(got))
    BY ONLY <2>2, ChainRest
  <2>4. Chain(r, cut)
    BY ONLY <2>2, ChainRest
  <2>5. Begins(r, f + 1)
    BY ONLY <2>2, ChainRest
  <2>6. got[Len(got)] = <<f, Len(got), Len(got)>>
    BY ONLY <2>2, ChainRest
  <2>7. /\ Ends(r, cut, toWrite, phoneFrames)
        /\ r = <<>> => f = phoneFrames
    <3> DEFINE n == Len(got)
    <3>1. /\ n \in Nat /\ got[Len(got)] = <<f, n, n>>
          /\ Ends(Flow, cut, toWrite, phoneFrames)
          /\ got \in Seq(Triple) /\ r \in Seq(Triple) /\ cut \in Nat
          /\ f \in Nat /\ Flow = got \o r /\ got # <<>>
          /\ cut = 0 \/ f < cut
      BY <2>1, <2>2, <2>6
    <3> HIDE DEF n
    <3>2. Ends(r, cut, toWrite, phoneFrames)
      BY ONLY <3>1, EndsRest
    <3>3. IsLast(r, f, phoneFrames)
      BY ONLY <3>1, EndsRest
    <3> QED
      BY <3>2, <3>3 DEF IsLast
  <2> USE DEF f
  <2>8. lastFrame + 1 <= phoneFrames
    <3>1. got[Len(got)] \in UnitsUpTo(phoneFrames)
      BY <1>1, <2>2, ElementOfSeq DEF UnitsInv
    <3>2. got[Len(got)][1] = lastFrame + 1
      BY <2>6
    <3>3. got[Len(got)][1] \in 0 .. phoneFrames
      BY <3>1 DEF UnitsUpTo
    <3> QED
      BY <1>6, <3>2, <3>3
  <2>9. UnitsInv'
    BY <1>1, <1>2, <1>6, <1>8, <2>8, EmptySeq DEF UnitsInv
  <2>10. FlowInv'
    <3>1. Len(got') = 0 /\ lastFrame' = lastFrame + 1
      BY <1>2, <1>8, EmptySeq
    <3> QED
      BY <1>2, <1>4, <2>4, <2>5, <2>7, <3>1 DEF FlowInv
  <2> QED
    BY <1>7, <2>3, <2>9, <2>10 DEF WayInv
<1>9. CASE ~InStep
  <2>1. UnitsInv'
    BY <1>1, <1>2, <1>9, EmptySeq DEF UnitsInv
  <2>2. FlowInv'
    BY <1>2, <1>9 DEF FlowInv, InStep
  <2> QED
    BY <1>7, <1>9, <2>1, <2>2 DEF WayInv
<1> QED
  BY <1>8, <1>9

LEMMA WayStarts == PhoneInit => WayInv
<1> SUFFICES ASSUME PhoneInit PROVE WayInv
  OBVIOUS
<1>1. /\ phoneFrames = 0 /\ toWrite = <<>> /\ writes = <<>> /\ recvIn = 0
      /\ recvOut = 0 /\ got = <<>> /\ job = "get" /\ lastFrame = 0 /\ cut = 0
      /\ recv = [i \in 0 .. RecvSize - 1 |-> <<0, 0, 0>>]
  BY DEF PhoneInit
<1>2. Filled(RecvSize, 0, 0) = 0 /\ FlattenSeq(<<>>) = <<>>
  BY PhoneSizes, Distance, FlattenEmpty
<1>3. UnitsInv
  <2>1. <<0, 0, 0>> \in UnitsUpTo(0)
    BY PhoneSizes DEF UnitsUpTo
  <2>2. recv \in [0 .. RecvSize - 1 -> UnitsUpTo(0)]
    BY <1>1, <2>1
  <2> QED
    BY <1>1, <2>2, EmptySeq DEF UnitsInv
<1>4. RoomInv /\ RestInv
  BY <1>1, <1>2, EmptySeq, PhoneSizes DEF RoomInv, RestInv
<1>5. Stored = <<>>
  BY <1>1, <1>2 DEF Stored, Between
<1>6. Flow = <<>>
  BY <1>1, <1>2, <1>5 DEF Flow
<1>7. FlowInv
  <2>1. Len(<<>>) = 0
    BY EmptySeq
  <2>2. Chain(<<>>, 0) /\ Begins(<<>>, 1) /\ Ends(<<>>, 0, <<>>, 0)
    BY <2>1 DEF Chain, Begins, Ends
  <2> QED
    BY <1>1, <1>6, <2>1, <2>2 DEF FlowInv
<1> QED
  BY <1>3, <1>4, <1>7, PhoneStarts DEF WayInv

\* Steps of others.
LEMMA WayStays == WayInv /\ UNCHANGED phoneVars => WayInv'
<1> SUFFICES ASSUME WayInv, UNCHANGED phoneVars PROVE WayInv'
  OBVIOUS
<1>1. UNCHANGED <<phoneFrames, toWrite, writes, recv, recvIn, recvOut, start,
                  got, dataLen, job, lastFrame, cut>>
  BY DEF phoneVars, recvRing, phoneParser
<1>2. Stored' = Stored
  BY <1>1 DEF Stored
<1>3. Flow' = Flow
  BY <1>1, <1>2 DEF Flow
<1>4. PhoneInv'
  BY <1>1 DEF WayInv, PhoneInv, BytesInv, ParserInv
<1>5. UnitsInv' /\ RoomInv' /\ RestInv'
  BY <1>1 DEF WayInv, UnitsInv, RoomInv, RestInv, Filled
<1>6. FlowInv'
  BY <1>1, <1>3 DEF WayInv, FlowInv, InStep
<1> QED
  BY <1>4, <1>5, <1>6 DEF WayInv

=============================================================================
