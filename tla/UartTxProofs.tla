---------------------------- MODULE UartTxProofs ----------------------------
(***************************************************************************)
(* Type correctness of UartTx, for every instance.  UartTxOwnership goes   *)
(* on from here to the ownership of the buffers.                           *)
(***************************************************************************)
EXTENDS UartTx, ListLemmas

-----------------------------------------------------------------------------
(* Type correctness.                                                       *)

\* A producer has a buffer from taking it to listing it; in
\* uart_protocol_dispose the static pointer is set before it is filled.
HandInv ==
  \A t \in Producers :
    /\ hand[t] = NoBuf <=> step[t] = "produce"
    /\ step[t] # "produce" => job[t] \in FrameKind
    /\ step[t] = "point" => ViaDispose(job[t])
    /\ step[t] \in {"fill", "add"} /\ ViaDispose(job[t]) => disBuf # NoBuf

\* Send has a buffer exactly from OSQPend to the end of its loop.
SendInv ==
  sendCur # NoBuf <=> sendPc \in {"got", "wait", "done", "recycle"}

\* Poll unlinks an entry of the list.
CursorInv == pollPc = "unlink" => cursor \in 1 .. Len(sendList)

TypeInv == TypeOK /\ HandInv /\ SendInv /\ CursorInv

LEMMA TypeInit == Init => TypeInv
<1> SUFFICES ASSUME Init PROVE TypeInv
  OBVIOUS
<1>1. TypeOK
  BY ConstantsAssumption DEF Init, TypeOK, PollState, ZeroPoll, FrameKind
<1>2. HandInv /\ SendInv /\ CursorInv
  BY DEF Init, HandInv, SendInv, CursorInv
<1> QED
  BY <1>1, <1>2 DEF TypeInv

\* The buffer a producer fills and lists exists.
LEMMA TargetType ==
  ASSUME TypeInv, NEW t \in Producers, step[t] \in {"fill", "add"}
  PROVE  Target(t) \in Buf
BY DEF TypeInv, TypeOK, HandInv, Target

\* OSQPost keeps the state of Send well-formed.
LEMMA PostType ==
  ASSUME TypeInv, NEW b \in Buf, Post(b)
  PROVE  /\ sendPc' \in {"call", "pend", "got", "wait", "done", "recycle"}
         /\ sendCur' \in Buf \cup {NoBuf}
         /\ queue' \in Seq(Buf)
         /\ SendInv'
<1>1. CASE sendPc = "pend"
  BY <1>1, ConstantsAssumption DEF TypeInv, TypeOK, Post, SendInv
<1>2. CASE sendPc # "pend"
  <2>1. sendPc' = sendPc /\ sendCur' = sendCur
    BY <1>2 DEF Post
  <2>2. queue' \in Seq(Buf)
    <3>1. queue \in Seq(Buf)
      BY DEF TypeInv, TypeOK
    <3>2. queue' = queue \/ queue' = Append(queue, b)
      BY <1>2 DEF Post
    <3> QED
      BY <3>1, <3>2, AppendMembers
  <2> QED
    BY <2>1, <2>2 DEF TypeInv, TypeOK, SendInv
<1> QED
  BY <1>1, <1>2

\* The steps of a producer.
LEMMA TypeProducer ==
  ASSUME TypeInv, NEW t \in Producers, Start(t) \/ Producer(t)
  PROVE  TypeInv'
<1> USE DEF TypeInv, SendInv, CursorInv
<1>1. CASE Start(t)
  <2>1. t \in AllProducers /\ step[t] = "produce"
    BY <1>1, ConstantsAssumption DEF Start, HandInv, FrameKind
  <2>2. job' \in [Producers -> FrameKind \cup {"idle", "ACK"}]
        /\ after' \in [Producers -> {"idle", "REQ", "ACK"}]
    BY <1>1, <2>1 DEF Start, Work, TypeOK, FrameKind, AllProducers
  <2>3. TypeOK'
    BY <1>1, <2>2 DEF Start, TypeOK, poolVars, sendVars
  <2>4. HandInv'
    BY <1>1, <2>1 DEF Start, HandInv, TypeOK
  <2> QED
    BY <1>1, <2>3, <2>4 DEF Start, sendVars
<1>2. CASE Produce(t)
  <2>1. Head(free) \in Buf /\ Tail(free) \in Seq(Buf)
    BY <1>2, TailMembers DEF Produce, TypeOK
  <2>2. TypeOK'
    BY <1>2, <2>1 DEF Produce, TypeOK, sendVars
  <2>3. HandInv'
    BY <1>2, <2>1, ConstantsAssumption DEF Produce, At, HandInv, TypeOK
  <2> QED
    BY <1>2, <2>2, <2>3 DEF Produce, sendVars
<1>3. CASE ProduceNull(t)
  <2>1. TypeOK'
    BY <1>3 DEF ProduceNull, TypeOK, poolVars, sendVars
  <2>2. HandInv'
    BY <1>3 DEF ProduceNull, At, HandInv, TypeOK
  <2> QED
    BY <1>3, <2>1, <2>2 DEF ProduceNull, sendVars
<1>4. CASE Fill(t)
  <2>1. step[t] = "fill" /\ job[t] \in FrameKind /\ Target(t) \in Buf
    BY <1>4, TargetType DEF Fill, At
  <2> DEFINE old == IF job[t] = "APP" THEN poll[Target(t)] ELSE ZeroPoll
             new == [old EXCEPT !.type = PollType(job[t])]
  <2>2. poll' = [poll EXCEPT ![Target(t)] = new]
    BY <1>4 DEF Fill
  <2>3. new \in PollState
    <3>1. old \in PollState
      BY <2>1, ConstantsAssumption DEF TypeOK, ZeroPoll, PollState
    <3> HIDE DEF old
    <3> QED
      BY <3>1 DEF PollType, PollState
  <2> HIDE DEF new
  <2>4. TypeOK'
    <3>1. upgFrames' \subseteq Buf
      BY <1>4, <2>1 DEF Fill, TypeOK
    <3> QED
      BY <1>4, <2>1, <2>2, <2>3, <3>1 DEF Fill, TypeOK, sendVars
  <2>5. HandInv'
    BY <1>4, <2>1 DEF Fill, HandInv, TypeOK
  <2> QED
    BY <1>4, <2>4, <2>5 DEF Fill, sendVars
<1>5. CASE Add(t)
  <2>1. step[t] = "add" /\ job[t] \in FrameKind /\ Target(t) \in Buf
    BY <1>5, TargetType DEF Add, At
  <2>2. pollPc = "delay"
    BY <1>5, <2>1 DEF Add, Blocked, PollHoldsMutex, FrameKind
  <2>3. TypeOK'
    BY <1>5, <2>1 DEF Add, Continue, TypeOK, poolVars, sendVars, FrameKind
  <2>4. HandInv'
    BY <1>5, <2>1 DEF Add, Continue, HandInv, TypeOK
  <2> QED
    BY <1>5, <2>2, <2>3, <2>4 DEF Add, sendVars
<1>6. CASE Ack(t)
  <2>1. step[t] = "produce"
    BY <1>6 DEF Ack, HandInv, FrameKind
  <2>2. poll' \in [Buf -> PollState]
    <3>1. CASE poll' = poll
      BY <3>1 DEF TypeOK
    <3>2. CASE poll' # poll
      <4>1. PICK b \in Answerable : poll' = [poll EXCEPT ![b].flag = TRUE]
        BY <1>6, <3>2 DEF Ack
      <4>2. b \in Buf
        BY RangeOfSeq DEF Answerable, TypeOK
      <4>3. [poll[b] EXCEPT !.flag = TRUE] \in PollState
        BY <4>2, ZenonT(40) DEF TypeOK, PollState
      <4> QED
        BY <4>1, <4>2, <4>3 DEF TypeOK
    <3> QED
      BY <3>1, <3>2
  <2>3. TypeOK'
    BY <1>6, <2>2 DEF Ack, Continue, TypeOK, sendVars, FrameKind
  <2>4. HandInv'
    BY <1>6, <2>1 DEF Ack, Continue, HandInv, TypeOK
  <2> QED
    BY <1>6, <2>3, <2>4 DEF Ack, sendVars
<1>7. CASE Point(t)
  <2>1. step[t] = "point" /\ hand[t] \in Buf /\ hand[t] # NoBuf
    BY <1>7 DEF Point, At, HandInv, TypeOK
  <2>2. TypeOK'
    BY <1>7, <2>1 DEF Point, TypeOK, poolVars, sendVars
  <2>3. HandInv'
    BY <1>7, <2>1 DEF Point, At, HandInv, TypeOK
  <2> QED
    BY <1>7, <2>2, <2>3 DEF Point, sendVars
<1> QED
  BY <1>1, <1>2, <1>3, <1>4, <1>5, <1>6, <1>7 DEF Producer

\* A list without one of its entries is still a list of buffers, and the
\* entry under the cursor is a buffer.
LEMMA EntryType ==
  ASSUME TypeInv, cursor <= Len(sendList)
  PROVE  /\ Entry \in Buf /\ Entry \in Range(sendList)
         /\ cursor \in 1 .. Len(sendList)
         /\ RemoveAt(sendList, cursor) \in Seq(Buf)
<1>1. sendList \in Seq(Buf) /\ cursor \in Nat \ {0} /\ Len(sendList) \in Nat
  BY DEF TypeInv, TypeOK
<1>2. cursor \in 1 .. Len(sendList)
  BY <1>1
<1> QED
  BY <1>1, <1>2, MembersOfSeq, RemoveAtMembers DEF Entry

\* A post by Poll that changes nothing else but poll and its own position.
LEMMA TypePollPost ==
  ASSUME TypeInv, cursor <= Len(sendList), Post(Entry),
         poll' \in [Buf -> PollState],
         pollPc' \in {"delay", "unlink"},
         cursor' \in {1, cursor}, pollPc' = "unlink" => cursor' = cursor,
         UNCHANGED <<free, sendList, upgFrames, prodVars>>
  PROVE  TypeInv'
<1>1. Entry \in Buf /\ cursor \in 1 .. Len(sendList)
  BY EntryType
<1>2. /\ sendPc' \in {"call", "pend", "got", "wait", "done", "recycle"}
      /\ sendCur' \in Buf \cup {NoBuf}
      /\ queue' \in Seq(Buf)
      /\ SendInv'
  BY <1>1, PostType
<1>3. TypeOK'
  BY <1>2 DEF TypeInv, TypeOK, prodVars
<1>4. HandInv' /\ CursorInv'
  BY <1>1 DEF TypeInv, HandInv, CursorInv, prodVars
<1> QED
  BY <1>2, <1>3, <1>4 DEF TypeInv

\* An entry that leaves the list for the pool.
LEMMA TypeRelease ==
  ASSUME TypeInv, AtEntry, ReleaseEntry
  PROVE  TypeInv'
<1>1. /\ cursor <= Len(sendList) /\ pollPc = "walk"
      /\ Entry \in Buf /\ RemoveAt(sendList, cursor) \in Seq(Buf)
  BY EntryType DEF AtEntry, Walking
<1>2. ZeroPoll \in PollState
  BY ConstantsAssumption DEF ZeroPoll, PollState
<1>3. free' \in Seq(Buf)
  BY <1>1, AppendMembers DEF ReleaseEntry, TypeInv, TypeOK
<1>4. TypeOK'
  BY <1>1, <1>2, <1>3
     DEF ReleaseEntry, TypeInv, TypeOK, prodVars, sendVars
<1>5. HandInv' /\ SendInv' /\ CursorInv'
  BY <1>1 DEF ReleaseEntry, TypeInv, HandInv, SendInv, CursorInv, prodVars,
              sendVars
<1> QED
  BY <1>4, <1>5 DEF TypeInv

\* The steps of Poll.
LEMMA TypePoll ==
  ASSUME TypeInv, PollWake \/ PollStep
  PROVE  TypeInv'
<1>1. CASE PollWake
  BY <1>1 DEF PollWake, TypeInv, TypeOK, HandInv, SendInv, CursorInv,
              poolVars, prodVars, sendVars
<1>2. CASE PollEnd
  BY <1>2 DEF PollEnd, EndPass, TypeInv, TypeOK, HandInv, SendInv, CursorInv,
              poolVars, prodVars, sendVars
<1>3. CASE PollUnlink
  <2>1. RemoveAt(sendList, cursor) \in Seq(Buf)
    BY <1>3, EntryType DEF PollUnlink, TypeInv, CursorInv
  <2> QED
    BY <1>3, <2>1 DEF PollUnlink, EndPass, TypeInv, TypeOK, HandInv, SendInv,
                      CursorInv, poolVars, prodVars, sendVars
<1>4. CASE PollReap
  BY <1>4, TypeRelease DEF PollReap, IsRequest
<1>5. CASE PollGiveUp
  BY <1>5, TypeRelease DEF PollGiveUp, Unanswered, IsRequest
<1>6. CASE PollTick
  <2>1. Entry \in Buf
    BY <1>6, EntryType DEF PollTick, Unanswered, IsRequest, AtEntry
  <2> DEFINE d == poll[Entry].delay
             new == [poll[Entry] EXCEPT
                       !.delay = IF d + 1 < RetryPasses THEN d + 1 ELSE d]
  <2>2. new \in PollState
    <3>1. poll[Entry] \in PollState
      BY <2>1 DEF TypeInv, TypeOK
    <3>2. d \in 0 .. RetryPasses - 1
      BY <3>1 DEF PollState
    <3>3. (IF d + 1 < RetryPasses THEN d + 1 ELSE d) \in 0 .. RetryPasses - 1
      BY <3>2, ConstantsAssumption
    <3> HIDE DEF d
    <3> QED
      BY <3>1, <3>3 DEF PollState
  <2>3. poll' = [poll EXCEPT ![Entry] = new]
    BY <1>6, <2>1 DEF PollTick, TypeInv, TypeOK
  <2> HIDE DEF new
  <2>4. poll' \in [Buf -> PollState]
    BY <2>1, <2>2, <2>3 DEF TypeInv, TypeOK
  <2>5. pollPc = "walk" /\ pollPc' = "walk" /\ cursor' \in Nat \ {0}
    BY <1>6 DEF PollTick, Unanswered, IsRequest, AtEntry, Walking, TypeInv,
                TypeOK
  <2> QED
    BY <1>6, <2>4, <2>5 DEF PollTick, TypeInv, TypeOK, HandInv, SendInv,
                            CursorInv, prodVars, sendVars
<1>7. CASE PollPosts
  <2>1. cursor <= Len(sendList) /\ Post(Entry) /\ Entry \in Buf
        /\ UNCHANGED <<free, sendList, upgFrames, prodVars>>
    BY <1>7, EntryType
       DEF PollPosts, PollPostReply, PollFirstSend, PollRetry, Unanswered,
           IsRequest, AtEntry
  <2>2. /\ pollPc' \in {"delay", "unlink"} /\ cursor' \in {1, cursor}
        /\ pollPc' = "unlink" => cursor' = cursor
    BY <1>7 DEF PollPosts, PollPostReply, PollFirstSend, PollRetry, EndPass
  <2>3. poll' \in [Buf -> PollState]
    <3>1. poll[Entry] \in PollState
      BY <2>1 DEF TypeInv, TypeOK
    <3>2. PICK new \in PollState : poll' = [poll EXCEPT ![Entry] = new]
      <4>1. CASE PollPostReply
        BY <4>1, <2>1, <3>1
           DEF PollPostReply, PollState, TypeInv, TypeOK
      <4>2. CASE PollFirstSend
        <5> DEFINE new == [poll[Entry] EXCEPT !.times = 1]
        <5>1. new \in PollState
          BY <3>1, ConstantsAssumption DEF PollState
        <5>2. poll' = [poll EXCEPT ![Entry] = new]
          BY <4>2, <2>1 DEF PollFirstSend, TypeInv, TypeOK
        <5> QED
          BY <5>1, <5>2
      <4>3. CASE PollRetry
        <5> DEFINE n == poll[Entry].times
                   new == [poll[Entry] EXCEPT !.delay = 0, !.times = n + 1]
        <5>1. n \in 0 .. MaxTimes /\ n < MaxTimes
          BY <4>3, <3>1 DEF PollRetry, PollState
        <5>2. n + 1 \in 0 .. MaxTimes /\ 0 \in 0 .. RetryPasses - 1
          BY <5>1, ConstantsAssumption
        <5>3. poll' = [poll EXCEPT ![Entry] = new]
          BY <4>3, <2>1 DEF PollRetry, TypeInv, TypeOK
        <5> HIDE DEF n
        <5>4. new \in PollState
          BY <3>1, <5>2 DEF PollState
        <5> QED
          BY <5>3, <5>4
      <4> QED
        BY <1>7, <4>1, <4>2, <4>3 DEF PollPosts
    <3> QED
      BY <2>1, <3>2 DEF TypeInv, TypeOK
  <2> QED
    BY <2>1, <2>2, <2>3, TypePollPost
<1> QED
  BY <1>1, <1>2, <1>3, <1>4, <1>5, <1>6, <1>7 DEF PollStep

\* The steps of Send and the interrupt that ends a transmission.
LEMMA TypeSend ==
  ASSUME TypeInv, SendStep \/ TxComplete
  PROVE  TypeInv'
<1>1. CASE SendPend
  <2>1. CASE queue = <<>>
    BY <1>1, <2>1 DEF SendPend, TypeInv, TypeOK, HandInv, SendInv, CursorInv,
                      poolVars, prodVars
  <2>2. CASE queue # <<>>
    <3>1. Head(queue) \in Buf /\ Tail(queue) \in Seq(Buf)
      BY <2>2, TailMembers DEF TypeInv, TypeOK
    <3> QED
      BY <1>1, <2>2, <3>1, ConstantsAssumption
         DEF SendPend, TypeInv, TypeOK, HandInv, SendInv, CursorInv,
             poolVars, prodVars
  <2> QED
    BY <2>1, <2>2
<1>2. CASE SendTransmit \/ TxComplete
  BY <1>2 DEF SendTransmit, TxComplete, TypeInv, TypeOK, HandInv, SendInv,
              CursorInv, poolVars, prodVars
<1>3. CASE SendCheck
  <2>1. ZeroPoll \in PollState
    BY ConstantsAssumption DEF ZeroPoll, PollState
  <2>2. poll' \in [Buf -> PollState]
    BY <1>3, <2>1 DEF SendCheck, TypeInv, TypeOK
  <2>3. \/ sendPc' = "recycle" /\ sendCur' = sendCur
        \/ sendPc' = "call" /\ sendCur' = NoBuf
    BY <1>3 DEF SendCheck
  <2>4. sendPc = "done"
    BY <1>3 DEF SendCheck
  <2> QED
    BY <1>3, <2>2, <2>3, <2>4
       DEF SendCheck, TypeInv, TypeOK, HandInv, SendInv, CursorInv, prodVars
<1>4. CASE SendRecycle
  <2>1. sendCur \in Buf
    BY <1>4 DEF SendRecycle, TypeInv, TypeOK, SendInv
  <2>2. free' \in Seq(Buf)
    BY <1>4, <2>1, AppendMembers DEF SendRecycle, TypeInv, TypeOK
  <2> QED
    BY <1>4, <2>2 DEF SendRecycle, TypeInv, TypeOK, HandInv, SendInv,
                      CursorInv, prodVars
<1> QED
  BY <1>1, <1>2, <1>3, <1>4 DEF SendStep

LEMMA TypeNext == TypeInv /\ [Next]_vars => TypeInv'
<1> SUFFICES ASSUME TypeInv, [Next]_vars PROVE TypeInv'
  OBVIOUS
<1>1. CASE UNCHANGED vars
  BY <1>1 DEF vars, poolVars, prodVars, sendVars, TypeInv, TypeOK, HandInv,
              SendInv, CursorInv
<1>2. ASSUME NEW t \in Producers, Start(t) \/ Producer(t) PROVE TypeInv'
  BY <1>2, TypeProducer
<1>3. CASE PollWake \/ PollStep
  BY <1>3, TypePoll
<1>4. CASE SendStep \/ TxComplete
  BY <1>4, TypeSend
<1> QED
  BY <1>1, <1>2, <1>3, <1>4 DEF Next

LEMMA TypeInvariant == Spec => []TypeInv
  BY TypeInit, TypeNext, PTL DEF Spec

\* Every variable keeps its type, for every number of buffers, every kernel
\* message pool and every set of producers, the two that share the static
\* pointer of uart_protocol_dispose included.
THEOREM TypeCorrect == Spec => []TypeOK
<1>1. TypeInv => TypeOK
  BY DEF TypeInv
<1> QED
  BY <1>1, TypeInvariant, PTL

=============================================================================
