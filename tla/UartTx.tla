------------------------------- MODULE UartTx -------------------------------
(***************************************************************************)
(* The serial transmit path of the bridge: everything between a task that  *)
(* has something to tell the host and the bytes leaving the UART.          *)
(*                                                                         *)
(* Producers take a buffer from the pool (app/buf_factory.c), write a      *)
(* frame into it and append it to g_uart_send_list.  Every 5 ms the Poll   *)
(* task walks that list under uart_poll_mutex and posts at most one buffer *)
(* to the Send task, which transmits it, waits for the DMA interrupt and   *)
(* returns replies to the pool; requests stay listed until the host        *)
(* answers or the retries run out.                                         *)
(*                                                                         *)
(* The tasks run under the fixed-priority preemptive scheduler of Micrium  *)
(* OS on one core: a task moves only when no more urgent task is ready.    *)
(* Interrupts (timer, DMA, radio) may happen in any state.                 *)
(***************************************************************************)
EXTENDS Naturals, FiniteSets, SequencesExt

CONSTANTS
  Buf,            \* the buffers of g_uart_send_buf
  NoBuf,          \* a null buffer pointer
  PoolOrder,      \* the order in which create_buf_factory lists the buffers
  Producers,      \* the tasks that send frames in this instance
  MsgPoolSize,    \* messages the kernel owns for OSQPost (0 in main.c)
  QSize,          \* capacity of app_uart_send_msg
  RetryPasses,    \* Poll passes in 500 ms
  MaxTimes,       \* transmissions of an unanswered request
  Timely,         \* TRUE: a transmission ends before its answer or its retry
  PhoneUpg        \* TRUE: a frame of the phone may carry REQ_UPG_DATA's cmd_id

AllProducers == {"main", "bleEvent", "bleParse", "uartParse"}

ASSUME ConstantsAssumption ==
  /\ NoBuf \notin Buf
  /\ PoolOrder \in Seq(Buf) /\ IsInjective(PoolOrder)
  /\ Producers \subseteq AllProducers
  /\ MsgPoolSize \in Nat
  /\ QSize \in Nat
  /\ RetryPasses \in Nat \ {0}
  /\ MaxTimes \in Nat \ {0}
  /\ Timely \in BOOLEAN
  /\ PhoneUpg \in BOOLEAN

VARIABLES
  free,       \* buf_factory->list: the pool, a FIFO
  sendList,   \* g_uart_send_list
  poll,       \* uart_poll_t of every buffer
  upgFrames,  \* the buffers whose frame carries cmd_id 0xD2, REQ_UPG_DATA
  job,        \* what each producer is sending now
  after,      \* what it goes on with afterwards
  step,       \* where in that send it is
  hand,       \* the buffer it took from the pool
  disBuf,     \* the static disSendpdata of uart_protocol_dispose
  pollPc,     \* control point of App_Uart_Poll_Task
  cursor,     \* its position in sendList
  sendPc,     \* control point of App_Uart_Send_Task
  sendCur,    \* its Data_OutQ
  queue       \* app_uart_send_msg

poolVars == <<free, poll, upgFrames>>
prodVars == <<job, after, step, hand, disBuf>>
sendVars == <<sendPc, sendCur, queue>>
vars == <<poolVars, sendList, prodVars, pollPc, cursor, sendVars>>

-----------------------------------------------------------------------------
(* Frames and control points.                                              *)

\* NTF and APP frames expect no answer, an ASK is one, a REQ waits for one.
FrameKind == {"NTF", "APP", "ASK", "REQ"}
\* uart_protocol_dispose builds notifications and requests; the other
\* producers fill a buffer of their own.
ViaDispose(k) == k \in {"NTF", "REQ"}
PollType(k) == IF k = "REQ" THEN 1 ELSE 0
\* Whether the frame's cmd_id is the one an answer is compared with: a frame
\* of the phone is forwarded with the header the phone gave it.
UpgCmd(k) == IF k = "APP" /\ PhoneUpg THEN BOOLEAN ELSE {k = "REQ"}

PollState == [type : {0, 1}, times : 0 .. MaxTimes,
              delay : 0 .. RetryPasses - 1, flag : BOOLEAN]
ZeroPoll == [type |-> 0, times |-> 0, delay |-> 0, flag |-> FALSE]

\* What may make each producer send: <<frame, continuation>>.  "ACK" is the
\* search of uart_protocol_parse for the request that was answered.
Work(t) ==
  CASE t = "main"      -> {}
    [] t = "bleEvent"  -> {<<"NTF", "idle">>}
    [] t = "bleParse"  -> {<<"APP", "idle">>}
    [] t = "uartParse" -> {<<"ASK", "idle">>, <<"ASK", "REQ">>,
                           <<"REQ", "ACK">>, <<"NTF", "ACK">>}

\* Mutant: Send is more urgent than Poll.
PrioSendFirst == [main |-> 6, bleEvent |-> 7, bleParse |-> 8,
                  poll |-> 10, uartParse |-> 11, send |-> 9]
Prio == [main |-> 6, bleEvent |-> 7, bleParse |-> 8,
         poll |-> 10, uartParse |-> 11, send |-> 12]

-----------------------------------------------------------------------------
(* The scheduler.                                                          *)

PollHoldsMutex == pollPc # "delay"

\* A producer that wants the list while Poll is in its pass.
Blocked(t) == /\ PollHoldsMutex
              /\ job[t] = "ACK" \/ (job[t] # "idle" /\ step[t] = "add")

Ready(t) ==
  CASE t = "poll" -> PollHoldsMutex
    [] t = "send" -> sendPc \in {"call", "got", "done", "recycle"}
    [] OTHER      -> t \in Producers /\ job[t] # "idle" /\ ~Blocked(t)

\* The owner of a mutex inherits the priorities of the tasks it blocks.
Priorities(t) ==
  {Prio[t]} \cup {Prio[w] : w \in {v \in Producers : t = "poll" /\ Blocked(v)}}

Outranks(u, t) == \E p \in Priorities(u) : \A q \in Priorities(t) : p < q

CanRun(t) ==
  \A u \in DOMAIN Prio \ {t} : Ready(u) => ~Outranks(u, t)

-----------------------------------------------------------------------------
Init ==
  /\ free = PoolOrder
  /\ sendList = <<>>
  /\ poll = [b \in Buf |-> ZeroPoll]
  /\ upgFrames = {}
  /\ \E boot \in {"idle", "NTF"} :     \* the reboot may follow an upgrade
       job = [t \in Producers |-> IF t = "main" THEN boot ELSE "idle"]
  /\ after = [t \in Producers |-> "idle"]
  /\ step = [t \in Producers |-> "produce"]
  /\ hand = [t \in Producers |-> NoBuf]
  /\ disBuf = NoBuf
  /\ pollPc = "delay"
  /\ cursor = 1
  /\ sendPc = "call"
  /\ sendCur = NoBuf
  /\ queue = <<>>

-----------------------------------------------------------------------------
(* The producers.                                                          *)

\* An event wakes an idle producer: a frame from the host or the phone, a
\* change of the connection.
Start(t) ==
  /\ job[t] = "idle"
  /\ \E w \in Work(t) :
       /\ job' = [job EXCEPT ![t] = w[1]]
       /\ after' = [after EXCEPT ![t] = w[2]]
  /\ UNCHANGED <<poolVars, sendList, step, hand, disBuf, pollPc, cursor,
                 sendVars>>

\* The producer goes on with its next job.
Continue(t) ==
  /\ job' = [job EXCEPT ![t] = after[t]]
  /\ after' = [after EXCEPT ![t] = "idle"]
  /\ step' = [step EXCEPT ![t] = "produce"]
  /\ hand' = [hand EXCEPT ![t] = NoBuf]

At(t, s) == job[t] \in FrameKind /\ step[t] = s /\ CanRun(t)

\* buf_factory_produce returns the oldest free buffer.
Produce(t) ==
  /\ At(t, "produce")
  /\ free # <<>>
  /\ free' = Tail(free)
  /\ hand' = [hand EXCEPT ![t] = Head(free)]
  /\ step' = [step EXCEPT ![t] = IF ViaDispose(job[t]) THEN "point" ELSE "fill"]
  /\ UNCHANGED <<sendList, poll, upgFrames, job, after, disBuf, pollPc, cursor,
                 sendVars>>

\* uart_protocol_dispose points the static disSendpdata at its buffer.
Point(t) ==
  /\ At(t, "point")
  /\ disBuf' = hand[t]
  /\ step' = [step EXCEPT ![t] = "fill"]
  /\ UNCHANGED <<poolVars, sendList, job, after, hand, pollPc, cursor,
                 sendVars>>

\* buf_factory_produce returns NULL: the frame is dropped.  upg_request_rsp
\* returns before its request, upg_data_rsp still reports the answer.
ProduceNull(t) ==
  /\ At(t, "produce")
  /\ free = <<>>
  /\ job' = [job EXCEPT ![t] = IF after[t] = "ACK" THEN "ACK" ELSE "idle"]
  /\ after' = [after EXCEPT ![t] = "idle"]
  /\ UNCHANGED <<poolVars, sendList, step, hand, disBuf, pollPc, cursor,
                 sendVars>>

\* The buffer a producer writes and lists: through the shared static pointer
\* in uart_protocol_dispose, through a pointer of its own elsewhere.
Target(t) == IF ViaDispose(job[t]) THEN disBuf ELSE hand[t]

\* The frame is written.  App_Ble_Parse_Task sets poll.type and leaves the
\* rest of poll as the pool left it; the others clear poll first.
Fill(t) ==
  /\ At(t, "fill")
  /\ LET b == Target(t)
         old == IF job[t] = "APP" THEN poll[b] ELSE ZeroPoll
     IN /\ poll' = [poll EXCEPT ![b] = [old EXCEPT !.type = PollType(job[t])]]
        /\ \E upg \in UpgCmd(job[t]) :
             upgFrames' = IF upg THEN upgFrames \cup {b} ELSE upgFrames \ {b}
  /\ step' = [step EXCEPT ![t] = "add"]
  /\ UNCHANGED <<free, sendList, job, after, hand, disBuf, pollPc, cursor,
                 sendVars>>

\* list_add_tail under uart_poll_mutex.
Add(t) ==
  /\ At(t, "add")
  /\ ~Blocked(t)
  /\ sendList' = Append(sendList, Target(t))
  /\ Continue(t)
  /\ UNCHANGED <<poolVars, disBuf, pollPc, cursor, sendVars>>

\* The buffers posted to Send that it is not done with.
InFlight == Range(queue) \cup ({sendCur} \ {NoBuf})

\* The listed frames an answer may match by sn and cmd_id.  poll.type is not
\* compared: a frame of the phone is matched as well as a request.
Answerable == {b \in Range(sendList) :
                 /\ b \in upgFrames
                 /\ Timely /\ poll[b].type = 1
                      => poll[b].times > 0 /\ b \notin InFlight}

\* uart_protocol_parse marks the first frame that matches; a late or
\* duplicate answer may match nothing.
Ack(t) ==
  /\ job[t] = "ACK" /\ CanRun(t) /\ ~Blocked(t)
  /\ \/ \E b \in Answerable : poll' = [poll EXCEPT ![b].flag = TRUE]
     \/ poll' = poll
  /\ Continue(t)
  /\ UNCHANGED <<free, upgFrames, sendList, disBuf, pollPc, cursor, sendVars>>

Producer(t) == \/ Produce(t) \/ ProduceNull(t) \/ Point(t) \/ Fill(t)
               \/ Add(t) \/ Ack(t)

-----------------------------------------------------------------------------
(* OSQPost: to the pending Send task if there is one, else to the queue,   *)
(* which needs a free OS_MSG.  The error code is ignored: otherwise the    *)
(* message is lost.                                                        *)

\* Mutant: OS_MsgQPut keeps one entry in reserve.
QueueHasLessRoom == Len(queue) + 1 < QSize /\ Len(queue) + 1 < MsgPoolSize
QueueHasRoom == Len(queue) < QSize /\ Len(queue) < MsgPoolSize

\* Mutant: OS_OPT_POST_LIFO.
PostLifo(b) ==
  IF sendPc = "pend"
    THEN sendPc' = "got" /\ sendCur' = b /\ UNCHANGED queue
    ELSE /\ queue' = IF QueueHasRoom THEN <<b>> \o queue ELSE queue
         /\ UNCHANGED <<sendPc, sendCur>>

Post(b) ==
  IF sendPc = "pend"
    THEN sendPc' = "got" /\ sendCur' = b /\ UNCHANGED queue
    ELSE /\ queue' = IF QueueHasRoom THEN Append(queue, b) ELSE queue
         /\ UNCHANGED <<sendPc, sendCur>>

-----------------------------------------------------------------------------
(* App_Uart_Poll_Task: one pass over the list, holding uart_poll_mutex.    *)

Entry == sendList[cursor]

PollWake ==
  /\ pollPc = "delay" /\ CanRun("poll")
  /\ pollPc' = "walk"
  /\ cursor' = 1
  /\ UNCHANGED <<poolVars, sendList, prodVars, sendVars>>

Walking == pollPc = "walk" /\ CanRun("poll")
AtEntry == Walking /\ cursor <= Len(sendList)

EndPass == pollPc' = "delay" /\ cursor' = 1

PollEnd ==
  /\ Walking /\ cursor > Len(sendList)
  /\ EndPass
  /\ UNCHANGED <<poolVars, sendList, prodVars, sendVars>>

\* A reply is handed over for good: Send will free it.
PollPostReply ==
  /\ AtEntry /\ poll[Entry].type = 0
  /\ poll' = [poll EXCEPT ![Entry].flag = TRUE]
  /\ Post(Entry)
  /\ pollPc' = "unlink"
  /\ UNCHANGED <<free, sendList, upgFrames, prodVars, cursor>>

\* Mutant: Poll recycles the reply it has just posted.
PollUnlinkRecycle ==
  /\ pollPc = "unlink" /\ CanRun("poll")
  /\ sendList' = RemoveAt(sendList, cursor)
  /\ free' = Append(free, Entry)
  /\ EndPass
  /\ UNCHANGED <<poll, upgFrames, prodVars, sendVars>>

PollUnlink ==
  /\ pollPc = "unlink" /\ CanRun("poll")
  /\ sendList' = RemoveAt(sendList, cursor)
  /\ EndPass
  /\ UNCHANGED <<poolVars, prodVars, sendVars>>

IsRequest == AtEntry /\ poll[Entry].type = 1

PollFirstSend ==
  /\ IsRequest /\ poll[Entry].times = 0
  /\ poll' = [poll EXCEPT ![Entry].times = 1]
  /\ Post(Entry)
  /\ EndPass
  /\ UNCHANGED <<free, sendList, upgFrames, prodVars>>

\* The entry leaves the list and its buffer goes back to the pool.
ReleaseEntry ==
  /\ sendList' = RemoveAt(sendList, cursor)
  /\ poll' = [poll EXCEPT ![Entry] = ZeroPoll]
  /\ free' = Append(free, Entry)
  /\ UNCHANGED <<upgFrames, prodVars, pollPc, cursor, sendVars>>

PollReap ==
  /\ IsRequest /\ poll[Entry].times > 0 /\ poll[Entry].flag
  /\ ReleaseEntry

Unanswered == IsRequest /\ poll[Entry].times > 0 /\ ~poll[Entry].flag

\* 500 ms have passed since the last transmission was posted.
Expired == /\ poll[Entry].delay + 1 >= RetryPasses
           /\ Timely => Entry \notin InFlight

\* Mutant: the delay is never advanced.
PollNoTick ==
  /\ Unanswered /\ ~Expired
  /\ cursor' = cursor + 1
  /\ UNCHANGED <<free, poll, upgFrames, sendList, prodVars, pollPc, sendVars>>

PollTick ==
  /\ Unanswered /\ ~Expired
  /\ poll' = [poll EXCEPT ![Entry].delay =
                IF @ + 1 < RetryPasses THEN @ + 1 ELSE @]
  /\ cursor' = cursor + 1
  /\ UNCHANGED <<free, upgFrames, sendList, prodVars, pollPc, sendVars>>

\* Mutant: a request is retried for ever.
PollRetryForever ==
  /\ Unanswered /\ Expired
  /\ poll' = [poll EXCEPT ![Entry].delay = 0, ![Entry].times = @ + 1]
  /\ Post(Entry)
  /\ EndPass
  /\ UNCHANGED <<free, upgFrames, sendList, prodVars>>

PollRetry ==
  /\ Unanswered /\ Expired /\ poll[Entry].times < MaxTimes
  /\ poll' = [poll EXCEPT ![Entry].delay = 0, ![Entry].times = @ + 1]
  /\ Post(Entry)
  /\ EndPass
  /\ UNCHANGED <<free, upgFrames, sendList, prodVars>>

\* Mutant: an abandoned request is unlinked but not recycled.
PollGiveUpNoRecycle ==
  /\ Unanswered /\ Expired /\ poll[Entry].times >= MaxTimes
  /\ sendList' = RemoveAt(sendList, cursor)
  /\ poll' = [poll EXCEPT ![Entry] = ZeroPoll]
  /\ UNCHANGED <<free, upgFrames, prodVars, pollPc, cursor, sendVars>>

PollGiveUp ==
  /\ Unanswered /\ Expired /\ poll[Entry].times >= MaxTimes
  /\ ReleaseEntry

PollPosts == PollPostReply \/ PollFirstSend \/ PollRetry

PollStep == \/ PollEnd \/ PollUnlink \/ PollReap \/ PollTick \/ PollGiveUp
            \/ PollPosts

-----------------------------------------------------------------------------
(* App_Uart_Send_Task.                                                     *)

SendPend ==
  /\ sendPc = "call" /\ CanRun("send")
  /\ IF queue = <<>>
       THEN sendPc' = "pend" /\ UNCHANGED <<sendCur, queue>>
       ELSE /\ sendPc' = "got"
            /\ sendCur' = Head(queue)
            /\ queue' = Tail(queue)
  /\ UNCHANGED <<poolVars, sendList, prodVars, pollPc, cursor>>

\* app_usart_transmit starts the DMA, then OSSemPend waits for it.  The
\* semaphore counts, so it does not matter which of the two is first.
SendTransmit ==
  /\ sendPc = "got" /\ CanRun("send")
  /\ sendPc' = "wait"
  /\ UNCHANGED <<poolVars, sendList, prodVars, pollPc, cursor, sendCur, queue>>

\* The DMA interrupt posts app_uart_send_complete_sem.
TxComplete ==
  /\ sendPc = "wait"
  /\ sendPc' = "done"
  /\ UNCHANGED <<poolVars, sendList, prodVars, pollPc, cursor, sendCur, queue>>

\* Mutant: the test of poll.type is missing, as in the line commented out at
\* app/uart_communicate.c:72.
SendCheckFlagOnly ==
  /\ sendPc = "done" /\ CanRun("send")
  /\ IF poll[sendCur].flag
       THEN /\ poll' = [poll EXCEPT ![sendCur] = ZeroPoll]
            /\ sendPc' = "recycle" /\ UNCHANGED sendCur
       ELSE sendPc' = "call" /\ sendCur' = NoBuf /\ UNCHANGED poll
  /\ UNCHANGED <<free, upgFrames, sendList, prodVars, pollPc, cursor, queue>>

\* A reply is cleared, to be recycled; a request stays with the list.
SendCheck ==
  /\ sendPc = "done" /\ CanRun("send")
  /\ IF poll[sendCur].flag /\ poll[sendCur].type = 0
       THEN /\ poll' = [poll EXCEPT ![sendCur] = ZeroPoll]
            /\ sendPc' = "recycle"
            /\ UNCHANGED sendCur
       ELSE sendPc' = "call" /\ sendCur' = NoBuf /\ UNCHANGED poll
  /\ UNCHANGED <<free, upgFrames, sendList, prodVars, pollPc, cursor, queue>>

SendRecycle ==
  /\ sendPc = "recycle" /\ CanRun("send")
  /\ free' = Append(free, sendCur)
  /\ sendPc' = "call" /\ sendCur' = NoBuf
  /\ UNCHANGED <<poll, upgFrames, sendList, prodVars, pollPc, cursor, queue>>

SendStep == SendPend \/ SendTransmit \/ SendCheck \/ SendRecycle

-----------------------------------------------------------------------------
Next ==
  \/ \E t \in Producers : Start(t) \/ Producer(t)
  \/ PollWake
  \/ PollStep
  \/ SendStep
  \/ TxComplete

Spec == Init /\ [][Next]_vars

\* Every task gets the processor in the end: the more urgent ones block or
\* sleep between bursts, so what is enabled again and again is done.  The
\* DMA always finishes.  Nothing obliges the environment to start a send.
Fairness ==
  /\ \A t \in Producers : SF_vars(Producer(t))
  /\ SF_vars(PollWake)
  /\ SF_vars(PollStep)
  /\ SF_vars(SendStep)
  /\ WF_vars(TxComplete)

FairSpec == Spec /\ Fairness

-----------------------------------------------------------------------------
(* Properties.                                                             *)

TypeOK ==
  /\ free \in Seq(Buf)
  /\ sendList \in Seq(Buf)
  /\ poll \in [Buf -> PollState]
  /\ upgFrames \subseteq Buf
  /\ job \in [Producers -> FrameKind \cup {"idle", "ACK"}]
  /\ after \in [Producers -> {"idle", "REQ", "ACK"}]
  /\ step \in [Producers -> {"produce", "point", "fill", "add"}]
  /\ hand \in [Producers -> Buf \cup {NoBuf}]
  /\ disBuf \in Buf \cup {NoBuf}
  /\ pollPc \in {"delay", "walk", "unlink"}
  /\ cursor \in Nat \ {0}
  /\ sendPc \in {"call", "pend", "got", "wait", "done", "recycle"}
  /\ sendCur \in Buf \cup {NoBuf}
  /\ queue \in Seq(Buf)

\* The buffers producers have taken and not listed yet.
Held == {hand[t] : t \in {u \in Producers : hand[u] # NoBuf}}
\* The buffer Send is about to put back in the pool.
Recycling == IF sendPc = "recycle" THEN {sendCur} ELSE {}

\* A buffer has one owner at a time: it is free, in one producer's hands,
\* listed once, or being recycled.  No interleaving of producers, Poll, Send
\* and answers frees or lists a buffer twice (the double list_add_tail that
\* would corrupt g_uart_send_list or the pool).
ExclusiveOwnership ==
  /\ IsInjective(free) /\ IsInjective(sendList)
  /\ Range(free) \cap Range(sendList) = {}
  /\ Held \cap (Range(free) \cup Range(sendList)) = {}
  /\ \A t, u \in Producers : hand[t] = hand[u] /\ hand[t] # NoBuf => t = u
  /\ Recycling \cap (Range(free) \cup Range(sendList) \cup Held) = {}

\* No buffer is lost: whatever is not in the pool is with a producer, on the
\* list, or on its way through Send.
NoLeak ==
  Buf = Range(free) \cup Held \cup Range(sendList) \cup InFlight

\* What Poll posts reaches Send: "OSQPost in a row would be lost by OSQPend,
\* therefore only one send action of the list per pass"
\* (app/uart_communicate.c:212).
NoPostLost == [][PollPosts => Entry \in InFlight']_vars

\* The same of a frame posted while Send waits for the end of a transmission:
\* it is queued until Send pends again.
PostDuringSend ==
  [][PollPosts /\ sendPc = "wait" => Entry \in InFlight']_vars

\* A request that uart_protocol_dispose accepts is listed, so that it is sent
\* until the host answers: poll_type "1: must wait for a response"
\* (app/uart_ptl.h:79).
RequestIsListed ==
  [][\A t \in Producers :
       Add(t) /\ job[t] = "REQ" => hand[t] \in Range(sendList')]_vars

\* A frame is not overwritten between the moment it is listed and the end of
\* its transmission: a buffer on its way through Send is never in the pool
\* nor in a producer's hands.
FrameIntegrity ==
  (InFlight \ Recycling) \cap (Range(free) \cup Held) = {}

\* Pool buffers come back: no buffer is out of the pool for ever.
PoolReplenished == \A b \in Buf : []<>(b \in Range(free))

=============================================================================
