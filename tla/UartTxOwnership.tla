-------------------------- MODULE UartTxOwnership ---------------------------
(***************************************************************************)
(* Every transmit buffer has one owner at a time, for every number of      *)
(* buffers and every kernel message pool, provided that Ble_Event_Task     *)
(* and App_Uart_Parse_Task do not both use uart_protocol_dispose, and that *)
(* either answers and retries come after the end of a transmission or no   *)
(* frame of the phone is taken for the request that is answered.  If       *)
(* answers and retries come after the end of a transmission, no frame is   *)
(* overwritten before it was sent, and with a kernel message per buffer    *)
(* nothing posted is lost, no buffer leaks, and the path implements        *)
(* Outbox.                                                                 *)
(***************************************************************************)
EXTENDS UartTxProofs, UartTxOutbox

\* The static pointer of uart_protocol_dispose has one user (besides
\* App_Main_Task, which calls it once before any other task runs).
OneDisposer == ~({"bleEvent", "uartParse"} \subseteq Producers)

-----------------------------------------------------------------------------
(* The inductive invariant.                                                *)

\* The static pointer is the buffer its user took.
StaticInv ==
  \A t \in Producers :
    step[t] \in {"fill", "add"} /\ ViaDispose(job[t]) => disBuf = hand[t]

\* Who sends what.
JobInv ==
  \A t \in Producers : /\ ViaDispose(job[t]) => t # "bleParse"
                       /\ after[t] # "idle" => t = "uartParse"

\* Until App_Main_Task is done with its notification nobody else moves.
BootInv ==
  "main" \in Producers /\ job["main"] # "idle" =>
    /\ pollPc = "delay"
    /\ \A t \in Producers \ {"main"} : step[t] = "produce"

\* free_flag is never set in a buffer that is free or being filled.  If no
\* answer matches a frame of the phone, a listed reply has it only between
\* Poll's post and its list_del.
FlagInv ==
  \A b \in Buf : poll[b].flag =>
    /\ b \notin Range(free) \cup Held
    /\ ~PhoneUpg /\ poll[b].type = 0 /\ b \in Range(sendList)
         => pollPc = "unlink" /\ b = Entry

UnlinkInv == pollPc = "unlink" => poll[Entry].flag /\ poll[Entry].type = 0

\* If no frame of the phone carries the upgrade's cmd_id, what an answer can
\* match is a request.
ReqInv ==
  ~PhoneUpg =>
    /\ \A b \in Range(sendList) \cap upgFrames : poll[b].type = 1
    /\ \A t \in Producers : step[t] = "add" /\ hand[t] \in upgFrames
                              => poll[hand[t]].type = 1

RecycleInv == sendPc = "recycle" => ~poll[sendCur].flag

OwnInv == /\ ExclusiveOwnership /\ StaticInv /\ JobInv /\ BootInv
          /\ FlagInv /\ UnlinkInv /\ ReqInv /\ RecycleInv

-----------------------------------------------------------------------------
(* Consequences of the invariants and of the scheduler.                    *)

\* Send never runs while Poll is between its post and its list_del: its
\* priority is the lower one (app/uart_communicate.c:18).
LEMMA SendWaitsForPoll == CanRun("send") => pollPc = "delay"
BY DEF CanRun, Ready, Outranks, Priorities, Prio, PollHoldsMutex

\* Nobody runs before App_Main_Task has sent its notification.
LEMMA MainFirst ==
  ASSUME BootInv, "main" \in Producers, job["main"] # "idle",
         NEW t \in {"bleEvent", "bleParse", "uartParse", "poll"}
  PROVE  ~CanRun(t)
BY DEF BootInv, CanRun, Ready, Outranks, Priorities, Prio, Blocked,
       PollHoldsMutex

\* What a producer fills and lists is the buffer it took.
LEMMA TargetIsHand ==
  ASSUME TypeInv, OwnInv, NEW t \in Producers, step[t] \in {"fill", "add"}
  PROVE  Target(t) = hand[t] /\ hand[t] \in Held /\ hand[t] \in Buf
BY DEF TypeInv, TypeOK, HandInv, OwnInv, StaticInv, Target, Held

LEMMA OwnInit == Init => OwnInv
<1> SUFFICES ASSUME Init PROVE OwnInv
  OBVIOUS
<1>1. /\ Range(sendList) = {} /\ Held = {} /\ Recycling = {}
      /\ IsInjective(sendList)
  BY DEF Init, Range, Held, Recycling, IsInjective
<1>2. ExclusiveOwnership
  BY <1>1, ConstantsAssumption DEF Init, ExclusiveOwnership
<1>3. JobInv
  BY DEF Init, JobInv, ViaDispose
<1>4. StaticInv /\ BootInv /\ UnlinkInv /\ ReqInv /\ RecycleInv
  BY <1>1 DEF Init, StaticInv, BootInv, UnlinkInv, ReqInv, RecycleInv
<1>5. FlagInv
  BY DEF Init, FlagInv, ZeroPoll
<1> QED
  BY <1>2, <1>3, <1>4, <1>5 DEF OwnInv

-----------------------------------------------------------------------------
(* The steps of the producers.                                             *)

LEMMA OwnStart ==
  ASSUME TypeInv, OwnInv, NEW t \in Producers, Start(t)
  PROVE  OwnInv'
<1>1. /\ t \in AllProducers \ {"main"} /\ step[t] = "produce" /\ job[t] = "idle"
      /\ UNCHANGED <<free, poll, upgFrames, sendList, step, hand, disBuf,
                     pollPc, cursor, sendPc, sendCur, queue>>
  BY ConstantsAssumption
     DEF Start, Work, TypeInv, HandInv, FrameKind, poolVars, sendVars,
         AllProducers
<1>2. /\ job' = [job EXCEPT ![t] = job'[t]]
      /\ after' = [after EXCEPT ![t] = after'[t]]
      /\ t = "bleParse" => job'[t] = "APP"
      /\ t # "uartParse" => after'[t] = "idle"
  BY <1>1 DEF Start, Work, TypeInv, TypeOK, AllProducers
<1>3. Held' = Held /\ Recycling' = Recycling /\ Entry' = Entry
  BY <1>1 DEF Held, Recycling, Entry
<1>4. ExclusiveOwnership' /\ FlagInv' /\ UnlinkInv' /\ ReqInv' /\ RecycleInv'
  BY <1>1, <1>3 DEF OwnInv, ExclusiveOwnership, FlagInv, UnlinkInv, ReqInv,
                    RecycleInv
<1>5. StaticInv' /\ BootInv'
  BY <1>1, <1>2 DEF OwnInv, StaticInv, BootInv, TypeInv, TypeOK
<1>6. JobInv'
  BY <1>2 DEF OwnInv, JobInv, TypeInv, TypeOK, ViaDispose
<1> QED
  BY <1>4, <1>5, <1>6 DEF OwnInv

\* A producer that runs is alone with the static pointer.
LEMMA OnlyDisposer ==
  ASSUME TypeInv, OwnInv, OneDisposer,
         NEW t \in Producers, ViaDispose(job[t]), CanRun(t),
         NEW u \in Producers, step[u] \in {"fill", "add"}, ViaDispose(job[u])
  PROVE  u = t
<1>1. {t, u} \subseteq {"main", "bleEvent", "uartParse"}
  BY ConstantsAssumption DEF OwnInv, JobInv, AllProducers
<1>2. CASE t = "main"
  BY <1>1, <1>2 DEF OwnInv, BootInv, ViaDispose
<1>3. CASE t # "main"
  <2>1. u # "main"
    <3>1. job[u] # "idle" /\ t \in {"bleEvent", "bleParse", "uartParse", "poll"}
      BY <1>1, <1>3 DEF ViaDispose
    <3> QED
      BY <3>1, MainFirst DEF OwnInv
  <2> QED
    BY <1>1, <1>3, <2>1 DEF OneDisposer
<1> QED
  BY <1>2, <1>3

\* If App_Main_Task is not done, the producer that runs is App_Main_Task.
LEMMA BootOnly ==
  ASSUME OwnInv, NEW t \in Producers, CanRun(t),
         "main" \in Producers, job["main"] # "idle"
  PROVE  t = "main" /\ pollPc = "delay"
<1>1. t \in {"main", "bleEvent", "bleParse", "uartParse"}
  BY ConstantsAssumption DEF AllProducers
<1> QED
  BY <1>1, MainFirst DEF OwnInv, BootInv

LEMMA OwnProduce ==
  ASSUME TypeInv, OwnInv, NEW t \in Producers, Produce(t)
  PROVE  OwnInv'
<1> DEFINE b == Head(free)
<1>1. /\ CanRun(t) /\ step[t] = "produce" /\ hand[t] = NoBuf
      /\ b \in Buf /\ b # NoBuf /\ b \in Range(free) /\ free' = Tail(free)
      /\ Range(free') \subseteq Range(free) /\ b \notin Range(free')
      /\ IsInjective(free')
      /\ hand' = [hand EXCEPT ![t] = b]
      /\ step' = [step EXCEPT
                     ![t] = IF ViaDispose(job[t]) THEN "point" ELSE "fill"]
      /\ UNCHANGED <<sendList, poll, upgFrames, job, after, disBuf, pollPc,
                     cursor, sendPc, sendCur, queue>>
  BY TailMembers, ConstantsAssumption
     DEF Produce, At, TypeInv, TypeOK, HandInv, OwnInv, ExclusiveOwnership,
         sendVars
<1> HIDE DEF b
<1>2. Held' = Held \cup {b}
  BY <1>1 DEF Held, TypeInv, TypeOK
<1>3. Recycling' = Recycling /\ Entry' = Entry
  BY <1>1 DEF Recycling, Entry
<1>4. ExclusiveOwnership'
  <2>1. /\ Range(free') \cap Range(sendList) = {}
        /\ Held' \cap (Range(free') \cup Range(sendList)) = {}
        /\ Recycling' \cap (Range(free') \cup Range(sendList) \cup Held') = {}
    BY <1>1, <1>2, <1>3 DEF OwnInv, ExclusiveOwnership
  <2>2. ASSUME NEW u \in Producers, NEW v \in Producers,
               hand'[u] = hand'[v], hand'[u] # NoBuf
        PROVE  u = v
    <3>1. \A w \in Producers : hand[w] # b
      BY <1>1 DEF OwnInv, ExclusiveOwnership, Held
    <3> QED
      BY <1>1, <2>2, <3>1
         DEF OwnInv, ExclusiveOwnership, TypeInv, TypeOK
  <2> QED
    BY <1>1, <2>1, <2>2 DEF OwnInv, ExclusiveOwnership
<1>5. StaticInv'
  BY <1>1 DEF OwnInv, StaticInv, TypeInv, TypeOK
<1>6. JobInv' /\ UnlinkInv' /\ RecycleInv'
  BY <1>1, <1>3 DEF OwnInv, JobInv, UnlinkInv, RecycleInv
<1>7. BootInv'
  BY <1>1, BootOnly DEF OwnInv, BootInv, TypeInv, TypeOK
<1>8. FlagInv'
  BY <1>1, <1>2, <1>3 DEF OwnInv, FlagInv
<1>9. ReqInv'
  BY <1>1 DEF OwnInv, ReqInv, TypeInv, TypeOK
<1> QED
  BY <1>4, <1>5, <1>6, <1>7, <1>8, <1>9 DEF OwnInv

\* The static pointer is set: nobody else is filling through it.
LEMMA OwnPoint ==
  ASSUME TypeInv, OwnInv, OneDisposer, NEW t \in Producers, Point(t)
  PROVE  OwnInv'
<1>1. /\ CanRun(t) /\ step[t] = "point" /\ disBuf' = hand[t]
      /\ step' = [step EXCEPT ![t] = "fill"]
      /\ UNCHANGED <<free, poll, upgFrames, sendList, job, after, hand, pollPc,
                     cursor, sendPc, sendCur, queue>>
  BY DEF Point, At, poolVars, sendVars
<1>2. Held' = Held /\ Recycling' = Recycling /\ Entry' = Entry
  BY <1>1 DEF Held, Recycling, Entry
<1>3. ExclusiveOwnership' /\ FlagInv' /\ UnlinkInv' /\ RecycleInv' /\ JobInv'
  BY <1>1, <1>2 DEF OwnInv, ExclusiveOwnership, FlagInv, UnlinkInv, RecycleInv,
                    JobInv
<1>4. StaticInv'
  <2>1. ASSUME NEW u \in Producers, u # t, step'[u] \in {"fill", "add"},
               ViaDispose(job'[u])
        PROVE  FALSE
    <3>1. step[u] \in {"fill", "add"} /\ ViaDispose(job[u])
      BY <1>1, <2>1 DEF TypeInv, TypeOK
    <3>2. ViaDispose(job[t])
      BY <1>1 DEF TypeInv, HandInv
    <3> QED
      BY <1>1, <2>1, <3>1, <3>2, OnlyDisposer
  <2> QED
    BY <1>1, <2>1 DEF StaticInv
<1>5. BootInv'
  BY <1>1, BootOnly DEF OwnInv, BootInv, TypeInv, TypeOK
<1>6. ReqInv'
  BY <1>1 DEF OwnInv, ReqInv, TypeInv, TypeOK
<1> QED
  BY <1>3, <1>4, <1>5, <1>6 DEF OwnInv

LEMMA OwnProduceNull ==
  ASSUME TypeInv, OwnInv, NEW t \in Producers, ProduceNull(t)
  PROVE  OwnInv'
<1>1. /\ CanRun(t) /\ step[t] = "produce"
      /\ job' = [job EXCEPT ![t] = IF after[t] = "ACK" THEN "ACK" ELSE "idle"]
      /\ after' = [after EXCEPT ![t] = "idle"]
      /\ UNCHANGED <<free, poll, upgFrames, sendList, step, hand, disBuf,
                     pollPc, cursor, sendPc, sendCur, queue>>
  BY DEF ProduceNull, At, poolVars, sendVars
<1>2. Held' = Held /\ Recycling' = Recycling /\ Entry' = Entry
  BY <1>1 DEF Held, Recycling, Entry
<1>3. ExclusiveOwnership' /\ FlagInv' /\ UnlinkInv' /\ ReqInv' /\ RecycleInv'
  BY <1>1, <1>2 DEF OwnInv, ExclusiveOwnership, FlagInv, UnlinkInv, ReqInv,
                    RecycleInv
<1>4. StaticInv' /\ JobInv'
  BY <1>1 DEF OwnInv, StaticInv, JobInv, TypeInv, TypeOK, ViaDispose
<1>5. BootInv'
  <2>1. "main" \in Producers /\ job'["main"] # "idle" => job["main"] # "idle"
    BY <1>1 DEF OwnInv, JobInv, TypeInv, TypeOK
  <2> QED
    BY <1>1, <2>1 DEF OwnInv, BootInv
<1> QED
  BY <1>3, <1>4, <1>5 DEF OwnInv

LEMMA OwnFill ==
  ASSUME TypeInv, OwnInv, NEW t \in Producers, Fill(t)
  PROVE  OwnInv'
<1> DEFINE b == hand[t]
           old == IF job[t] = "APP" THEN poll[b] ELSE ZeroPoll
           new == [old EXCEPT !.type = PollType(job[t])]
<1>1. /\ CanRun(t) /\ step[t] = "fill" /\ job[t] \in FrameKind
      /\ Target(t) = b /\ b \in Held /\ b \in Buf
  BY TargetIsHand DEF Fill, At
<1>2. /\ poll' = [poll EXCEPT ![b] = new]
      /\ upgFrames' \in {upgFrames \cup {b}, upgFrames \ {b}}
      /\ ~PhoneUpg /\ job[t] # "REQ" => b \notin upgFrames'
      /\ step' = [step EXCEPT ![t] = "add"]
      /\ UNCHANGED <<free, sendList, job, after, hand, disBuf, pollPc, cursor,
                     sendPc, sendCur, queue>>
  BY <1>1 DEF Fill, UpgCmd, sendVars
<1>3. ~new.flag /\ new.type = PollType(job[t])
  <2>1. old \in PollState /\ ~old.flag
    BY <1>1, ConstantsAssumption
       DEF OwnInv, FlagInv, TypeInv, TypeOK, PollState, ZeroPoll
  <2> HIDE DEF old
  <2> QED
    BY <2>1 DEF PollState
<1> HIDE DEF new
<1>4. /\ poll'[b] = new
      /\ \A x \in Buf : x # b => poll'[x] = poll[x]
  BY <1>1, <1>2 DEF TypeInv, TypeOK
<1>5. Held' = Held /\ Recycling' = Recycling /\ Entry' = Entry
  BY <1>2 DEF Held, Recycling, Entry
<1>6. b \notin Range(sendList) /\ b \notin Recycling
  BY <1>1 DEF OwnInv, ExclusiveOwnership
<1>7. ExclusiveOwnership'
  BY <1>2, <1>5 DEF OwnInv, ExclusiveOwnership
<1>8. StaticInv' /\ JobInv' /\ BootInv'
  BY <1>1, <1>2 DEF OwnInv, StaticInv, JobInv, BootInv, TypeInv, TypeOK
<1>9. FlagInv'
  BY <1>2, <1>3, <1>4, <1>5 DEF OwnInv, FlagInv
<1>10. UnlinkInv'
  <2>1. pollPc = "unlink" => Entry \in Buf /\ Entry # b
    BY <1>6, EntryType DEF TypeInv, CursorInv
  <2> QED
    BY <1>2, <1>4, <1>5, <2>1 DEF OwnInv, UnlinkInv
<1>11. ReqInv'
  <2> SUFFICES ASSUME ~PhoneUpg PROVE ReqInv'
    BY DEF ReqInv
  <2>1. ASSUME NEW x \in Range(sendList') \cap upgFrames'
        PROVE  poll'[x].type = 1
    <3>1. x \in Range(sendList) \cap upgFrames /\ x # b /\ x \in Buf
      BY <1>2, <1>6, RangeOfSeq DEF TypeInv, TypeOK
    <3> QED
      BY <1>4, <3>1 DEF OwnInv, ReqInv
  <2>2. ASSUME NEW u \in Producers, step'[u] = "add", hand'[u] \in upgFrames'
        PROVE  poll'[hand'[u]].type = 1
    <3>1. CASE u = t
      BY <1>2, <1>3, <1>4, <2>2, <3>1 DEF PollType
    <3>2. CASE u # t
      <4>1. step[u] = "add" /\ hand[u] # b /\ hand[u] # NoBuf /\ hand[u] \in Buf
        BY <1>1, <1>2, <2>2, <3>2
           DEF OwnInv, ExclusiveOwnership, TypeInv, TypeOK, HandInv
      <4> QED
        BY <1>2, <1>4, <2>2, <4>1 DEF OwnInv, ReqInv
    <3> QED
      BY <3>1, <3>2
  <2> QED
    BY <2>1, <2>2 DEF ReqInv
<1>12. RecycleInv'
  BY <1>2, <1>4, <1>6
     DEF OwnInv, RecycleInv, Recycling, TypeInv, TypeOK, SendInv
<1> QED
  BY <1>7, <1>8, <1>9, <1>10, <1>11, <1>12 DEF OwnInv

LEMMA OwnAdd ==
  ASSUME TypeInv, OwnInv, NEW t \in Producers, Add(t)
  PROVE  OwnInv'
<1> DEFINE b == hand[t]
<1>1. /\ CanRun(t) /\ step[t] = "add" /\ job[t] \in FrameKind
      /\ Target(t) = b /\ b \in Held /\ b \in Buf /\ b # NoBuf
  BY TargetIsHand, ConstantsAssumption DEF Add, At
<1>2. /\ sendList' = Append(sendList, b)
      /\ job' = [job EXCEPT ![t] = after[t]]
      /\ after' = [after EXCEPT ![t] = "idle"]
      /\ step' = [step EXCEPT ![t] = "produce"]
      /\ hand' = [hand EXCEPT ![t] = NoBuf]
      /\ UNCHANGED <<free, poll, upgFrames, disBuf, pollPc, cursor, sendPc,
                     sendCur, queue>>
  BY <1>1 DEF Add, Continue, poolVars, sendVars
<1>3. pollPc = "delay"
  BY <1>1 DEF Add, Blocked, PollHoldsMutex, FrameKind
<1>4. b \notin Range(sendList) /\ b \notin Range(free) /\ b \notin Recycling
  BY <1>1 DEF OwnInv, ExclusiveOwnership
<1>5. Range(sendList') = Range(sendList) \cup {b} /\ IsInjective(sendList')
  BY <1>1, <1>2, <1>4, AppendMembers
     DEF OwnInv, ExclusiveOwnership, TypeInv, TypeOK
<1>6. Held' \subseteq Held /\ b \notin Held'
  BY <1>1, <1>2 DEF Held, OwnInv, ExclusiveOwnership, TypeInv, TypeOK
<1>7. Recycling' = Recycling
  BY <1>2 DEF Recycling
<1> HIDE DEF b
<1>8. ExclusiveOwnership'
  <2>1. /\ Range(free') \cap Range(sendList') = {}
        /\ Held' \cap (Range(free') \cup Range(sendList')) = {}
        /\ Recycling' \cap (Range(free') \cup Range(sendList') \cup Held') = {}
    BY <1>2, <1>4, <1>5, <1>6, <1>7 DEF OwnInv, ExclusiveOwnership
  <2>2. \A u, v \in Producers : hand'[u] = hand'[v] /\ hand'[u] # NoBuf => u = v
    BY <1>2 DEF OwnInv, ExclusiveOwnership, TypeInv, TypeOK
  <2> QED
    BY <1>2, <1>5, <2>1, <2>2 DEF OwnInv, ExclusiveOwnership
<1>9. StaticInv' /\ JobInv' /\ UnlinkInv' /\ RecycleInv'
  BY <1>2, <1>3 DEF OwnInv, StaticInv, JobInv, UnlinkInv, RecycleInv, TypeInv,
                    TypeOK, ViaDispose
<1>10. BootInv'
  <2>1. "main" \in Producers /\ job'["main"] # "idle" => job["main"] # "idle"
    BY <1>2 DEF OwnInv, JobInv, TypeInv, TypeOK
  <2> QED
    BY <1>2, <2>1 DEF OwnInv, BootInv, TypeInv, TypeOK
<1>11. FlagInv'
  <2>1. ~poll[b].flag
    BY <1>1 DEF b, OwnInv, FlagInv
  <2> QED
    BY <1>2, <1>3, <1>5, <1>6, <2>1 DEF OwnInv, FlagInv
<1>12. ReqInv'
  <2>1. ~PhoneUpg /\ b \in upgFrames => poll[b].type = 1
    BY <1>1 DEF b, OwnInv, ReqInv
  <2>2. \A u \in Producers :
          step'[u] = "add" => step[u] = "add" /\ hand'[u] = hand[u]
    BY <1>2 DEF TypeInv, TypeOK
  <2> QED
    BY <1>2, <1>5, <2>1, <2>2 DEF OwnInv, ReqInv
<1> QED
  BY <1>8, <1>9, <1>10, <1>11, <1>12 DEF OwnInv

LEMMA OwnAck ==
  ASSUME TypeInv, OwnInv, NEW t \in Producers, Ack(t)
  PROVE  OwnInv'
<1>1. /\ step[t] = "produce" /\ hand[t] = NoBuf
      /\ job' = [job EXCEPT ![t] = after[t]]
      /\ after' = [after EXCEPT ![t] = "idle"]
      /\ step' = [step EXCEPT ![t] = "produce"]
      /\ hand' = [hand EXCEPT ![t] = NoBuf]
      /\ UNCHANGED <<free, upgFrames, sendList, disBuf, pollPc, cursor, sendPc,
                     sendCur, queue>>
  BY DEF Ack, Continue, TypeInv, HandInv, FrameKind, sendVars
<1>2. step' = step /\ hand' = hand
  BY <1>1 DEF TypeInv, TypeOK
<1>3. pollPc = "delay"
  BY DEF Ack, Blocked, PollHoldsMutex
<1>4. Held' = Held /\ Recycling' = Recycling
  BY <1>1, <1>2 DEF Held, Recycling
<1>5. \A x \in Buf :
        /\ poll'[x].type = poll[x].type
        /\ poll'[x].flag # poll[x].flag
             => x \in Range(sendList) /\ (~PhoneUpg => poll[x].type = 1)
  <2>1. CASE poll' = poll
    BY <2>1
  <2>2. CASE poll' # poll
    <3>1. PICK b \in Answerable : poll' = [poll EXCEPT ![b].flag = TRUE]
      BY <2>2 DEF Ack
    <3>2. b \in Buf /\ b \in Range(sendList) /\ (~PhoneUpg => poll[b].type = 1)
      BY RangeOfSeq DEF Answerable, OwnInv, ReqInv, TypeInv, TypeOK
    <3>3. poll[b] \in PollState
      BY <3>2 DEF TypeInv, TypeOK
    <3>4. poll'[b] = [poll[b] EXCEPT !.flag = TRUE]
      BY <3>1, <3>2 DEF TypeInv, TypeOK
    <3>5. poll'[b].type = poll[b].type
      BY <3>3, <3>4 DEF PollState
    <3>6. \A x \in Buf : x # b => poll'[x] = poll[x]
      BY <3>1 DEF TypeInv, TypeOK
    <3> QED
      BY <3>2, <3>5, <3>6
  <2> QED
    BY <2>1, <2>2
<1>6. ExclusiveOwnership'
  BY <1>1, <1>2, <1>4 DEF OwnInv, ExclusiveOwnership
<1>7. StaticInv' /\ JobInv' /\ UnlinkInv'
  BY <1>1, <1>2, <1>3 DEF OwnInv, StaticInv, JobInv, UnlinkInv, TypeInv, TypeOK,
                          ViaDispose
<1>8. BootInv'
  <2>1. "main" \in Producers /\ job'["main"] # "idle" => job["main"] # "idle"
    BY <1>1 DEF OwnInv, JobInv, TypeInv, TypeOK
  <2> QED
    BY <1>1, <1>2, <2>1 DEF OwnInv, BootInv
<1>9. FlagInv'
  <2> SUFFICES ASSUME NEW b \in Buf, poll'[b].flag
               PROVE  /\ b \notin Range(free) \cup Held
                      /\ ~PhoneUpg /\ poll[b].type = 0
                           => b \notin Range(sendList)
    BY <1>1, <1>4, <1>5 DEF FlagInv
  <2>1. CASE poll[b].flag
    BY <1>3, <2>1 DEF OwnInv, FlagInv
  <2>2. CASE ~poll[b].flag
    BY <1>5, <2>2 DEF OwnInv, ExclusiveOwnership
  <2> QED
    BY <2>1, <2>2
<1>10. ReqInv'
  <2>1. Range(sendList) \subseteq Buf
    BY RangeOfSeq DEF TypeInv, TypeOK
  <2>2. \A u \in Producers : step[u] = "add" => hand[u] \in Buf
    BY DEF TypeInv, TypeOK, HandInv
  <2> QED
    BY <1>1, <1>2, <1>5, <2>1, <2>2 DEF OwnInv, ReqInv
<1>11. RecycleInv'
  <2>1. sendPc = "recycle" => sendCur \in Buf /\ sendCur \notin Range(sendList)
    BY DEF OwnInv, ExclusiveOwnership, Recycling, TypeInv, TypeOK, SendInv
  <2> QED
    BY <1>1, <1>5, <2>1 DEF OwnInv, RecycleInv, TypeInv, TypeOK, PollState
<1> QED
  BY <1>6, <1>7, <1>8, <1>9, <1>10, <1>11 DEF OwnInv

-----------------------------------------------------------------------------
(* The steps of Poll.                                                      *)

LEMMA PollAfterBoot ==
  ASSUME OwnInv, CanRun("poll")
  PROVE  ~("main" \in Producers /\ job["main"] # "idle")
BY MainFirst DEF OwnInv

\* What OSQPost does to Send.
LEMMA PostRecycling ==
  ASSUME TypeInv, NEW b \in Buf, Post(b)
  PROVE  /\ Recycling' = Recycling
         /\ sendPc' = "recycle" => sendPc = "recycle" /\ sendCur' = sendCur
BY DEF Post, Recycling

\* A step of the walk that moves only the counters of an entry.
LEMMA OwnCount ==
  ASSUME TypeInv, OwnInv, CanRun("poll"),
         pollPc = "walk", pollPc' # "unlink",
         \A x \in Buf : /\ poll'[x].type = poll[x].type
                        /\ poll'[x].flag = poll[x].flag,
         UNCHANGED <<free, sendList, upgFrames, prodVars>>,
         Recycling' = Recycling,
         sendPc' = "recycle" => sendPc = "recycle" /\ sendCur' = sendCur
  PROVE  OwnInv'
<1>1. UNCHANGED <<free, sendList, upgFrames, job, after, step, hand, disBuf>>
  BY DEF prodVars
<1>2. Held' = Held
  BY <1>1 DEF Held
<1>3. ExclusiveOwnership'
  BY <1>1, <1>2 DEF OwnInv, ExclusiveOwnership
<1>4. StaticInv' /\ JobInv' /\ UnlinkInv'
  BY <1>1 DEF OwnInv, StaticInv, JobInv, UnlinkInv
<1>5. BootInv'
  BY <1>1, PollAfterBoot DEF BootInv
<1>6. FlagInv'
  BY <1>1, <1>2 DEF OwnInv, FlagInv
<1>7. ReqInv'
  <2>1. Range(sendList) \subseteq Buf
    BY RangeOfSeq DEF TypeInv, TypeOK
  <2>2. \A u \in Producers : step[u] = "add" => hand[u] \in Buf
    BY DEF TypeInv, TypeOK, HandInv
  <2> QED
    BY <1>1, <2>1, <2>2 DEF OwnInv, ReqInv
<1>8. RecycleInv'
  <2>1. sendPc = "recycle" => sendCur \in Buf
    BY DEF TypeInv, TypeOK, SendInv
  <2> QED
    BY <2>1 DEF OwnInv, RecycleInv
<1> QED
  BY <1>3, <1>4, <1>5, <1>6, <1>7, <1>8 DEF OwnInv

\* A reply is flagged and posted; it stays listed until the next step.
LEMMA OwnPostReply ==
  ASSUME TypeInv, OwnInv, PollPostReply
  PROVE  OwnInv'
<1> DEFINE b == Entry
<1>1. /\ CanRun("poll") /\ pollPc = "walk" /\ pollPc' = "unlink"
      /\ b \in Buf /\ b \in Range(sendList) /\ poll[b].type = 0
      /\ poll' = [poll EXCEPT ![b].flag = TRUE]
      /\ Post(b) /\ Entry' = b
      /\ UNCHANGED <<free, sendList, upgFrames, job, after, step, hand, disBuf,
                     cursor>>
  BY EntryType DEF PollPostReply, AtEntry, Walking, prodVars, Entry
<1> HIDE DEF b
<1>2. /\ Held' = Held /\ Recycling' = Recycling
      /\ sendPc' = "recycle" => sendPc = "recycle" /\ sendCur' = sendCur
  BY <1>1, PostRecycling DEF Held
<1>3. /\ poll'[b].flag /\ poll'[b].type = 0
      /\ \A x \in Buf : /\ x # b => poll'[x] = poll[x]
                        /\ poll'[x].type = poll[x].type
  BY <1>1 DEF TypeInv, TypeOK, PollState
<1>4. b \notin Range(free) \cup Held \cup Recycling
  BY <1>1 DEF OwnInv, ExclusiveOwnership
<1>5. ExclusiveOwnership'
  BY <1>1, <1>2 DEF OwnInv, ExclusiveOwnership
<1>6. StaticInv' /\ JobInv' /\ UnlinkInv'
  BY <1>1, <1>3 DEF OwnInv, StaticInv, JobInv, UnlinkInv
<1>7. BootInv'
  BY <1>1, PollAfterBoot DEF BootInv
<1>8. FlagInv'
  BY <1>1, <1>2, <1>3, <1>4 DEF OwnInv, FlagInv
<1>9. ReqInv'
  <2>1. Range(sendList) \subseteq Buf
    BY RangeOfSeq DEF TypeInv, TypeOK
  <2>2. \A u \in Producers : step[u] = "add" => hand[u] \in Buf
    BY DEF TypeInv, TypeOK, HandInv
  <2> QED
    BY <1>1, <1>3, <2>1, <2>2 DEF OwnInv, ReqInv
<1>10. RecycleInv'
  <2>1. sendPc = "recycle" => sendCur \in Buf /\ sendCur # b
    BY <1>4 DEF TypeInv, TypeOK, SendInv, Recycling
  <2> QED
    BY <1>2, <1>3, <2>1 DEF OwnInv, RecycleInv
<1> QED
  BY <1>5, <1>6, <1>7, <1>8, <1>9, <1>10 DEF OwnInv

\* The posted reply leaves the list: from here on only Send knows it.
LEMMA OwnUnlink ==
  ASSUME TypeInv, OwnInv, PollUnlink
  PROVE  OwnInv'
<1>1. /\ CanRun("poll") /\ pollPc = "unlink" /\ pollPc' = "delay"
      /\ sendList' = RemoveAt(sendList, cursor)
      /\ UNCHANGED <<free, poll, upgFrames, job, after, step, hand, disBuf,
                     sendPc, sendCur, queue>>
  BY DEF PollUnlink, EndPass, poolVars, prodVars, sendVars
<1>2. Range(sendList') \subseteq Range(sendList) /\ IsInjective(sendList')
      /\ Entry \notin Range(sendList')
  BY <1>1, RemoveAtMembers
     DEF TypeInv, TypeOK, CursorInv, OwnInv, ExclusiveOwnership, Entry
<1>3. Held' = Held /\ Recycling' = Recycling
  BY <1>1 DEF Held, Recycling
<1>4. ExclusiveOwnership'
  BY <1>1, <1>2, <1>3 DEF OwnInv, ExclusiveOwnership
<1>5. StaticInv' /\ JobInv' /\ UnlinkInv' /\ RecycleInv' /\ BootInv'
  BY <1>1 DEF OwnInv, StaticInv, JobInv, UnlinkInv, RecycleInv, BootInv
<1>6. FlagInv'
  BY <1>1, <1>2, <1>3 DEF OwnInv, FlagInv
<1>7. ReqInv'
  BY <1>1, <1>2 DEF OwnInv, ReqInv
<1> QED
  BY <1>4, <1>5, <1>6, <1>7 DEF OwnInv

\* An answered or abandoned request goes back to the pool.
LEMMA OwnRelease ==
  ASSUME TypeInv, OwnInv, AtEntry, ReleaseEntry
  PROVE  OwnInv'
<1> DEFINE b == Entry
<1>1. /\ CanRun("poll") /\ pollPc = "walk"
      /\ b \in Buf /\ b \in Range(sendList) /\ cursor \in 1 .. Len(sendList)
      /\ sendList' = RemoveAt(sendList, cursor)
      /\ poll' = [poll EXCEPT ![b] = ZeroPoll]
      /\ free' = Append(free, b)
      /\ UNCHANGED <<upgFrames, job, after, step, hand, disBuf, pollPc, cursor,
                     sendPc, sendCur, queue>>
  BY EntryType DEF AtEntry, Walking, ReleaseEntry, prodVars, sendVars
<1>2. Range(sendList') \subseteq Range(sendList) /\ IsInjective(sendList')
      /\ b \notin Range(sendList')
  BY <1>1, RemoveAtMembers DEF TypeInv, TypeOK, OwnInv, ExclusiveOwnership,
                               Entry
<1> HIDE DEF b
<1>3. b \notin Range(free) \cup Held \cup Recycling
  BY <1>1 DEF OwnInv, ExclusiveOwnership
<1>4. Range(free') = Range(free) \cup {b} /\ IsInjective(free')
  BY <1>1, <1>3, AppendMembers DEF TypeInv, TypeOK, OwnInv, ExclusiveOwnership
<1>5. Held' = Held /\ Recycling' = Recycling
  BY <1>1 DEF Held, Recycling
<1>6. ~poll'[b].flag /\ \A x \in Buf : x # b => poll'[x] = poll[x]
  BY <1>1 DEF TypeInv, TypeOK, ZeroPoll
<1>7. ExclusiveOwnership'
  BY <1>1, <1>2, <1>3, <1>4, <1>5 DEF OwnInv, ExclusiveOwnership
<1>8. StaticInv' /\ JobInv' /\ UnlinkInv' /\ BootInv'
  BY <1>1 DEF OwnInv, StaticInv, JobInv, UnlinkInv, BootInv
<1>9. FlagInv'
  BY <1>1, <1>2, <1>4, <1>5, <1>6 DEF OwnInv, FlagInv
<1>10. ReqInv'
  <2>1. Range(sendList) \subseteq Buf
    BY RangeOfSeq DEF TypeInv, TypeOK
  <2>2. \A u \in Producers : step[u] = "add" => hand[u] \in Buf /\ hand[u] # b
    BY <1>3 DEF TypeInv, TypeOK, HandInv, Held
  <2> QED
    BY <1>1, <1>2, <1>6, <2>1, <2>2 DEF OwnInv, ReqInv
<1>11. RecycleInv'
  <2>1. sendPc = "recycle" => sendCur \in Buf /\ sendCur # b
    BY <1>3 DEF TypeInv, TypeOK, SendInv, Recycling
  <2> QED
    BY <1>1, <1>6, <2>1 DEF OwnInv, RecycleInv
<1> QED
  BY <1>7, <1>8, <1>9, <1>10, <1>11 DEF OwnInv

LEMMA OwnPoll ==
  ASSUME TypeInv, OwnInv, PollWake \/ PollStep
  PROVE  OwnInv'
<1>1. CASE PollWake
  <2>1. Held' = Held /\ Recycling' = Recycling
    BY <1>1 DEF PollWake, Held, Recycling, prodVars, sendVars
  <2>2. BootInv'
    BY <1>1, PollAfterBoot DEF PollWake, BootInv, prodVars
  <2> QED
    BY <1>1, <2>1, <2>2
       DEF PollWake, poolVars, prodVars, sendVars, OwnInv, ExclusiveOwnership,
           StaticInv, JobInv, FlagInv, UnlinkInv, ReqInv, RecycleInv
<1>2. CASE PollEnd
  BY <1>2, OwnCount
     DEF PollEnd, Walking, EndPass, poolVars, sendVars, Recycling
<1>3. CASE PollUnlink
  BY <1>3, OwnUnlink
<1>4. CASE PollReap
  BY <1>4, OwnRelease DEF PollReap, IsRequest
<1>5. CASE PollGiveUp
  BY <1>5, OwnRelease DEF PollGiveUp, Unanswered, IsRequest
<1>6. CASE PollTick \/ PollFirstSend \/ PollRetry
  <2>1. /\ AtEntry /\ CanRun("poll") /\ pollPc = "walk" /\ pollPc' # "unlink"
        /\ cursor <= Len(sendList)
        /\ UNCHANGED <<free, sendList, upgFrames, prodVars>>
    BY <1>6 DEF PollTick, PollFirstSend, PollRetry, Unanswered, IsRequest,
                AtEntry, Walking, EndPass
  <2>2. Entry \in Buf
    BY <2>1, EntryType
  <2>3. \A x \in Buf : /\ poll'[x].type = poll[x].type
                       /\ poll'[x].flag = poll[x].flag
    <3>1. poll[Entry] \in PollState
      BY <2>2 DEF TypeInv, TypeOK
    <3>2. CASE PollTick
      BY <2>2, <3>1, <3>2 DEF PollTick, TypeInv, TypeOK, PollState
    <3>3. CASE PollFirstSend
      BY <2>2, <3>1, <3>3 DEF PollFirstSend, TypeInv, TypeOK, PollState
    <3>4. CASE PollRetry
      BY <2>2, <3>1, <3>4 DEF PollRetry, TypeInv, TypeOK, PollState
    <3> QED
      BY <1>6, <3>2, <3>3, <3>4
  <2>4. /\ Recycling' = Recycling
        /\ sendPc' = "recycle" => sendPc = "recycle" /\ sendCur' = sendCur
    <3>1. CASE PollTick
      BY <3>1 DEF PollTick, sendVars, Recycling
    <3>2. CASE PollFirstSend \/ PollRetry
      BY <2>2, <3>2, PostRecycling DEF PollFirstSend, PollRetry
    <3> QED
      BY <1>6, <3>1, <3>2
  <2> QED
    BY <2>1, <2>3, <2>4, OwnCount
<1>7. CASE PollPostReply
  BY <1>7, OwnPostReply
<1> QED
  BY <1>1, <1>2, <1>3, <1>4, <1>5, <1>6, <1>7 DEF PollStep, PollPosts

-----------------------------------------------------------------------------
(* The steps of Send.                                                      *)

\* Send's reply has left the list before its transmission ends.
SentUnlisted ==
  sendPc = "done" /\ pollPc = "delay" /\ poll[sendCur].type = 0
    => sendCur \notin Range(sendList)

\* A reply that Send finds flagged is nobody else's.
LEMMA OwnSendCheck ==
  ASSUME TypeInv, OwnInv, PhoneUpg => SentUnlisted, SendCheck
  PROVE  OwnInv'
<1> DEFINE b == sendCur
<1>1. /\ pollPc = "delay" /\ sendPc = "done" /\ b \in Buf
      /\ UNCHANGED <<free, upgFrames, sendList, job, after, step, hand, disBuf,
                     pollPc, cursor, queue>>
  BY SendWaitsForPoll DEF SendCheck, prodVars, TypeInv, TypeOK, SendInv
<1>2. Held' = Held /\ Recycling = {}
  BY <1>1 DEF Held, Recycling
<1>3. CASE ~(poll[b].flag /\ poll[b].type = 0)
  <2>1. poll' = poll /\ sendPc' = "call"
    BY <1>3 DEF SendCheck
  <2>2. Recycling' = {}
    BY <2>1 DEF Recycling
  <2> QED
    BY <1>1, <1>2, <2>1, <2>2
       DEF OwnInv, ExclusiveOwnership, StaticInv, JobInv, BootInv, FlagInv,
           UnlinkInv, ReqInv, RecycleInv
<1>4. CASE poll[b].flag /\ poll[b].type = 0
  <2>1. poll' = [poll EXCEPT ![b] = ZeroPoll] /\ sendPc' = "recycle"
        /\ sendCur' = b
    BY <1>4 DEF SendCheck
  <2>2. b \notin Range(free) \cup Range(sendList) \cup Held
    BY <1>1, <1>4 DEF OwnInv, FlagInv, SentUnlisted
  <2>3. Recycling' = {b}
    BY <2>1 DEF Recycling
  <2>4. ~poll'[b].flag /\ \A x \in Buf : x # b => poll'[x] = poll[x]
    BY <1>1, <2>1 DEF TypeInv, TypeOK, ZeroPoll
  <2>5. ExclusiveOwnership'
    BY <1>1, <1>2, <2>2, <2>3 DEF OwnInv, ExclusiveOwnership
  <2>6. StaticInv' /\ JobInv' /\ BootInv' /\ UnlinkInv' /\ RecycleInv'
    BY <1>1, <2>1, <2>4 DEF OwnInv, StaticInv, JobInv, BootInv, UnlinkInv,
                            RecycleInv
  <2>7. FlagInv'
    BY <1>1, <1>2, <2>4 DEF OwnInv, FlagInv
  <2>8. ReqInv'
    <3>1. Range(sendList) \subseteq Buf
      BY RangeOfSeq DEF TypeInv, TypeOK
    <3>2. \A u \in Producers : step[u] = "add" => hand[u] \in Buf /\ hand[u] # b
      BY <2>2 DEF TypeInv, TypeOK, HandInv, Held
    <3> QED
      BY <1>1, <2>2, <2>4, <3>1, <3>2 DEF OwnInv, ReqInv
  <2> QED
    BY <2>5, <2>6, <2>7, <2>8 DEF OwnInv
<1> QED
  BY <1>3, <1>4

LEMMA OwnSend ==
  ASSUME TypeInv, OwnInv, PhoneUpg => SentUnlisted, SendStep \/ TxComplete
  PROVE  OwnInv'
<1>1. CASE SendPend \/ SendTransmit \/ TxComplete
  <2>1. /\ UNCHANGED <<free, poll, upgFrames, sendList, job, after, step, hand,
                       disBuf, pollPc, cursor>>
        /\ sendPc # "recycle" /\ sendPc' # "recycle"
    BY <1>1 DEF SendPend, SendTransmit, TxComplete, poolVars, prodVars
  <2>2. Held' = Held /\ Recycling' = Recycling /\ Entry' = Entry
    BY <2>1 DEF Held, Recycling, Entry
  <2> QED
    BY <2>1, <2>2
       DEF OwnInv, ExclusiveOwnership, StaticInv, JobInv, BootInv, FlagInv,
           UnlinkInv, ReqInv, RecycleInv
<1>2. CASE SendCheck
  BY <1>2, OwnSendCheck
<1>3. CASE SendRecycle
  <2> DEFINE b == sendCur
  <2>1. /\ sendPc = "recycle" /\ sendPc' = "call" /\ b \in Buf
        /\ free' = Append(free, b) /\ ~poll[b].flag
        /\ UNCHANGED <<poll, upgFrames, sendList, job, after, step, hand,
                       disBuf, pollPc, cursor, queue>>
    BY <1>3 DEF SendRecycle, prodVars, TypeInv, TypeOK, SendInv, OwnInv,
                RecycleInv
  <2>2. Recycling = {b} /\ Recycling' = {} /\ Held' = Held
    BY <2>1 DEF Recycling, Held
  <2> HIDE DEF b
  <2>3. Range(free') = Range(free) \cup {b} /\ IsInjective(free')
    BY <2>1, <2>2, AppendMembers
       DEF TypeInv, TypeOK, OwnInv, ExclusiveOwnership
  <2>4. ExclusiveOwnership'
    BY <2>1, <2>2, <2>3 DEF OwnInv, ExclusiveOwnership
  <2>5. FlagInv'
    BY <2>1, <2>2, <2>3 DEF OwnInv, FlagInv, Entry
  <2> QED
    BY <2>1, <2>4, <2>5 DEF OwnInv, StaticInv, JobInv, BootInv, UnlinkInv,
                            ReqInv, RecycleInv, Entry
<1> QED
  BY <1>1, <1>2, <1>3 DEF SendStep

-----------------------------------------------------------------------------
LEMMA OwnNext ==
  ASSUME OneDisposer, TypeInv, OwnInv, PhoneUpg => SentUnlisted, [Next]_vars
  PROVE  OwnInv'
<1>1. CASE UNCHANGED vars
  BY <1>1 DEF vars, poolVars, prodVars, sendVars, OwnInv, ExclusiveOwnership,
              StaticInv, JobInv, BootInv, FlagInv, UnlinkInv, ReqInv,
              RecycleInv, Held, Recycling, Entry
<1>2. ASSUME NEW t \in Producers, Start(t) \/ Producer(t) PROVE OwnInv'
  BY <1>2, OwnStart, OwnProduce, OwnProduceNull, OwnPoint, OwnFill, OwnAdd,
     OwnAck DEF Producer
<1>3. CASE PollWake \/ PollStep
  BY <1>3, OwnPoll
<1>4. CASE SendStep \/ TxComplete
  BY <1>4, OwnSend
<1> QED
  BY <1>1, <1>2, <1>3, <1>4 DEF Next

-----------------------------------------------------------------------------
(* The buffers on their way through Send.                                  *)

\* One message of the kernel and one place in the queue for every buffer.
MessagePerBuffer ==
  IsFiniteSet(Buf) /\ Cardinality(Buf) <= MsgPoolSize
                   /\ Cardinality(Buf) <= QSize

\* The buffers Send will transmit or has transmitted, the reply it is about
\* to recycle excepted.
Posted == InFlight \ Recycling

\* Send is never given a buffer it already has.
OnceInv == IsInjective(queue) /\ sendCur \notin Range(queue)

\* A posted buffer is a flagged reply, which leaves the list at Poll's next
\* step and which nobody else will touch, or a request that is still listed,
\* has been counted and is not answered yet.
PostedInv ==
  \A b \in Posted :
    /\ b \notin Range(free) \cup Held
    /\ poll[b].type = 0 => /\ poll[b].flag
                           /\ b \in Range(sendList)
                                => pollPc = "unlink" /\ b = Entry
    /\ poll[b].type = 1 => /\ b \in Range(sendList)
                           /\ poll[b].times > 0 /\ ~poll[b].flag

\* Only what has been sent is answered.
AnsweredInv ==
  \A b \in Buf : poll[b].type = 1 /\ poll[b].flag => poll[b].times > 0

FlightInv == OnceInv /\ PostedInv /\ AnsweredInv

\* OSQPost hands over at most the buffer posted.
LEMMA PostFlight ==
  ASSUME TypeInv, OnceInv, NEW b \in Buf, b \notin InFlight, Post(b)
  PROVE  /\ OnceInv'
         /\ Posted \subseteq Posted' /\ Posted' \subseteq Posted \cup {b}
         /\ InFlight \subseteq InFlight'
         /\ InFlight' \subseteq InFlight \cup {b}
         /\ sendPc = "pend" \/ QueueHasRoom => b \in InFlight'
<1>1. b # NoBuf /\ queue \in Seq(Buf) /\ Range(queue) \subseteq Buf
      /\ b \notin Range(queue) /\ sendCur # b
      /\ NoBuf \notin Range(queue)
  BY ConstantsAssumption, RangeOfSeq DEF TypeInv, TypeOK, InFlight
<1>2. Recycling' = Recycling
  BY PostRecycling
<1>3. CASE sendPc = "pend"
  <2>1. sendCur = NoBuf /\ sendCur' = b /\ queue' = queue
    BY <1>3 DEF Post, TypeInv, SendInv
  <2>2. InFlight' = InFlight \cup {b} /\ Recycling = {}
    BY <1>1, <1>3, <2>1 DEF InFlight, Recycling
  <2> QED
    BY <1>1, <1>2, <2>1, <2>2 DEF OnceInv, Posted
<1>4. CASE sendPc # "pend" /\ QueueHasRoom
  <2>1. sendCur' = sendCur /\ queue' = Append(queue, b)
    BY <1>4 DEF Post
  <2>2. Range(queue') = Range(queue) \cup {b} /\ IsInjective(queue')
    BY <1>1, <2>1, AppendMembers DEF OnceInv
  <2>3. InFlight' = InFlight \cup {b} /\ b \notin Recycling
    BY <1>1, <2>1, <2>2 DEF InFlight, Recycling
  <2> QED
    BY <1>1, <1>2, <2>1, <2>2, <2>3 DEF OnceInv, Posted
<1>5. CASE sendPc # "pend" /\ ~QueueHasRoom
  <2>1. UNCHANGED <<sendPc, sendCur, queue>>
    BY <1>5 DEF Post
  <2> QED
    BY <1>2, <1>5, <2>1 DEF OnceInv, Posted, InFlight
<1> QED
  BY <1>3, <1>4, <1>5

\* What Poll posts is not with Send already: a listed reply has not been
\* posted, a request has not been sent, or its transmission has ended.
LEMMA PostsFresh ==
  ASSUME TypeInv, OwnInv, FlightInv, Timely, PollPosts
  PROVE  /\ Entry \in Buf /\ Entry \in Range(sendList)
         /\ Entry \notin InFlight /\ Post(Entry) /\ CanRun("poll")
<1>1. /\ pollPc = "walk" /\ AtEntry /\ Post(Entry) /\ CanRun("poll")
      /\ cursor <= Len(sendList)
  BY DEF PollPosts, PollPostReply, PollFirstSend, PollRetry, Unanswered,
         IsRequest, AtEntry, Walking
<1>2. Entry \in Buf /\ Entry \in Range(sendList)
  BY <1>1, EntryType
<1>3. Entry \notin Recycling
  BY <1>2 DEF OwnInv, ExclusiveOwnership
<1>4. Entry \notin Posted
  <2>1. CASE PollPostReply
    BY <1>1, <1>2, <2>1 DEF PollPostReply, FlightInv, PostedInv
  <2>2. CASE PollFirstSend
    BY <2>2 DEF PollFirstSend, IsRequest, FlightInv, PostedInv
  <2>3. CASE PollRetry
    BY <2>3 DEF PollRetry, Expired, Posted
  <2> QED
    BY <2>1, <2>2, <2>3 DEF PollPosts
<1> QED
  BY <1>1, <1>2, <1>3, <1>4 DEF Posted

\* With a message per buffer a post always arrives.
LEMMA RoomToPost ==
  ASSUME MessagePerBuffer, TypeInv, OnceInv, NEW b \in Buf, b \notin InFlight
  PROVE  QueueHasRoom
<1>1. b \notin Range(queue) /\ queue \in Seq(Buf) /\ IsInjective(queue)
  BY DEF InFlight, OnceInv, TypeInv, TypeOK
<1>2. Len(queue) < Cardinality(Buf)
  BY <1>1, RoomForOneMore DEF MessagePerBuffer
<1>3. Len(queue) \in Nat /\ Cardinality(Buf) \in Nat
  BY <1>1, FS_CardinalityType DEF MessagePerBuffer
<1> QED
  BY <1>2, <1>3, ConstantsAssumption DEF MessagePerBuffer, QueueHasRoom

LEMMA FlightInit == Init => FlightInv
<1> SUFFICES ASSUME Init PROVE FlightInv
  OBVIOUS
<1>1. Range(queue) = {} /\ InFlight = {} /\ IsInjective(queue)
  BY DEF Init, Range, InFlight, IsInjective
<1> QED
  BY <1>1 DEF Init, FlightInv, OnceInv, PostedInv, Posted, AnsweredInv,
              ZeroPoll

\* A producer never has its hands on a posted buffer, and answers only a
\* request whose transmission has ended.
LEMMA FlightProducer ==
  ASSUME TypeInv, OwnInv, FlightInv, Timely,
         NEW t \in Producers, Start(t) \/ Producer(t), OwnInv'
  PROVE  FlightInv'
<1>1. UNCHANGED <<pollPc, cursor, sendPc, sendCur, queue>>
  BY DEF Start, Producer, Produce, ProduceNull, Point, Fill, Add, Ack, sendVars
<1>2. Posted' = Posted /\ OnceInv'
  BY <1>1 DEF Posted, InFlight, Recycling, FlightInv, OnceInv
<1>3. Posted \subseteq Buf
  BY RangeOfSeq DEF Posted, InFlight, TypeInv, TypeOK
<1>4. ASSUME Range(free') \cup Held' \subseteq Range(free) \cup Held,
             Range(sendList) \subseteq Range(sendList'),
             Range(sendList') \subseteq Range(sendList) \cup Held,
             pollPc = "unlink" => sendList' = sendList,
             \A b \in Posted : poll'[b] = poll[b],
             AnsweredInv'
      PROVE  FlightInv'
  <2>1. \A b \in Posted : b \in Range(sendList') <=> b \in Range(sendList)
    BY <1>4 DEF FlightInv, PostedInv
  <2>2. pollPc' = pollPc /\ (pollPc = "unlink" => Entry' = Entry)
    BY <1>1, <1>4 DEF Entry
  <2> QED
    BY <1>2, <1>4, <2>1, <2>2 DEF FlightInv, PostedInv
<1>5. CASE Start(t) \/ ProduceNull(t) \/ Point(t)
  BY <1>4, <1>5
     DEF Start, ProduceNull, Point, poolVars, Held, FlightInv, AnsweredInv
<1>6. CASE Produce(t)
  <2>1. /\ Range(free') \subseteq Range(free) /\ Head(free) \in Range(free)
        /\ hand' = [hand EXCEPT ![t] = Head(free)]
        /\ sendList' = sendList /\ poll' = poll
    BY <1>6, TailMembers DEF Produce, TypeInv, TypeOK
  <2>2. Held' \subseteq Held \cup {Head(free)}
    BY <2>1 DEF Held, TypeInv, TypeOK
  <2> QED
    BY <1>4, <2>1, <2>2 DEF FlightInv, AnsweredInv
<1>7. CASE Fill(t)
  <2>1. Target(t) \in Held
    BY <1>7, TargetIsHand DEF Fill, At
  <2>2. \A b \in Posted : poll'[b] = poll[b]
    BY <1>3, <1>7, <2>1 DEF Fill, TypeInv, TypeOK, FlightInv, PostedInv
  <2>3. Held' = Held /\ UNCHANGED <<free, sendList>>
    BY <1>7 DEF Fill, Held
  <2>4. AnsweredInv'
    <3>1. ~poll'[Target(t)].flag
      BY <2>1, <2>3, TargetIsHand, <1>7 DEF Fill, At, OwnInv, FlagInv
    <3>2. \A b \in Buf : b # Target(t) => poll'[b] = poll[b]
      BY <1>7 DEF Fill, TypeInv, TypeOK
    <3> QED
      BY <3>1, <3>2 DEF FlightInv, AnsweredInv
  <2> QED
    BY <1>4, <2>2, <2>3, <2>4
<1>8. CASE Add(t)
  <2>1. Target(t) \in Buf /\ Target(t) \in Held
    BY <1>8, TargetIsHand DEF Add, At
  <2>2. /\ Range(sendList) \subseteq Range(sendList')
        /\ Range(sendList') \subseteq Range(sendList) \cup Held
    BY <1>8, <2>1, AppendMembers DEF Add, TypeInv, TypeOK
  <2>3. Held' \subseteq Held
    BY <1>8 DEF Add, Continue, Held, TypeInv, TypeOK
  <2>4. pollPc # "unlink"
    BY <1>8 DEF Add, At, Blocked, PollHoldsMutex, FrameKind
  <2> QED
    BY <1>4, <1>8, <2>2, <2>3, <2>4 DEF Add, poolVars, FlightInv, AnsweredInv
<1>9. CASE Ack(t)
  <2>1. Held' \subseteq Held
    BY <1>9 DEF Ack, Continue, Held, TypeInv, TypeOK
  <2>2. \A b \in Posted : poll'[b] = poll[b]
    <3>1. pollPc = "delay"
      BY <1>9 DEF Ack, Blocked, PollHoldsMutex
    <3>2. \A b \in Answerable : b \notin Posted
      BY <1>3, <3>1 DEF Answerable, Posted, FlightInv, PostedInv, TypeInv,
                        TypeOK, PollState
    <3> QED
      BY <1>3, <1>9, <3>2 DEF Ack, TypeInv, TypeOK
  <2>3. AnsweredInv'
    <3>1. CASE poll' = poll
      BY <3>1 DEF FlightInv, AnsweredInv
    <3>2. CASE poll' # poll
      <4>1. PICK b \in Answerable : poll' = [poll EXCEPT ![b].flag = TRUE]
        BY <1>9, <3>2 DEF Ack
      <4>2. /\ poll[b] \in PollState /\ b \in Buf
            /\ poll[b].type = 1 => poll[b].times > 0
        BY RangeOfSeq DEF Answerable, TypeInv, TypeOK
      <4>3. poll'[b].type = 1 => poll'[b].times > 0
        BY <4>1, <4>2 DEF TypeInv, TypeOK, PollState
      <4>4. \A x \in Buf : x # b => poll'[x] = poll[x]
        BY <4>1 DEF TypeInv, TypeOK
      <4> QED
        BY <4>3, <4>4 DEF FlightInv, AnsweredInv
    <3> QED
      BY <3>1, <3>2
  <2>4. UNCHANGED <<free, sendList>>
    BY <1>9 DEF Ack
  <2> QED
    BY <1>4, <2>1, <2>2, <2>3, <2>4
<1> QED
  BY <1>5, <1>6, <1>7, <1>8, <1>9 DEF Producer

\* An entry goes back to the pool only when Send does not have it.
LEMMA FlightRelease ==
  ASSUME TypeInv, OwnInv, FlightInv, AtEntry, Entry \notin Posted, ReleaseEntry
  PROVE  FlightInv'
<1> DEFINE b == Entry
<1>1. /\ b \in Buf /\ cursor \in 1 .. Len(sendList) /\ b = sendList[cursor]
      /\ sendList' = RemoveAt(sendList, cursor)
      /\ poll' = [poll EXCEPT ![b] = ZeroPoll]
      /\ free' = Append(free, b)
      /\ UNCHANGED <<hand, sendPc, sendCur, queue>>
  BY EntryType DEF AtEntry, ReleaseEntry, prodVars, sendVars, Entry
<1> HIDE DEF b
<1>2. Posted' = Posted /\ OnceInv' /\ Held' = Held
  BY <1>1 DEF Posted, InFlight, Recycling, FlightInv, OnceInv, Held
<1>3. Range(free') = Range(free) \cup {b}
  BY <1>1, AppendMembers DEF TypeInv, TypeOK
<1>4. /\ Range(sendList) \subseteq Range(sendList') \cup {b}
      /\ Range(sendList') \subseteq Range(sendList)
      /\ pollPc = "walk"
  BY <1>1, RemoveAtMembers DEF AtEntry, Walking, TypeInv, TypeOK
<1>5. \A x \in Buf : x # b => poll'[x] = poll[x]
  BY <1>1 DEF TypeInv, TypeOK
<1>6. Posted \subseteq Buf /\ b \notin Posted
  BY RangeOfSeq DEF b, Posted, InFlight, TypeInv, TypeOK
<1> QED
  BY <1>1, <1>2, <1>3, <1>4, <1>5, <1>6
     DEF FlightInv, PostedInv, AnsweredInv, ZeroPoll, TypeInv, TypeOK

LEMMA FlightPoll ==
  ASSUME TypeInv, OwnInv, FlightInv, Timely, PollWake \/ PollStep
  PROVE  FlightInv'
<1>1. Posted \subseteq Buf
  BY RangeOfSeq DEF Posted, InFlight, TypeInv, TypeOK
<1>2. CASE PollWake \/ PollEnd
  <2>1. /\ UNCHANGED <<free, sendList, poll, hand, sendPc, sendCur, queue>>
        /\ pollPc # "unlink"
    BY <1>2 DEF PollWake, PollEnd, Walking, poolVars, prodVars, sendVars
  <2> QED
    BY <2>1 DEF FlightInv, OnceInv, PostedInv, AnsweredInv, Posted, InFlight,
                Recycling, Held
<1>3. CASE PollUnlink
  <2>1. /\ pollPc = "unlink" /\ sendList' = RemoveAt(sendList, cursor)
        /\ UNCHANGED <<free, poll, hand, sendPc, sendCur, queue>>
    BY <1>3 DEF PollUnlink, poolVars, prodVars, sendVars
  <2>2. Posted' = Posted /\ OnceInv' /\ Held' = Held
    BY <2>1 DEF Posted, InFlight, Recycling, FlightInv, OnceInv, Held
  <2>3. /\ Range(sendList) \subseteq Range(sendList') \cup {Entry}
        /\ Range(sendList') \subseteq Range(sendList) \ {Entry}
        /\ poll[Entry].type = 0
    BY <2>1, RemoveAtMembers
       DEF TypeInv, TypeOK, CursorInv, Entry, OwnInv, UnlinkInv,
           ExclusiveOwnership
  <2> QED
    BY <2>1, <2>2, <2>3 DEF FlightInv, PostedInv, AnsweredInv
<1>4. CASE PollReap
  BY <1>4, FlightRelease DEF PollReap, IsRequest, FlightInv, PostedInv
<1>5. CASE PollGiveUp
  BY <1>5, FlightRelease
     DEF PollGiveUp, Unanswered, IsRequest, Expired, Posted
<1>6. CASE PollTick
  <2>1. /\ Entry \in Buf
        /\ UNCHANGED <<free, sendList, hand, sendPc, sendCur, queue>>
        /\ pollPc = "walk"
    BY <1>6, EntryType
       DEF PollTick, Unanswered, IsRequest, AtEntry, Walking, prodVars, sendVars
  <2>2. \A x \in Buf : /\ poll'[x].type = poll[x].type
                       /\ poll'[x].flag = poll[x].flag
                       /\ poll'[x].times = poll[x].times
    <3>1. poll[Entry] \in PollState
      BY <2>1 DEF TypeInv, TypeOK
    <3> QED
      BY <1>6, <2>1, <3>1 DEF PollTick, TypeInv, TypeOK, PollState
  <2>3. Posted' = Posted /\ OnceInv' /\ Held' = Held
    BY <2>1 DEF Posted, InFlight, Recycling, FlightInv, OnceInv, Held
  <2> QED
    BY <1>1, <2>1, <2>2, <2>3 DEF FlightInv, PostedInv, AnsweredInv
<1>7. CASE PollPosts
  <2> DEFINE b == Entry
  <2>1. /\ b \in Buf /\ b \in Range(sendList) /\ b \notin InFlight /\ Post(b)
        /\ UNCHANGED <<free, sendList, hand>> /\ pollPc = "walk"
    BY <1>7, PostsFresh
       DEF PollPosts, PollPostReply, PollFirstSend, PollRetry, Unanswered,
           IsRequest, AtEntry, Walking, prodVars
  <2>2. OnceInv' /\ Posted' \subseteq Posted \cup {b} /\ Held' = Held
    BY <2>1, PostFlight DEF FlightInv, Held
  <2>3. \A x \in Buf : x # b => poll'[x] = poll[x]
    BY <1>7 DEF PollPosts, PollPostReply, PollFirstSend, PollRetry, TypeInv,
                TypeOK
  <2>4. /\ poll'[b].type = 0 => /\ poll'[b].flag /\ pollPc' = "unlink"
                                /\ Entry' = b
        /\ poll'[b].type = 1 => poll'[b].times > 0 /\ ~poll'[b].flag
    <3>1. poll[b] \in PollState
      BY <2>1 DEF TypeInv, TypeOK
    <3>2. CASE PollPostReply
      BY <2>1, <3>1, <3>2 DEF PollPostReply, TypeInv, TypeOK, PollState, Entry
    <3>3. CASE PollFirstSend
      <4>1. poll'[b] = [poll[b] EXCEPT !.times = 1] /\ poll[b].type = 1
            /\ ~poll[b].flag
        BY <2>1, <3>3
           DEF PollFirstSend, IsRequest, FlightInv, AnsweredInv, TypeInv, TypeOK
      <4> QED
        BY <3>1, <4>1 DEF PollState
    <3>4. CASE PollRetry
      <4>1. /\ poll'[b] = [poll[b] EXCEPT !.delay = 0,
                                          !.times = poll[b].times + 1]
            /\ poll[b].type = 1 /\ ~poll[b].flag
        BY <2>1, <3>4 DEF PollRetry, Unanswered, IsRequest, TypeInv, TypeOK
      <4> QED
        BY <3>1, <4>1 DEF PollState
    <3> QED
      BY <1>7, <3>2, <3>3, <3>4 DEF PollPosts
  <2>5. b \notin Range(free) \cup Held
    BY <2>1 DEF OwnInv, ExclusiveOwnership
  <2> HIDE DEF b
  <2> QED
    BY <1>1, <2>1, <2>2, <2>3, <2>4, <2>5
       DEF FlightInv, PostedInv, AnsweredInv
<1> QED
  BY <1>2, <1>3, <1>4, <1>5, <1>6, <1>7 DEF PollStep

LEMMA FlightSend ==
  ASSUME TypeInv, OwnInv, FlightInv, SendStep \/ TxComplete
  PROVE  FlightInv'
<1>1. NoBuf \notin Range(queue) /\ queue \in Seq(Buf)
  BY ConstantsAssumption, RangeOfSeq DEF TypeInv, TypeOK
<1>2. UNCHANGED <<sendList, hand, pollPc>> /\ Held' = Held /\ Entry' = Entry
  BY DEF SendStep, SendPend, SendTransmit, SendCheck, SendRecycle, TxComplete,
         prodVars, Held, Entry
<1>3. CASE SendPend
  <2>1. CASE queue = <<>>
    BY <1>2, <1>3, <2>1
       DEF SendPend, poolVars, FlightInv, OnceInv, PostedInv, AnsweredInv,
           Posted, InFlight, Recycling
  <2>2. CASE queue # <<>>
    <3>1. /\ sendPc = "call" /\ sendPc' = "got" /\ sendCur = NoBuf
          /\ sendCur' = Head(queue) /\ queue' = Tail(queue)
          /\ UNCHANGED <<free, poll>>
      BY <1>3, <2>2 DEF SendPend, poolVars, TypeInv, SendInv
    <3>2. /\ Range(queue) = Range(queue') \cup {sendCur'}
          /\ IsInjective(queue') /\ sendCur' \notin Range(queue')
      BY <1>1, <2>2, <3>1, TailMembers DEF FlightInv, OnceInv
    <3>3. Posted' = Posted
      BY <1>1, <3>1, <3>2 DEF Posted, InFlight, Recycling
    <3> QED
      BY <1>2, <3>1, <3>2, <3>3 DEF FlightInv, OnceInv, PostedInv, AnsweredInv
  <2> QED
    BY <2>1, <2>2
<1>4. CASE SendTransmit \/ TxComplete
  BY <1>2, <1>4
     DEF SendTransmit, TxComplete, poolVars, FlightInv, OnceInv, PostedInv,
         AnsweredInv, Posted, InFlight, Recycling
<1>5. CASE SendCheck
  <2>1. Posted' \subseteq Posted /\ sendCur \notin Posted'
    BY <1>1, <1>5
       DEF SendCheck, FlightInv, OnceInv, Posted, InFlight, Recycling, TypeInv,
           SendInv
  <2>2. OnceInv'
    BY <1>1, <1>5 DEF SendCheck, FlightInv, OnceInv
  <2>3. \A x \in Buf : x # sendCur => poll'[x] = poll[x]
    BY <1>5 DEF SendCheck, TypeInv, TypeOK
  <2>4. Posted \subseteq Buf
    BY RangeOfSeq DEF Posted, InFlight, TypeInv, TypeOK
  <2>5. free' = free /\ (poll' = poll \/ ~poll'[sendCur].flag)
    BY <1>5 DEF SendCheck, ZeroPoll, TypeInv, TypeOK
  <2> QED
    BY <1>2, <2>1, <2>2, <2>3, <2>4, <2>5
       DEF FlightInv, PostedInv, AnsweredInv
<1>6. CASE SendRecycle
  <2>1. /\ sendPc = "recycle" /\ sendCur \in Buf /\ sendCur' = NoBuf
        /\ sendPc' = "call" /\ free' = Append(free, sendCur)
        /\ UNCHANGED <<poll, queue>>
    BY <1>6 DEF SendRecycle, TypeInv, TypeOK, SendInv
  <2>2. Range(free') = Range(free) \cup {sendCur}
    BY <2>1, AppendMembers DEF TypeInv, TypeOK
  <2>3. Posted = Range(queue) /\ Posted' = Range(queue)
    BY <1>1, <2>1 DEF Posted, InFlight, Recycling, FlightInv, OnceInv
  <2> QED
    BY <1>1, <1>2, <2>1, <2>2, <2>3
       DEF FlightInv, OnceInv, PostedInv, AnsweredInv
<1> QED
  BY <1>3, <1>4, <1>5, <1>6 DEF SendStep

\* What Send has transmitted is a posted buffer.
LEMMA FlightUnlisted == TypeInv /\ FlightInv => SentUnlisted
<1> SUFFICES ASSUME TypeInv, FlightInv, sendPc = "done"
             PROVE  sendCur \in Posted
  BY DEF SentUnlisted, FlightInv, PostedInv
<1>1. sendCur # NoBuf
  BY DEF TypeInv, SendInv
<1> QED
  BY <1>1 DEF Posted, InFlight, Recycling

LEMMA FlightNext ==
  ASSUME OneDisposer, Timely, TypeInv, OwnInv, FlightInv, [Next]_vars
  PROVE  FlightInv'
<1>1. CASE UNCHANGED vars
  BY <1>1 DEF vars, poolVars, prodVars, sendVars, FlightInv, OnceInv,
              PostedInv, AnsweredInv, Posted, InFlight, Recycling, Held, Entry
<1>2. ASSUME NEW t \in Producers, Start(t) \/ Producer(t) PROVE FlightInv'
  BY <1>2, FlightProducer, FlightUnlisted, OwnNext
<1>3. CASE PollWake \/ PollStep
  BY <1>3, FlightPoll
<1>4. CASE SendStep \/ TxComplete
  BY <1>4, FlightSend
<1> QED
  BY <1>1, <1>2, <1>3, <1>4 DEF Next

LEMMA FlightInvariant ==
  ASSUME OneDisposer, Timely
  PROVE  Spec => [](TypeInv /\ OwnInv /\ FlightInv)
<1>1. TypeInv /\ OwnInv /\ FlightInv /\ [Next]_vars => OwnInv'
  BY OwnNext, FlightUnlisted
<1>2. TypeInv /\ OwnInv /\ FlightInv /\ [Next]_vars => FlightInv'
  BY FlightNext
<1> QED
  BY <1>1, <1>2, OwnInit, FlightInit, TypeInvariant, PTL DEF Spec

\* Either answers and retries come after the end of a transmission, or no
\* frame of the phone is taken for the request that is answered.
NoStrayFlag == Timely \/ ~PhoneUpg

LEMMA OwnInvariant ==
  ASSUME OneDisposer, NoStrayFlag
  PROVE  Spec => [](TypeInv /\ OwnInv)
<1>1. CASE Timely
  BY <1>1, FlightInvariant, PTL
<1>2. CASE ~Timely
  <2>1. TypeInv /\ OwnInv /\ [Next]_vars => OwnInv'
    BY <1>2, OwnNext DEF NoStrayFlag
  <2> QED
    BY <2>1, OwnInit, TypeInvariant, PTL DEF Spec
<1> QED
  BY <1>1, <1>2

\* No interleaving of producers, Poll, Send, retries and answers, duplicate
\* ones included, lists or frees a buffer twice.  Late answers are included
\* only if they cannot match a frame of the phone: uart_protocol_parse would
\* flag it, and Send, back from an older transmission of the same buffer,
\* would recycle a frame that is still listed.
THEOREM Ownership ==
  OneDisposer /\ NoStrayFlag => (Spec => []ExclusiveOwnership)
<1> SUFFICES ASSUME OneDisposer, NoStrayFlag PROVE Spec => []ExclusiveOwnership
  OBVIOUS
<1>1. OwnInv => ExclusiveOwnership
  BY DEF OwnInv
<1> QED
  BY <1>1, OwnInvariant, PTL

\* With one user of the static pointer, every request that
\* uart_protocol_dispose accepts is the one that is listed.
THEOREM RequestsAreListed ==
  OneDisposer /\ NoStrayFlag => (Spec => RequestIsListed)
<1> SUFFICES ASSUME OneDisposer, NoStrayFlag PROVE Spec => RequestIsListed
  OBVIOUS
<1>1. ASSUME TypeInv, OwnInv, NEW t \in Producers, Add(t)
      PROVE  hand[t] \in Range(sendList')
  <2>1. Target(t) = hand[t] /\ hand[t] \in Buf
    BY <1>1, TargetIsHand DEF Add, At
  <2> QED
    BY <1>1, <2>1, AppendMembers DEF Add, TypeInv, TypeOK
<1>2. TypeInv /\ OwnInv
        => [\A t \in Producers :
              Add(t) /\ job[t] = "REQ" => hand[t] \in Range(sendList')]_vars
  BY <1>1
<1> QED
  BY <1>2, OwnInvariant, PTL DEF Spec, RequestIsListed

\* A frame is not overwritten nor its buffer handed out again before its
\* transmission has ended, whatever is posted, lost, retried or answered.
THEOREM FramesStayIntact ==
  OneDisposer /\ Timely => (Spec => []FrameIntegrity)
<1> SUFFICES ASSUME OneDisposer, Timely PROVE Spec => []FrameIntegrity
  OBVIOUS
<1>1. FlightInv => FrameIntegrity
  BY DEF FlightInv, PostedInv, Posted, FrameIntegrity
<1> QED
  BY <1>1, FlightInvariant, PTL

\* With a kernel message per buffer, everything Poll posts reaches Send,
\* although it posts blindly and ignores the error code of OSQPost.
THEOREM PostsArrive ==
  OneDisposer /\ Timely /\ MessagePerBuffer => (Spec => NoPostLost)
<1> SUFFICES ASSUME OneDisposer, Timely, MessagePerBuffer
             PROVE  Spec => NoPostLost
  OBVIOUS
<1>1. ASSUME TypeInv, OwnInv, FlightInv, PollPosts PROVE Entry \in InFlight'
  BY <1>1, PostsFresh, PostFlight, RoomToPost DEF FlightInv
<1>2. TypeInv /\ OwnInv /\ FlightInv => [PollPosts => Entry \in InFlight']_vars
  BY <1>1
<1> QED
  BY <1>2, FlightInvariant, PTL DEF Spec, NoPostLost

-----------------------------------------------------------------------------
(* No buffer is lost.                                                      *)

\* The pool starts with every buffer of g_uart_send_buf.
PoolComplete == Range(PoolOrder) = Buf

\* The reply Poll is about to unlink has reached Send.
UnlinkPosted == pollPc = "unlink" => Entry \in InFlight

LeakInv == NoLeak /\ UnlinkPosted

LEMMA LeakProducer ==
  ASSUME TypeInv, OwnInv, LeakInv, NEW t \in Producers, Start(t) \/ Producer(t)
  PROVE  LeakInv'
<1>1. /\ UNCHANGED <<pollPc, cursor, sendPc, sendCur, queue>>
      /\ InFlight' = InFlight
  BY DEF Start, Producer, Produce, ProduceNull, Point, Fill, Add, Ack, sendVars,
         InFlight
<1>2. CASE ~Produce(t) /\ ~Add(t)
  <2>1. UNCHANGED <<free, sendList, hand>>
    BY <1>2 DEF Start, Producer, ProduceNull, Point, Fill, Ack, Continue,
                poolVars, TypeInv, TypeOK, HandInv, FrameKind
  <2> QED
    BY <1>1, <2>1 DEF LeakInv, NoLeak, UnlinkPosted, Entry, Held
<1>3. CASE Produce(t)
  <2>1. /\ Range(free) = Range(free') \cup {Head(free)} /\ Head(free) \in Buf
        /\ hand[t] = NoBuf /\ hand' = [hand EXCEPT ![t] = Head(free)]
        /\ sendList' = sendList
    BY <1>3, TailMembers DEF Produce, At, TypeInv, TypeOK, HandInv
  <2>2. Held' = Held \cup {Head(free)}
    BY <2>1, ConstantsAssumption DEF Held, TypeInv, TypeOK
  <2> QED
    BY <1>1, <2>1, <2>2 DEF LeakInv, NoLeak, UnlinkPosted, Entry
<1>4. CASE Add(t)
  <2>1. /\ free' = free /\ hand' = [hand EXCEPT ![t] = NoBuf]
        /\ hand[t] \in Buf /\ sendList' = Append(sendList, hand[t])
        /\ pollPc = "delay"
    BY <1>4, TargetIsHand
       DEF Add, At, Continue, poolVars, Blocked, PollHoldsMutex, FrameKind
  <2>2. Range(sendList') = Range(sendList) \cup {hand[t]}
    BY <2>1, AppendMembers DEF TypeInv, TypeOK
  <2>3. Held \subseteq Held' \cup {hand[t]} /\ Held' \subseteq Held
    BY <2>1 DEF Held, TypeInv, TypeOK
  <2> QED
    BY <1>1, <2>1, <2>2, <2>3 DEF LeakInv, NoLeak, UnlinkPosted
<1> QED
  BY <1>2, <1>3, <1>4

LEMMA LeakPoll ==
  ASSUME MessagePerBuffer, Timely, TypeInv, OwnInv, FlightInv, LeakInv,
         PollWake \/ PollStep
  PROVE  LeakInv'
<1>1. UNCHANGED hand /\ Held' = Held
  BY DEF PollWake, PollStep, PollEnd, PollUnlink, PollReap, PollTick,
         PollGiveUp, ReleaseEntry, PollPosts, PollPostReply, PollFirstSend,
         PollRetry, prodVars, Held
<1>2. CASE PollWake \/ PollEnd \/ PollTick
  <2>1. /\ UNCHANGED <<free, sendList, sendPc, sendCur, queue>>
        /\ pollPc' # "unlink"
    BY <1>2 DEF PollWake, PollEnd, EndPass, PollTick, Unanswered, IsRequest,
                AtEntry, Walking, poolVars, sendVars
  <2> QED
    BY <1>1, <2>1 DEF LeakInv, NoLeak, UnlinkPosted, InFlight
<1>3. CASE PollUnlink
  <2>1. /\ sendList' = RemoveAt(sendList, cursor) /\ pollPc' = "delay"
        /\ UNCHANGED <<free, sendPc, sendCur, queue>> /\ Entry \in InFlight
    BY <1>3 DEF PollUnlink, EndPass, poolVars, sendVars, LeakInv, UnlinkPosted
  <2>2. /\ Range(sendList) \subseteq Range(sendList') \cup {Entry}
        /\ Range(sendList') \subseteq Range(sendList)
    BY <1>3, <2>1, RemoveAtMembers
       DEF PollUnlink, TypeInv, TypeOK, CursorInv, Entry
  <2> QED
    BY <1>1, <2>1, <2>2 DEF LeakInv, NoLeak, UnlinkPosted, InFlight
<1>4. CASE PollReap \/ PollGiveUp
  <2>1. /\ cursor \in 1 .. Len(sendList) /\ Entry \in Buf
        /\ sendList' = RemoveAt(sendList, cursor)
        /\ free' = Append(free, Entry) /\ pollPc' # "unlink"
        /\ UNCHANGED <<sendPc, sendCur, queue>>
    BY <1>4, EntryType
       DEF PollReap, PollGiveUp, Unanswered, IsRequest, AtEntry, Walking,
           ReleaseEntry, sendVars
  <2>2. /\ Range(sendList) \subseteq Range(sendList') \cup {Entry}
        /\ Range(sendList') \subseteq Range(sendList)
        /\ Range(free') = Range(free) \cup {Entry}
    BY <2>1, RemoveAtMembers, AppendMembers DEF TypeInv, TypeOK, Entry
  <2> QED
    BY <1>1, <2>1, <2>2 DEF LeakInv, NoLeak, UnlinkPosted, InFlight
<1>5. CASE PollPosts
  <2>1. UNCHANGED <<free, sendList>> /\ (pollPc' = "unlink" => Entry' = Entry)
    BY <1>5 DEF PollPosts, PollPostReply, PollFirstSend, PollRetry, EndPass,
                Entry
  <2>2. /\ Entry \in Buf /\ InFlight \subseteq InFlight'
        /\ InFlight' \subseteq InFlight \cup {Entry} /\ Entry \in InFlight'
    BY <1>5, PostsFresh, PostFlight, RoomToPost DEF FlightInv
  <2> QED
    BY <1>1, <2>1, <2>2 DEF LeakInv, NoLeak, UnlinkPosted
<1> QED
  BY <1>2, <1>3, <1>4, <1>5 DEF PollStep

LEMMA LeakSend ==
  ASSUME TypeInv, OwnInv, FlightInv, LeakInv, SendStep \/ TxComplete
  PROVE  LeakInv'
<1>1. UNCHANGED <<sendList, hand, pollPc, cursor>> /\ Held' = Held
      /\ Entry' = Entry
  BY DEF SendStep, SendPend, SendTransmit, SendCheck, SendRecycle, TxComplete,
         prodVars, Held, Entry
<1>2. queue \in Seq(Buf) /\ NoBuf \notin Buf
  BY ConstantsAssumption DEF TypeInv, TypeOK
<1>3. CASE SendPend \/ SendTransmit \/ TxComplete
  <2>1. free' = free
    BY <1>3 DEF SendPend, SendTransmit, TxComplete, poolVars
  <2>2. InFlight' = InFlight
    <3>1. CASE SendPend /\ queue # <<>>
      <4>1. sendCur = NoBuf /\ sendCur' = Head(queue) /\ queue' = Tail(queue)
        BY <3>1 DEF SendPend, TypeInv, SendInv
      <4>2. /\ Range(queue) = Range(queue') \cup {sendCur'}
            /\ sendCur' \in Buf
        BY <1>2, <3>1, <4>1, TailMembers
      <4> QED
        BY <1>2, <4>1, <4>2 DEF InFlight
    <3>2. CASE ~(SendPend /\ queue # <<>>)
      BY <1>3, <3>2 DEF SendPend, SendTransmit, TxComplete, InFlight
    <3> QED
      BY <3>1, <3>2
  <2> QED
    BY <1>1, <2>1, <2>2 DEF LeakInv, NoLeak, UnlinkPosted
<1>4. CASE SendCheck
  <2>1. /\ pollPc = "delay" /\ sendPc = "done" /\ sendCur \in Buf
        /\ UNCHANGED <<free, queue>>
    BY <1>4, SendWaitsForPoll DEF SendCheck, TypeInv, TypeOK, SendInv
  <2>2. CASE poll[sendCur].flag /\ poll[sendCur].type = 0
    BY <1>1, <1>4, <2>1, <2>2
       DEF SendCheck, LeakInv, NoLeak, UnlinkPosted, InFlight
  <2>3. CASE ~(poll[sendCur].flag /\ poll[sendCur].type = 0)
    <3>1. sendCur' = NoBuf
      BY <1>4, <2>3 DEF SendCheck
    <3>2. InFlight = InFlight' \cup {sendCur}
      BY <1>2, <2>1, <3>1 DEF InFlight
    <3>3. sendCur \in Range(sendList)
      <4>1. sendCur \in Posted /\ poll[sendCur] \in PollState
        BY <1>2, <2>1 DEF Posted, InFlight, Recycling, TypeInv, TypeOK
      <4> QED
        BY <2>3, <4>1 DEF FlightInv, PostedInv, PollState
    <3> QED
      BY <1>1, <2>1, <3>2, <3>3 DEF LeakInv, NoLeak, UnlinkPosted
  <2> QED
    BY <2>2, <2>3
<1>5. CASE SendRecycle
  <2>1. /\ pollPc = "delay" /\ sendCur \in Buf /\ sendCur' = NoBuf
        /\ free' = Append(free, sendCur) /\ queue' = queue
    BY <1>5, SendWaitsForPoll DEF SendRecycle, TypeInv, TypeOK, SendInv
  <2>2. /\ Range(free') = Range(free) \cup {sendCur}
        /\ InFlight = InFlight' \cup {sendCur}
    BY <1>2, <2>1, AppendMembers DEF InFlight, TypeInv, TypeOK
  <2> QED
    BY <1>1, <2>1, <2>2 DEF LeakInv, NoLeak, UnlinkPosted
<1> QED
  BY <1>3, <1>4, <1>5 DEF SendStep

LEMMA LeakNext ==
  ASSUME MessagePerBuffer, Timely, TypeInv, OwnInv, FlightInv, LeakInv,
         [Next]_vars
  PROVE  LeakInv'
<1>1. CASE UNCHANGED vars
  BY <1>1 DEF vars, poolVars, prodVars, sendVars, LeakInv, NoLeak,
              UnlinkPosted, InFlight, Held, Entry
<1>2. ASSUME NEW t \in Producers, Start(t) \/ Producer(t) PROVE LeakInv'
  BY <1>2, LeakProducer
<1>3. CASE PollWake \/ PollStep
  BY <1>3, LeakPoll
<1>4. CASE SendStep \/ TxComplete
  BY <1>4, LeakSend
<1> QED
  BY <1>1, <1>2, <1>3, <1>4 DEF Next

\* No buffer is lost between the tasks: with a kernel message per buffer,
\* whatever is not in the pool is with a producer, listed, or with Send.
THEOREM NothingLeaks ==
  OneDisposer /\ Timely /\ MessagePerBuffer /\ PoolComplete
    => (Spec => []NoLeak)
<1> SUFFICES ASSUME OneDisposer, Timely, MessagePerBuffer, PoolComplete
             PROVE  Spec => []NoLeak
  OBVIOUS
<1>1. Init => LeakInv
  <2> SUFFICES ASSUME Init PROVE LeakInv
    OBVIOUS
  <2>1. Range(sendList) = {} /\ Held = {} /\ InFlight = {} /\ Range(free) = Buf
    BY DEF Init, Range, Held, InFlight, PoolComplete
  <2> QED
    BY <2>1 DEF Init, LeakInv, NoLeak, UnlinkPosted
<1>2. TypeInv /\ OwnInv /\ FlightInv /\ LeakInv /\ [Next]_vars => LeakInv'
  BY LeakNext
<1>3. LeakInv => NoLeak
  BY DEF LeakInv
<1> QED
  BY <1>1, <1>2, <1>3, FlightInvariant, PTL DEF Spec

-----------------------------------------------------------------------------
(* The promise of Outbox.                                                  *)

\* Send pends on an empty queue only.
PendInv == sendPc = "pend" => queue = <<>>

\* A pass leaves only requests behind it: it ends at the first reply.
WalkInv ==
  pollPc = "walk" =>
    \A i \in 1 .. cursor - 1 : i <= Len(sendList) => poll[sendList[i]].type = 1

\* A request is listed untransmitted.
FilledInv ==
  \A t \in Producers :
    step[t] = "add" /\ poll[hand[t]].type = 1 => poll[hand[t]].times = 0

OrderInv == PendInv /\ WalkInv /\ FilledInv

\* Requests stay requests until they are released.
LEMMA OrderProducer ==
  ASSUME TypeInv, OwnInv, OrderInv,
         NEW t \in Producers, Start(t) \/ Producer(t)
  PROVE  OrderInv'
<1>1. UNCHANGED <<pollPc, cursor, sendPc, sendCur, queue>> /\ PendInv'
  BY DEF Start, Producer, Produce, ProduceNull, Point, Fill, Add, Ack, sendVars,
         OrderInv, PendInv
<1>2. sendList \in Seq(Buf)
  BY DEF TypeInv, TypeOK
<1>3. CASE ~Fill(t) /\ ~Ack(t)
  <2>1. poll' = poll
    BY <1>3 DEF Start, Producer, Produce, ProduceNull, Point, Add, poolVars
  <2>2. WalkInv'
    <3>1. pollPc = "walk" => sendList' = sendList
      BY <1>3 DEF Start, Producer, Produce, ProduceNull, Point, Add, Blocked,
                  PollHoldsMutex, At, FrameKind
    <3> QED
      BY <1>1, <2>1, <3>1 DEF OrderInv, WalkInv
  <2>3. FilledInv'
    <3>1. \A u \in Producers :
            step'[u] = "add" => step[u] = "add" /\ hand'[u] = hand[u]
      BY <1>3 DEF Start, Producer, Produce, ProduceNull, Point, Add, Continue,
                  TypeInv, TypeOK, At
    <3> QED
      BY <2>1, <3>1 DEF OrderInv, FilledInv
  <2> QED
    BY <1>1, <2>2, <2>3 DEF OrderInv
<1>4. CASE Fill(t)
  <2>1. /\ Target(t) = hand[t] /\ hand[t] \in Held /\ hand[t] \in Buf
        /\ sendList' = sendList /\ hand' = hand
        /\ step' = [step EXCEPT ![t] = "add"]
    BY <1>4, TargetIsHand DEF Fill, At
  <2>2. \A b \in Buf : b # hand[t] => poll'[b] = poll[b]
    BY <1>4, <2>1 DEF Fill, TypeInv, TypeOK
  <2>3. poll'[hand[t]].type = 1 => poll'[hand[t]].times = 0
    BY <1>4, <2>1 DEF Fill, PollType, ZeroPoll, TypeInv, TypeOK, PollState
  <2>4. WalkInv'
    <3>1. ASSUME NEW i \in 1 .. Len(sendList)
          PROVE  poll'[sendList[i]] = poll[sendList[i]]
      <4>1. sendList[i] \in Range(sendList) /\ sendList[i] \in Buf
        BY <1>2, MembersOfSeq
      <4>2. sendList[i] # hand[t]
        BY <2>1, <4>1 DEF OwnInv, ExclusiveOwnership
      <4> QED
        BY <2>2, <4>1, <4>2
    <3> QED
      BY <1>1, <1>2, <2>1, <3>1 DEF OrderInv, WalkInv, TypeInv, TypeOK
  <2>5. FilledInv'
    <3>1. \A u \in Producers \ {t} : step'[u] = "add" =>
            /\ step[u] = "add" /\ hand[u] \in Buf /\ hand[u] # hand[t]
      BY <2>1, ConstantsAssumption
         DEF TypeInv, TypeOK, HandInv, OwnInv, ExclusiveOwnership
    <3> QED
      BY <2>1, <2>2, <2>3, <3>1 DEF OrderInv, FilledInv
  <2> QED
    BY <1>1, <2>4, <2>5 DEF OrderInv
<1>5. CASE Ack(t)
  <2>1. \A b \in Buf : poll'[b].type = poll[b].type
                       /\ poll'[b].times = poll[b].times
    <3>1. CASE poll' = poll
      BY <3>1
    <3>2. CASE \E b \in Answerable : poll' = [poll EXCEPT ![b].flag = TRUE]
      <4>1. PICK b \in Answerable : poll' = [poll EXCEPT ![b].flag = TRUE]
        BY <3>2
      <4>2. b \in Buf /\ poll[b] \in PollState
        BY <1>2, RangeOfSeq DEF Answerable, TypeInv, TypeOK
      <4> QED
        BY <4>1, <4>2 DEF TypeInv, TypeOK, PollState
    <3> QED
      BY <1>5, <3>1, <3>2 DEF Ack
  <2>2. /\ sendList' = sendList
        /\ \A i \in 1 .. Len(sendList) : sendList[i] \in Buf
    BY <1>2, <1>5, MembersOfSeq DEF Ack
  <2>3. WalkInv'
    BY <1>1, <1>2, <2>1, <2>2 DEF OrderInv, WalkInv, TypeInv, TypeOK
  <2>4. FilledInv'
    <3>1. \A u \in Producers : step'[u] = "add" =>
            /\ step[u] = "add" /\ hand'[u] = hand[u] /\ hand[u] \in Buf
      BY <1>5, ConstantsAssumption DEF Ack, Continue, TypeInv, TypeOK, HandInv
    <3> QED
      BY <2>1, <3>1 DEF OrderInv, FilledInv
  <2> QED
    BY <1>1, <2>3, <2>4 DEF OrderInv
<1> QED
  BY <1>3, <1>4, <1>5

LEMMA OrderPoll ==
  ASSUME TypeInv, OwnInv, OrderInv, PollWake \/ PollStep
  PROVE  OrderInv'
<1>1. UNCHANGED <<step, hand>> /\ sendList \in Seq(Buf)
  BY DEF PollWake, PollStep, PollEnd, PollUnlink, PollReap, PollTick,
         PollGiveUp, ReleaseEntry, PollPosts, PollPostReply, PollFirstSend,
         PollRetry, prodVars, TypeInv, TypeOK
<1>2. PendInv'
  BY DEF PollWake, PollStep, PollEnd, PollUnlink, PollReap, PollTick,
         PollGiveUp, ReleaseEntry, PollPosts, PollPostReply, PollFirstSend,
         PollRetry, sendVars, Post, OrderInv, PendInv
<1>3. ASSUME NEW b \in Buf, b \in Range(sendList),
             \A x \in Buf : x # b => poll'[x] = poll[x]
      PROVE  FilledInv'
  <2>1. \A t \in Producers : step[t] = "add" => hand[t] \in Buf /\ hand[t] # b
    BY <1>3, ConstantsAssumption
       DEF TypeInv, TypeOK, HandInv, OwnInv, ExclusiveOwnership, Held
  <2> QED
    BY <1>1, <1>3, <2>1 DEF OrderInv, FilledInv
<1>4. CASE PollWake \/ PollEnd \/ PollUnlink
  <2>1. poll' = poll /\ (pollPc' = "walk" => cursor' = 1)
    BY <1>4 DEF PollWake, PollEnd, PollUnlink, EndPass, poolVars
  <2> QED
    BY <1>1, <1>2, <2>1 DEF OrderInv, WalkInv, FilledInv
<1>5. CASE PollReap \/ PollGiveUp
  <2>1. /\ cursor \in 1 .. Len(sendList) /\ Entry = sendList[cursor]
        /\ Entry \in Buf /\ Entry \in Range(sendList)
        /\ sendList' = RemoveAt(sendList, cursor)
        /\ poll' = [poll EXCEPT ![Entry] = ZeroPoll]
        /\ UNCHANGED <<pollPc, cursor>> /\ pollPc = "walk"
    BY <1>5, EntryType
       DEF PollReap, PollGiveUp, Unanswered, IsRequest, AtEntry, Walking,
           ReleaseEntry, Entry
  <2>2. \A x \in Buf : x # Entry => poll'[x] = poll[x]
    BY <2>1 DEF TypeInv, TypeOK
  <2>3. WalkInv'
    <3>1. PICK l, u \in Seq(Buf) :
            /\ sendList = (l \o <<sendList[cursor]>>) \o u
            /\ sendList' = l \o u
            /\ Len(l) = cursor - 1
            /\ \A i \in 1 .. cursor - 1 : l[i] = sendList[i]
      BY <1>1, <2>1, SplitAt, ZenonT(40)
    <3>2. \A i \in 1 .. cursor - 1 : sendList'[i] = sendList[i]
      BY <2>1, <3>1, ConcatProperties
    <3>3. \A i \in 1 .. cursor - 1 :
            sendList[i] \in Buf /\ sendList[i] # Entry
      BY <1>1, <2>1 DEF OwnInv, ExclusiveOwnership, IsInjective
    <3> QED
      BY <2>1, <2>2, <3>2, <3>3 DEF OrderInv, WalkInv
  <2> QED
    BY <1>2, <1>3, <2>1, <2>2, <2>3 DEF OrderInv
<1>6. CASE PollTick
  <2>1. /\ cursor \in 1 .. Len(sendList) /\ Entry = sendList[cursor]
        /\ Entry \in Buf /\ Entry \in Range(sendList) /\ poll[Entry].type = 1
        /\ UNCHANGED <<pollPc, sendList>> /\ pollPc = "walk"
        /\ cursor' = cursor + 1
    BY <1>6, EntryType
       DEF PollTick, Unanswered, IsRequest, AtEntry, Walking, Entry
  <2>2. /\ \A x \in Buf : x # Entry => poll'[x] = poll[x]
        /\ \A x \in Buf : poll'[x].type = poll[x].type
    BY <1>6, <2>1 DEF PollTick, TypeInv, TypeOK, PollState
  <2>3. WalkInv'
    <3>1. \A i \in 1 .. cursor' - 1 : i \in 1 .. cursor - 1 \/ i = cursor
      BY <2>1
    <3>2. \A i \in 1 .. Len(sendList) : sendList[i] \in Buf
      BY <1>1
    <3>3. \A i \in 1 .. cursor - 1 : i \in 1 .. Len(sendList)
      BY <1>1, <2>1
    <3> QED
      BY <2>1, <2>2, <3>1, <3>2, <3>3 DEF OrderInv, WalkInv
  <2> QED
    BY <1>2, <1>3, <2>1, <2>2, <2>3 DEF OrderInv
<1>7. CASE PollPosts
  <2>1. Entry \in Buf /\ Entry \in Range(sendList) /\ pollPc' # "walk"
    BY <1>7, EntryType
       DEF PollPosts, PollPostReply, PollFirstSend, PollRetry, Unanswered,
           IsRequest, AtEntry, EndPass
  <2>2. \A x \in Buf : x # Entry => poll'[x] = poll[x]
    BY <1>7 DEF PollPosts, PollPostReply, PollFirstSend, PollRetry, TypeInv,
                TypeOK
  <2> QED
    BY <1>2, <1>3, <2>1, <2>2 DEF OrderInv, WalkInv
<1> QED
  BY <1>4, <1>5, <1>6, <1>7 DEF PollStep

LEMMA OrderSend ==
  ASSUME TypeInv, OwnInv, FlightInv, OrderInv, SendStep \/ TxComplete
  PROVE  OrderInv'
<1>1. /\ UNCHANGED <<sendList, step, hand, pollPc, cursor>> /\ PendInv'
      /\ ~SendCheck => poll' = poll
  BY DEF SendStep, SendPend, SendTransmit, SendCheck, SendRecycle, TxComplete,
         prodVars, poolVars, OrderInv, PendInv
<1>2. CASE poll' = poll
  BY <1>1, <1>2 DEF OrderInv, WalkInv, FilledInv
<1>3. CASE poll' # poll
  <2>1. /\ pollPc = "delay" /\ sendPc = "done" /\ sendCur \in Buf
        /\ \A x \in Buf : x # sendCur => poll'[x] = poll[x]
        /\ poll'[sendCur].type = 0
    BY <1>1, <1>3, SendWaitsForPoll
       DEF SendCheck, TypeInv, TypeOK, SendInv, ZeroPoll
  <2>2. \A t \in Producers : step[t] = "add" => hand[t] \in Buf
    BY ConstantsAssumption DEF TypeInv, TypeOK, HandInv
  <2> QED
    BY <1>1, <2>1, <2>2 DEF OrderInv, WalkInv, FilledInv
<1> QED
  BY <1>2, <1>3

LEMMA OrderNext ==
  ASSUME TypeInv, OwnInv, FlightInv, OrderInv, [Next]_vars
  PROVE  OrderInv'
<1>1. CASE UNCHANGED vars
  BY <1>1 DEF vars, poolVars, prodVars, sendVars, OrderInv, PendInv, WalkInv,
              FilledInv
<1>2. ASSUME NEW t \in Producers, Start(t) \/ Producer(t) PROVE OrderInv'
  BY <1>2, OrderProducer
<1>3. CASE PollWake \/ PollStep
  BY <1>3, OrderPoll
<1>4. CASE SendStep \/ TxComplete
  BY <1>4, OrderSend
<1> QED
  BY <1>1, <1>2, <1>3, <1>4 DEF Next

\* A step that the tasks of the bridge see as one step of Outbox or as none.
Kept == [Promise!Next]_(Promise!vars)

LEMMA WaitingPosted ==
  ASSUME TypeInv, OnceInv
  PROVE  /\ Waiting \in Seq(Buf) /\ Listed \in Seq(Buf)
         /\ sendList \in Seq(Buf) /\ queue \in Seq(Buf)
         /\ Range(Waiting) = Range(queue) \cup
                               (IF sendPc = "got" THEN {sendCur} ELSE {})
         /\ Range(Waiting) \subseteq Posted /\ Posted \subseteq Buf
         /\ Range(Listed) \subseteq Range(sendList)
         /\ Range(sendList) \subseteq Buf
<1>1. /\ queue \in Seq(Buf) /\ Range(queue) \subseteq Buf
      /\ sendList \in Seq(Buf) /\ Range(sendList) \subseteq Buf
  BY RangeOfSeq DEF TypeInv, TypeOK
<1>2. Listed \in Seq(Buf) /\ Range(Listed) \subseteq Range(sendList)
  BY <1>1, RemoveAtMembers DEF Listed, TypeInv, CursorInv
<1> DEFINE ahead == IF sendPc = "got" THEN {sendCur} ELSE {}
<1>3. Waiting \in Seq(Buf) /\ Range(Waiting) = Range(queue) \cup ahead
  <2>1. CASE sendPc = "got"
    <3>1. sendCur \in Buf
      BY <2>1 DEF TypeInv, TypeOK, SendInv
    <3>2. PICK e \in Seq(Buf) : e = <<sendCur>> /\ Range(e) = {sendCur}
      BY <3>1, OneMember
    <3>3. Waiting = e \o queue
      BY <2>1, <3>2 DEF Waiting
    <3>4. /\ e \o queue \in Seq(Buf)
          /\ Range(e \o queue) = Range(e) \cup Range(queue)
      BY <1>1, ConcatMembers
    <3> QED
      BY <2>1, <3>2, <3>3, <3>4
  <2>2. CASE sendPc # "got"
    <3>1. Waiting = queue
      BY <1>1, <2>2 DEF Waiting
    <3> QED
      BY <1>1, <2>2, <3>1
  <2> QED
    BY <2>1, <2>2
<1>4. Range(queue) \cup ahead \subseteq Posted
  BY <1>1, ConstantsAssumption
     DEF Posted, InFlight, Recycling, OnceInv, TypeInv, SendInv
<1>5. Posted \subseteq Buf
  BY <1>1 DEF Posted, InFlight, TypeInv, TypeOK
<1> HIDE DEF ahead
<1>6. Range(Waiting) \subseteq Posted
  BY <1>3, <1>4
<1> QED
  BY <1>1, <1>2, <1>3, <1>5, <1>6 DEF ahead

\* The replies in order: those posted, then those listed.
LEMMA RepliesInOrder ==
  ASSUME TypeInv, OnceInv
  PROVE  /\ Replies = Pick(Waiting, ReplyBufs) \o Pick(Listed, ReplyBufs)
         /\ Pick(Waiting, ReplyBufs) \in Seq(Buf)
         /\ Pick(Listed, ReplyBufs) \in Seq(Buf)
         /\ Range(Replies) \subseteq Range(Waiting) \cup Range(sendList)
<1> DEFINE w == Waiting
           l == Listed
           S == ReplyBufs
<1>1. w \in Seq(Buf) /\ l \in Seq(Buf) /\ Range(l) \subseteq Range(sendList)
  BY WaitingPosted
<1>2. Replies = Pick(w \o l, S)
  BY DEF Replies
<1> HIDE DEF w, l, S
<1>3. /\ w \o l \in Seq(Buf)
      /\ Pick(w \o l, S) = Pick(w, S) \o Pick(l, S)
  BY <1>1, PickConcat, ConcatProperties
<1>4. Range(Pick(w \o l, S)) \subseteq Range(w \o l)
  BY <1>3, PickMembers
<1>5. Range(w \o l) = Range(w) \cup Range(l)
  BY <1>1, ConcatMembers
<1>6. Pick(w, S) \in Seq(Buf) /\ Pick(l, S) \in Seq(Buf)
  BY <1>1, PickSeq
<1> QED
  BY <1>1, <1>2, <1>3, <1>4, <1>5, <1>6 DEF w, l, S

\* What the promise does not see.
LEMMA Unseen ==
  ASSUME Replies' = Replies, OpenRequests' = OpenRequests,
         \A b \in OpenRequests : /\ Transmissions(b)' = Transmissions(b)
                                 /\ poll'[b].flag <=> poll[b].flag
  PROVE  UNCHANGED Promise!vars
<1>1. Tries' = Tries
  BY DEF Tries
<1>2. Answered' = Answered
  BY DEF Answered
<1> QED
  BY <1>1, <1>2 DEF Promise!vars

\* A step that leaves the lists alone, and the polls of what is on them.
LEMMA UnseenLists ==
  ASSUME TypeInv, TypeInv', OnceInv, Waiting' = Waiting, Listed' = Listed,
         sendList' = sendList,
         \A b \in Range(Waiting) \cup Range(sendList) :
           poll'[b].type = poll[b].type,
         \A b \in OpenRequests : /\ poll'[b].times = poll[b].times
                                 /\ poll'[b].flag <=> poll[b].flag
  PROVE  UNCHANGED Promise!vars
<1>1. /\ Waiting \in Seq(Buf) /\ Listed \in Seq(Buf)
      /\ Range(Listed) \subseteq Range(sendList)
      /\ Range(sendList) \subseteq Buf
      /\ Range(Waiting) \subseteq Buf
  BY WaitingPosted
<1>2. \A b \in Range(Waiting) \cup Range(sendList) :
        b \in ReplyBufs' <=> b \in ReplyBufs
  BY <1>1 DEF ReplyBufs
<1>3. OpenRequests' = OpenRequests
  BY <1>2 DEF OpenRequests
<1>4. Replies' = Replies
  <2> DEFINE w == Waiting
             l == Listed
             S == ReplyBufs
             T == ReplyBufs'
  <2>1. /\ w \in Seq(Buf) /\ l \in Seq(Buf)
        /\ \A x \in Range(w) : x \in S <=> x \in T
        /\ \A x \in Range(l) : x \in S <=> x \in T
    BY <1>1, <1>2
  <2>2. Replies = Pick(w \o l, S) /\ Replies' = Pick(w \o l, T)
    BY DEF Replies
  <2> HIDE DEF w, l, S, T
  <2>3. Pick(w, S) = Pick(w, T) /\ Pick(l, S) = Pick(l, T)
    BY <2>1, PickSame
  <2>4. Pick(w \o l, S) = Pick(w, S) \o Pick(l, S)
    BY <2>1, PickConcat
  <2>5. Pick(w \o l, T) = Pick(w, T) \o Pick(l, T)
    BY <2>1, PickConcat
  <2> QED
    BY <2>2, <2>3, <2>4, <2>5
<1> QED
  BY <1>3, <1>4, Unseen DEF Transmissions

\* A frame that is listed is accepted: it was not outstanding before.
LEMMA KeptAdd ==
  ASSUME TypeInv, OwnInv, FlightInv, OrderInv, NEW t \in Producers, Add(t)
  PROVE  Promise!Next
<1> DEFINE h == hand[t]
           w == Waiting
           l == sendList
           S == ReplyBufs
<1>1. /\ h \in Buf /\ h \in Held /\ pollPc = "delay" /\ step[t] = "add"
      /\ sendList' = Append(sendList, h)
      /\ UNCHANGED <<poll, pollPc, cursor, sendPc, sendCur, queue>>
  BY TargetIsHand DEF Add, At, Blocked, PollHoldsMutex, FrameKind, poolVars,
                      sendVars
<1>2. /\ Waiting' = Waiting /\ ReplyBufs' = ReplyBufs
      /\ Listed = sendList /\ Listed' = Append(sendList, h)
  BY <1>1 DEF Waiting, ReplyBufs, Listed
<1>3. /\ w \in Seq(Buf) /\ l \in Seq(Buf) /\ Range(l) \subseteq Buf
      /\ Range(w) \subseteq Posted
      /\ Range(Replies) \subseteq Range(w) \cup Range(l)
  BY WaitingPosted, RepliesInOrder DEF FlightInv
<1>4. h \notin Range(w) /\ h \notin Range(l)
  BY <1>1, <1>3 DEF FlightInv, PostedInv, OwnInv, ExclusiveOwnership
<1>5. Replies = Pick(w \o l, S) /\ Replies' = Pick(w \o Append(l, h), S)
  BY <1>2 DEF Replies
<1>6. /\ OpenRequests = Range(l) \ S
      /\ OpenRequests' = (Range(l) \cup {h}) \ S
  BY <1>1, <1>2, <1>3, AppendMembers DEF OpenRequests
<1>7. h \in S <=> poll[h].type = 0
  BY <1>1 DEF ReplyBufs
<1>8. \A b \in Buf : Transmissions(b)' = Transmissions(b)
  BY <1>1, <1>2 DEF Transmissions
<1>9. Promise!Fresh(h)
  <2>1. Promise!Range(Replies) = Range(Replies)
    BY DEF Promise!Range, Range
  <2>2. h \notin Range(Replies) /\ h \notin OpenRequests
    BY <1>3, <1>4, <1>6
  <2> QED
    BY <2>1, <2>2 DEF Promise!Fresh, Promise!Requests, Tries
<1>10. ~poll[h].flag
  BY <1>1 DEF OwnInv, FlagInv
<1> HIDE DEF h, w, l, S
<1>11. Replies' = IF h \in S THEN Append(Replies, h) ELSE Replies
  <2> DEFINE c == w \o l
  <2>1. c \in Seq(Buf) /\ w \o Append(l, h) = Append(c, h)
    BY <1>1, <1>3, ConcatProperties, ConcatAppend DEF h
  <2> HIDE DEF c
  <2>2. h \in Buf
    BY <1>1 DEF h
  <2>3. Pick(Append(c, h), S) = IF h \in S THEN Append(Pick(c, S), h)
                                           ELSE Pick(c, S)
    BY <2>1, <2>2, PickAppend
  <2> QED
    BY <1>5, <2>1, <2>3 DEF c
<1>12. CASE h \in S
  <2>1. OpenRequests' = OpenRequests /\ Replies' = Append(Replies, h)
    BY <1>6, <1>11, <1>12
  <2>2. OpenRequests \subseteq Buf
    BY <1>3, <1>6
  <2>3. Tries' = Tries
    BY <1>8, <2>1, <2>2 DEF Tries
  <2>4. Answered' = Answered
    BY <1>1, <2>1 DEF Answered
  <2>5. Promise!AcceptReply(h)
    BY <1>9, <2>1, <2>3, <2>4 DEF Promise!AcceptReply
  <2> QED
    BY <1>1, <2>5 DEF Promise!Next, h
<1>13. CASE h \notin S
  <2>1. OpenRequests' = OpenRequests \cup {h} /\ Replies' = Replies
    BY <1>6, <1>11, <1>13
  <2>2. h \in Buf /\ OpenRequests \subseteq Buf /\ h \notin OpenRequests
    BY <1>1, <1>3, <1>4, <1>6 DEF h
  <2>3. Transmissions(h) = 0
    <3>1. poll[h].type = 1 /\ h \notin Range(Waiting)
      BY <1>4, <1>7, <1>13, <2>2 DEF TypeInv, TypeOK, PollState, w
    <3>2. poll[h].times = 0
      BY <1>1, <3>1 DEF OrderInv, FilledInv, h
    <3>3. Transmissions(h) = poll[h].times - 0
      BY <3>1, Zenon DEF Transmissions
    <3> QED
      BY <3>2, <3>3
  <2>4. Tries' = [g \in DOMAIN Tries \cup {h} |-> IF g = h THEN 0 ELSE Tries[g]]
    <3>1. Tries' = [g \in OpenRequests' |-> Transmissions(g)']
      BY DEF Tries
    <3>2. \A g \in OpenRequests : Tries[g] = Transmissions(g)
      BY DEF Tries
    <3>3. DOMAIN Tries = OpenRequests
      BY DEF Tries
    <3>4. \A g \in OpenRequests \cup {h} :
            Transmissions(g)' = IF g = h THEN 0 ELSE Tries[g]
      BY <1>8, <2>2, <2>3, <3>2
    <3> QED
      BY <2>1, <3>1, <3>3, <3>4
  <2>5. Answered' = Answered
    BY <1>1, <1>10, <2>1 DEF Answered, h
  <2>6. Promise!AcceptRequest(h)
    BY <1>9, <2>1, <2>4, <2>5 DEF Promise!AcceptRequest, Promise!Requests
  <2> QED
    BY <2>2, <2>6 DEF Promise!Next
<1> QED
  BY <1>12, <1>13

\* An answer is that of a request whose transmission has ended, or it flags a
\* frame of the phone, which the promise does not see.
LEMMA KeptAck ==
  ASSUME TypeInv, TypeInv', OwnInv, FlightInv, Timely,
         NEW t \in Producers, Ack(t)
  PROVE  Kept
<1>1. UNCHANGED <<sendList, pollPc, cursor, sendPc, sendCur, queue>>
  BY DEF Ack, sendVars
<1>2. Waiting' = Waiting /\ Listed' = Listed
  BY <1>1 DEF Waiting, Listed
<1>3. CASE poll' = poll
  BY <1>1, <1>2, <1>3, UnseenLists DEF Kept, FlightInv
<1>4. ASSUME NEW b \in Answerable, poll' = [poll EXCEPT ![b].flag = TRUE],
             poll[b].type = 0
      PROVE  Kept
  <2>1. b \in Buf /\ poll[b] \in PollState /\ b \notin OpenRequests
    BY <1>4, WaitingPosted
       DEF Answerable, TypeInv, TypeOK, FlightInv, OpenRequests, ReplyBufs
  <2>2. /\ \A x \in Buf : poll'[x].type = poll[x].type
        /\ \A x \in Buf : x # b => poll'[x] = poll[x]
    BY <1>4, <2>1, ZenonT(40) DEF TypeInv, TypeOK, PollState
  <2>3. /\ Range(Waiting) \subseteq Buf /\ Range(sendList) \subseteq Buf
        /\ OpenRequests \subseteq Buf
    BY WaitingPosted DEF FlightInv, OpenRequests
  <2>4. \A x \in OpenRequests : poll'[x] = poll[x]
    BY <2>1, <2>2, <2>3
  <2> QED
    BY <1>1, <1>2, <2>2, <2>3, <2>4, UnseenLists DEF Kept, FlightInv
<1>5. ASSUME NEW b \in Answerable, poll' = [poll EXCEPT ![b].flag = TRUE],
             poll[b].type # 0
      PROVE  Kept
  <2>1. poll' = [poll EXCEPT ![b].flag = TRUE]
    BY <1>5
  <2>2. /\ b \in Range(sendList) /\ b \in Buf /\ b \notin InFlight
        /\ poll[b] \in PollState /\ poll[b].times > 0 /\ poll[b].type = 1
        /\ Range(Waiting) \subseteq InFlight
    <3>1. b \in Range(sendList) /\ b \in Buf /\ poll[b] \in PollState
      BY WaitingPosted DEF Answerable, TypeInv, TypeOK, FlightInv
    <3>2. poll[b].type = 1
      BY <1>5, <3>1 DEF PollState
    <3> QED
      BY <3>1, <3>2, WaitingPosted DEF Answerable, FlightInv, Posted
  <2>3. /\ \A x \in Buf : /\ poll'[x].type = poll[x].type
                          /\ poll'[x].times = poll[x].times
        /\ \A x \in Buf : x # b => poll'[x] = poll[x]
        /\ poll'[b].flag
    BY <2>1, <2>2, ZenonT(40) DEF TypeInv, TypeOK, PollState
  <2>4. ReplyBufs' = ReplyBufs /\ OpenRequests' = OpenRequests
    BY <1>1, <2>3 DEF ReplyBufs, OpenRequests
  <2>5. OpenRequests \subseteq Buf /\ b \in OpenRequests
    BY <2>2, WaitingPosted DEF OpenRequests, ReplyBufs, FlightInv
  <2>6. Replies' = Replies
    BY <1>2, <2>4 DEF Replies
  <2>7. Tries' = Tries
    BY <1>2, <2>3, <2>4, <2>5 DEF Tries, Transmissions
  <2>8. Answered' = Answered \cup {b}
    BY <2>3, <2>4, <2>5 DEF Answered
  <2>9. Tries[b] > 0 /\ DOMAIN Tries = OpenRequests
    BY <2>2, <2>5 DEF Tries, Transmissions, PollState
  <2>10. Promise!Answer(b)
    BY <2>6, <2>7, <2>8, <2>9 DEF Promise!Answer
  <2> QED
    BY <2>5, <2>9, <2>10 DEF Kept, Promise!Next, Promise!Requests
<1> QED
  BY <1>3, <1>4, <1>5 DEF Ack

LEMMA KeptProducer ==
  ASSUME TypeInv, TypeInv', OwnInv, FlightInv, OrderInv, Timely,
         NEW t \in Producers, Start(t) \/ Producer(t)
  PROVE  Kept
<1>1. CASE Start(t) \/ Produce(t) \/ ProduceNull(t) \/ Point(t)
  <2>1. UNCHANGED <<poll, sendList, pollPc, cursor, sendPc, sendCur, queue>>
    BY <1>1 DEF Start, Produce, ProduceNull, Point, poolVars, sendVars
  <2>2. Waiting' = Waiting /\ Listed' = Listed
    BY <2>1 DEF Waiting, Listed
  <2> QED
    BY <2>1, <2>2, UnseenLists DEF Kept, FlightInv
<1>2. CASE Fill(t)
  <2>1. UNCHANGED <<sendList, pollPc, cursor, sendPc, sendCur, queue>>
    BY <1>2 DEF Fill, sendVars
  <2>2. Waiting' = Waiting /\ Listed' = Listed
    BY <2>1 DEF Waiting, Listed
  <2>3. /\ hand[t] \in Held /\ hand[t] \in Buf
        /\ \A b \in Buf : b # hand[t] => poll'[b] = poll[b]
    BY <1>2, TargetIsHand DEF Fill, At, TypeInv, TypeOK
  <2>4. /\ Range(Waiting) \subseteq Posted /\ Posted \subseteq Buf
        /\ Range(sendList) \subseteq Buf
    BY WaitingPosted DEF FlightInv
  <2>5. \A b \in Range(Waiting) \cup Range(sendList) : poll'[b] = poll[b]
    BY <2>3, <2>4
       DEF FlightInv, PostedInv, OwnInv, ExclusiveOwnership
  <2> QED
    BY <2>1, <2>2, <2>5, UnseenLists DEF Kept, FlightInv, OpenRequests
<1>3. CASE Add(t)
  BY <1>3, KeptAdd DEF Kept
<1>4. CASE Ack(t)
  BY <1>4, KeptAck
<1> QED
  BY <1>1, <1>2, <1>3, <1>4 DEF Producer

LEMMA PostAppends ==
  ASSUME MessagePerBuffer, TypeInv, OnceInv, OrderInv,
         NEW b \in Buf, b \notin InFlight, Post(b)
  PROVE  /\ Waiting' = Append(Waiting, b)
         /\ b \notin Range(Waiting)
         /\ Range(Waiting') = Range(Waiting) \cup {b}
<1>1. /\ Waiting \in Seq(Buf) /\ queue \in Seq(Buf)
      /\ Range(Waiting) \subseteq InFlight
  BY WaitingPosted DEF Posted
<1>2. Waiting' = Append(Waiting, b)
  <2>1. CASE sendPc = "pend"
    <3>1. /\ queue = <<>> /\ queue' = <<>> /\ sendPc' = "got" /\ sendCur' = b
      BY <2>1 DEF Post, OrderInv, PendInv
    <3>2. Waiting = <<>> /\ Waiting' = <<b>>
      BY <2>1, <3>1 DEF Waiting
    <3> QED
      BY <3>2
  <2>2. CASE sendPc # "pend"
    <3>1. queue' = Append(queue, b) /\ UNCHANGED <<sendPc, sendCur>>
      BY <2>2, RoomToPost DEF Post
    <3>2. CASE sendPc = "got"
      <4>1. sendCur \in Buf
        BY <3>2 DEF TypeInv, TypeOK, SendInv
      <4>2. PICK e \in Seq(Buf) : e = <<sendCur>>
        BY <4>1, OneMember
      <4>3. Waiting = e \o queue /\ Waiting' = e \o Append(queue, b)
        BY <3>1, <3>2, <4>2 DEF Waiting
      <4>4. e \o Append(queue, b) = Append(e \o queue, b)
        BY <1>1, ConcatAppend
      <4> QED
        BY <4>3, <4>4
    <3>3. CASE sendPc # "got"
      <4>1. Waiting = <<>> \o queue /\ Waiting' = <<>> \o Append(queue, b)
        BY <3>1, <3>3 DEF Waiting
      <4> QED
        BY <1>1, <4>1
    <3> QED
      BY <3>2, <3>3
  <2> QED
    BY <2>1, <2>2
<1> QED
  BY <1>1, <1>2, AppendMembers

\* A reply passes from the list to the queue, before those listed after it.
LEMMA KeptPostReply ==
  ASSUME MessagePerBuffer, Timely, TypeInv, OwnInv, FlightInv, OrderInv,
         PollPostReply
  PROVE  UNCHANGED Promise!vars
<1> DEFINE e == Entry
           w == Waiting
           l == sendList
           S == ReplyBufs
<1>1. /\ e \in Buf /\ e \in Range(sendList) /\ e \notin InFlight /\ Post(e)
  BY PostsFresh DEF PollPosts
<1>2. /\ Waiting' = Append(w, e) /\ Range(Waiting') = Range(w) \cup {e}
  BY <1>1, PostAppends DEF FlightInv
<1>3. /\ w \in Seq(Buf) /\ l \in Seq(Buf) /\ Range(l) \subseteq Buf
  BY WaitingPosted DEF FlightInv
<1>4. /\ pollPc = "walk" /\ pollPc' = "unlink" /\ cursor' = cursor
      /\ cursor \in 1 .. Len(l) /\ e = l[cursor] /\ sendList' = l
      /\ poll[e].type = 0
      /\ poll' = [poll EXCEPT ![e].flag = TRUE]
  BY EntryType DEF PollPostReply, AtEntry, Walking, Entry
<1>5. Listed = l /\ Listed' = RemoveAt(l, cursor)
  BY <1>4 DEF Listed
<1>6. /\ \A x \in Buf : x # e => poll'[x] = poll[x]
      /\ \A x \in Buf : poll'[x].type = poll[x].type
  BY <1>1, <1>4 DEF TypeInv, TypeOK, PollState
<1>7. ReplyBufs' = S /\ e \in S /\ OpenRequests' = OpenRequests
      /\ OpenRequests \subseteq Buf /\ e \notin OpenRequests
  BY <1>1, <1>3, <1>4, <1>6 DEF ReplyBufs, OpenRequests
<1>8. Replies = Pick(w \o l, S)
      /\ Replies' = Pick(Append(w, e) \o RemoveAt(l, cursor), S)
  BY <1>2, <1>5, <1>7 DEF Replies
<1>9. \A i \in 1 .. cursor - 1 : l[i] \notin S
  BY <1>3, <1>4 DEF OrderInv, WalkInv, ReplyBufs
<1> HIDE DEF e, w, l, S
<1>10. Replies' = Replies
  <2> DEFINE r == RemoveAt(l, cursor)
             v == Append(w, e)
  <2>1. r \in Seq(Buf) /\ v \in Seq(Buf)
    BY <1>1, <1>3, <1>4, RemoveAtMembers DEF e
  <2>2. Pick(l, S) = <<e>> \o Pick(r, S)
    BY <1>3, <1>4, <1>7, <1>9, PickFirst
  <2>3. Pick(v, S) = Append(Pick(w, S), e)
    BY <1>1, <1>3, <1>7, PickAppend DEF e
  <2> HIDE DEF r, v
  <2>4. /\ Pick(w \o l, S) = Pick(w, S) \o Pick(l, S)
        /\ Pick(v \o r, S) = Pick(v, S) \o Pick(r, S)
    BY <1>3, <2>1, PickConcats
  <2>5. Pick(w, S) \in Seq(Buf) /\ Pick(r, S) \in Seq(Buf)
    BY <1>3, <2>1, PickSeq
  <2>6. Append(Pick(w, S), e) \o Pick(r, S)
          = Pick(w, S) \o (<<e>> \o Pick(r, S))
    BY <1>1, <2>5, AppendThenConcat DEF e
  <2> QED
    BY <1>8, <2>2, <2>3, <2>4, <2>6 DEF v, r
<1>11. \A b \in OpenRequests : Transmissions(b)' = Transmissions(b)
  <2>1. \A b \in OpenRequests : b \in Range(Waiting') <=> b \in Range(Waiting)
    BY <1>2, <1>7 DEF w
  <2>2. \A b \in OpenRequests : poll'[b] = poll[b]
    BY <1>6, <1>7
  <2> QED
    BY <2>1, <2>2 DEF Transmissions
<1> QED
  BY <1>6, <1>7, <1>10, <1>11, Unseen

\* A transmission of a request is counted when Poll posts it, and promised
\* when Send makes it.
LEMMA KeptPostRequest ==
  ASSUME MessagePerBuffer, Timely, TypeInv, OwnInv, FlightInv, OrderInv,
         PollFirstSend \/ PollRetry
  PROVE  UNCHANGED Promise!vars
<1> DEFINE e == Entry
           w == Waiting
           l == sendList
           S == ReplyBufs
<1>1. /\ e \in Buf /\ e \in Range(sendList) /\ e \notin InFlight /\ Post(e)
  BY PostsFresh DEF PollPosts
<1>2. /\ Waiting' = Append(w, e) /\ Range(Waiting') = Range(w) \cup {e}
      /\ e \notin Range(w)
  BY <1>1, PostAppends DEF FlightInv
<1>3. /\ w \in Seq(Buf) /\ l \in Seq(Buf) /\ Range(l) \subseteq Buf
  BY WaitingPosted DEF FlightInv
<1>4. /\ pollPc = "walk" /\ pollPc' = "delay" /\ sendList' = l
      /\ poll[e].type = 1
      /\ \/ poll[e].times = 0 /\ poll' = [poll EXCEPT ![e].times = 1]
         \/ poll' = [poll EXCEPT ![e].delay = 0, ![e].times = @ + 1]
  BY DEF PollFirstSend, PollRetry, Unanswered, IsRequest, AtEntry, Walking,
         EndPass
<1>5. Listed = l /\ Listed' = l
  BY <1>4 DEF Listed
<1>6. /\ \A x \in Buf : x # e => poll'[x] = poll[x]
      /\ \A x \in Buf : /\ poll'[x].type = poll[x].type
                        /\ poll'[x].flag = poll[x].flag
      /\ poll'[e].times = poll[e].times + 1 /\ poll[e].times \in Nat
  <2>1. poll[e] \in PollState
    BY <1>1 DEF TypeInv, TypeOK
  <2>2. /\ poll \in [Buf -> PollState] /\ e \in Buf
    BY <1>1 DEF TypeInv, TypeOK
  <2> HIDE DEF e
  <2>3. CASE poll[e].times = 0 /\ poll' = [poll EXCEPT ![e].times = 1]
    BY <2>1, <2>2, <2>3 DEF PollState
  <2>4. CASE poll' = [poll EXCEPT ![e].delay = 0, ![e].times = @ + 1]
    <3>1. poll'[e] = [poll[e] EXCEPT !.delay = 0, !.times = poll[e].times + 1]
          /\ \A x \in Buf : x # e => poll'[x] = poll[x]
      BY <2>2, <2>4
    <3>2. poll[e].times \in Nat
      BY <2>1 DEF PollState
    <3>3. /\ poll'[e].type = poll[e].type /\ poll'[e].flag = poll[e].flag
          /\ poll'[e].times = poll[e].times + 1
      BY ONLY <2>1, <3>1 DEF PollState
    <3> QED
      BY <3>1, <3>2, <3>3
  <2> QED
    BY <1>4, <2>3, <2>4
<1>7. /\ ReplyBufs' = S /\ e \notin S /\ OpenRequests' = OpenRequests
      /\ OpenRequests \subseteq Buf
  BY <1>1, <1>3, <1>4, <1>6 DEF ReplyBufs, OpenRequests
<1>8. Replies = Pick(w \o l, S) /\ Replies' = Pick(Append(w, e) \o l, S)
  BY <1>2, <1>5, <1>7 DEF Replies
<1> HIDE DEF e, w, l, S
<1>9. Replies' = Replies
  <2> DEFINE v == Append(w, e)
  <2>1. v \in Seq(Buf)
    BY <1>1, <1>3 DEF e
  <2>2. Pick(v, S) = Pick(w, S)
    BY <1>1, <1>3, <1>7, PickAppend DEF e
  <2> HIDE DEF v
  <2>3. /\ Pick(w \o l, S) = Pick(w, S) \o Pick(l, S)
        /\ Pick(v \o l, S) = Pick(v, S) \o Pick(l, S)
    BY <1>3, <2>1, PickConcats
  <2> QED
    BY <1>8, <2>2, <2>3 DEF v
<1>10. ASSUME NEW b \in OpenRequests
       PROVE  Transmissions(b)' = Transmissions(b)
  <2>1. CASE b = e
    <3>1. /\ Transmissions(b) = poll[b].times - 0
          /\ Transmissions(b)' = poll'[b].times - 1
      BY <1>2, <2>1, Zenon DEF Transmissions, w
    <3> QED
      BY <1>6, <2>1, <3>1
  <2>2. CASE b # e
    <3>1. b \in Range(Waiting') <=> b \in Range(Waiting)
      BY <1>2, <2>2 DEF w
    <3>2. poll'[b] = poll[b]
      BY <1>6, <1>7, <2>2
    <3> QED
      BY <3>1, <3>2 DEF Transmissions
  <2> QED
    BY <2>1, <2>2
<1> QED
  BY <1>6, <1>7, <1>9, <1>10, Unseen

\* A request is closed when it has been answered or sent MaxTimes times.
LEMMA KeptRelease ==
  ASSUME TypeInv, OwnInv, FlightInv, IsRequest, Entry \notin Posted,
         poll[Entry].flag \/ poll[Entry].times = MaxTimes, ReleaseEntry
  PROVE  Promise!Next
<1> DEFINE e == Entry
           w == Waiting
           l == sendList
           S == ReplyBufs
           r == RemoveAt(l, cursor)
<1>1. /\ cursor \in 1 .. Len(l) /\ e = l[cursor] /\ e \in Buf /\ e \in Range(l)
      /\ sendList' = r
      /\ poll' = [poll EXCEPT ![e] = ZeroPoll]
      /\ pollPc = "walk" /\ poll[e].type = 1
      /\ UNCHANGED <<pollPc, cursor, sendPc, sendCur, queue>>
  BY EntryType DEF IsRequest, AtEntry, Walking, ReleaseEntry, Entry, sendVars
<1>2. Waiting' = w /\ Listed = l /\ Listed' = r
  BY <1>1 DEF Waiting, Listed
<1>3. /\ w \in Seq(Buf) /\ l \in Seq(Buf) /\ Range(l) \subseteq Buf
      /\ Range(w) \subseteq Buf /\ e \notin Range(w)
  BY WaitingPosted DEF FlightInv
<1>4. /\ r \in Seq(Buf) /\ Range(r) \subseteq Range(l) \ {e}
      /\ Range(l) \subseteq Range(r) \cup {e}
  BY <1>1, <1>3, RemoveAtMembers DEF OwnInv, ExclusiveOwnership
<1>5. /\ \A x \in Buf : x # e => poll'[x] = poll[x]
      /\ poll'[e].type = 0
  BY <1>1 DEF TypeInv, TypeOK, ZeroPoll
<1>6. ReplyBufs' = S \cup {e} /\ e \notin S
  BY <1>1, <1>5 DEF ReplyBufs
<1>7. Replies = Pick(w \o l, S) /\ Replies' = Pick(w \o r, S \cup {e})
  BY <1>2, <1>6 DEF Replies
<1>8. /\ OpenRequests = Range(l) \ S /\ OpenRequests' = Range(r) \ (S \cup {e})
  BY <1>1, <1>6 DEF OpenRequests
<1>9. /\ OpenRequests' = OpenRequests \ {e} /\ e \in OpenRequests
      /\ OpenRequests \subseteq Buf
  BY <1>1, <1>3, <1>4, <1>6, <1>8
<1> HIDE DEF e, w, l, S, r
<1>10. Replies' = Replies
  <2> DEFINE T == S \cup {e}
  <2>1. Pick(w, S) = Pick(w, T)
    <3>1. \A x \in Range(w) : x \in S <=> x \in T
      BY <1>3
    <3> HIDE DEF T
    <3> QED
      BY <1>3, <3>1, PickSame
  <2>2. Pick(r, S) = Pick(r, T)
    <3>1. \A x \in Range(r) : x \in S <=> x \in T
      BY <1>4
    <3> HIDE DEF T
    <3> QED
      BY <1>4, <3>1, PickSame
  <2>3. Pick(r, S) = Pick(l, S)
    BY <1>1, <1>3, <1>6, PickRemove DEF r
  <2> HIDE DEF T
  <2>4. Pick(w \o l, S) = Pick(w, S) \o Pick(l, S)
    BY <1>3, PickConcats
  <2>5. Pick(w \o r, T) = Pick(w, T) \o Pick(r, T)
    BY <1>3, <1>4, PickConcats
  <2> QED
    BY <1>7, <2>1, <2>2, <2>3, <2>4, <2>5 DEF T
<1>11. /\ DOMAIN Tries = OpenRequests
       /\ \A g \in OpenRequests : Tries[g] = Transmissions(g)
  BY DEF Tries
<1>12. Tries' = [g \in DOMAIN Tries \ {e} |-> Tries[g]]
  <2>1. Tries' = [g \in OpenRequests' |-> Transmissions(g)']
    BY DEF Tries
  <2>2. \A g \in OpenRequests \ {e} : Transmissions(g)' = Tries[g]
    BY <1>2, <1>5, <1>9, <1>11 DEF Transmissions, w
  <2> QED
    BY <1>9, <1>11, <2>1, <2>2
<1>13. Answered' = Answered \ {e}
  BY <1>5, <1>9 DEF Answered
<1>14. e \in Answered \/ Tries[e] = MaxTimes
  <2>1. CASE poll[e].flag
    BY <1>9, <2>1 DEF Answered
  <2>2. CASE poll[e].times = MaxTimes
    <3>1. Transmissions(e) = poll[e].times - 0
      BY <1>3, Zenon DEF Transmissions, w
    <3> QED
      BY <1>9, <1>11, <2>2, <3>1, ConstantsAssumption
  <2> QED
    BY <2>1, <2>2 DEF e
<1>15. Promise!Close(e)
  BY <1>10, <1>12, <1>13, <1>14 DEF Promise!Close, Promise!Requests
<1> QED
  BY <1>9, <1>11, <1>15 DEF Promise!Next, Promise!Requests

LEMMA KeptPoll ==
  ASSUME MessagePerBuffer, Timely, TypeInv, TypeInv', OwnInv, FlightInv,
         OrderInv, PollWake \/ PollStep
  PROVE  Kept
<1>1. CASE PollWake \/ PollEnd \/ PollTick
  <2>1. /\ UNCHANGED <<sendList, sendPc, sendCur, queue>>
        /\ pollPc # "unlink" /\ pollPc' # "unlink"
    BY <1>1 DEF PollWake, PollEnd, EndPass, PollTick, Unanswered, IsRequest,
                AtEntry, Walking, sendVars
  <2>2. Waiting' = Waiting /\ Listed' = Listed
    BY <2>1 DEF Waiting, Listed
  <2>3. \A b \in Buf : /\ poll'[b].type = poll[b].type
                       /\ poll'[b].times = poll[b].times
                       /\ poll'[b].flag = poll[b].flag
    <3>1. CASE poll' = poll
      BY <3>1
    <3>2. CASE PollTick
      <4>1. Entry \in Buf
        BY <3>2, EntryType DEF PollTick, Unanswered, IsRequest, AtEntry
      <4>2. poll[Entry] \in PollState
        BY <4>1 DEF TypeInv, TypeOK
      <4> QED
        BY <3>2, <4>1, <4>2, ZenonT(40)
           DEF PollTick, TypeInv, TypeOK, PollState
    <3> QED
      BY <1>1, <3>1, <3>2 DEF PollWake, PollEnd, poolVars
  <2>4. /\ Range(Waiting) \subseteq Buf /\ Range(sendList) \subseteq Buf
        /\ OpenRequests \subseteq Buf
    BY WaitingPosted DEF FlightInv, OpenRequests
  <2> QED
    BY <2>1, <2>2, <2>3, <2>4, UnseenLists DEF Kept, FlightInv
<1>2. CASE PollUnlink
  <2>1. /\ pollPc = "unlink" /\ pollPc' = "delay"
        /\ sendList' = RemoveAt(sendList, cursor)
        /\ UNCHANGED <<poll, sendPc, sendCur, queue>>
    BY <1>2 DEF PollUnlink, EndPass, poolVars, sendVars
  <2>2. /\ Waiting' = Waiting /\ Listed' = Listed /\ ReplyBufs' = ReplyBufs
    BY <2>1 DEF Waiting, Listed, ReplyBufs
  <2>3. OpenRequests' = OpenRequests /\ OpenRequests \subseteq Buf
    <3>1. Entry \in ReplyBufs
      BY <2>1 DEF OwnInv, UnlinkInv, ReplyBufs, TypeInv, TypeOK, CursorInv,
                  Entry
    <3>2. /\ Range(sendList') \subseteq Range(sendList)
          /\ Range(sendList) \subseteq Range(sendList') \cup {Entry}
      BY <2>1, RemoveAtMembers DEF TypeInv, TypeOK, CursorInv, Entry
    <3> QED
      BY <2>2, <3>1, <3>2, WaitingPosted DEF OpenRequests, FlightInv
  <2>4. Replies' = Replies
    BY <2>2 DEF Replies
  <2>5. UNCHANGED Promise!vars
    BY <2>1, <2>2, <2>3, <2>4, Unseen DEF Transmissions
  <2> QED
    BY <2>5 DEF Kept
<1>3. CASE PollReap
  BY <1>3, KeptRelease DEF Kept, PollReap, IsRequest, FlightInv, PostedInv
<1>4. CASE PollGiveUp
  <2>1. Entry \in Buf /\ IsRequest /\ Entry \notin Posted
    BY <1>4, EntryType DEF PollGiveUp, Unanswered, IsRequest, AtEntry, Expired,
                           Posted
  <2>2. poll[Entry].times \in 0 .. MaxTimes
    BY <2>1 DEF TypeInv, TypeOK, PollState
  <2>3. poll[Entry].times = MaxTimes
    BY <1>4, <2>2, ConstantsAssumption DEF PollGiveUp
  <2> QED
    BY <1>4, <2>1, <2>3, KeptRelease DEF Kept, PollGiveUp
<1>5. CASE PollPosts
  BY <1>5, KeptPostReply, KeptPostRequest DEF Kept, PollPosts
<1> QED
  BY <1>1, <1>2, <1>3, <1>4, <1>5 DEF PollStep

\* The oldest reply, or the next transmission of a request.
LEMMA KeptTransmit ==
  ASSUME TypeInv, OwnInv, FlightInv, SendTransmit
  PROVE  Promise!Next
<1>0. PICK c \in Buf : c = sendCur
  BY DEF SendTransmit, TypeInv, TypeOK, SendInv
<1> DEFINE q == queue
           l == Listed
           S == ReplyBufs
<1>1. /\ c = sendCur /\ sendPc = "got" /\ sendPc' = "wait"
      /\ c \in Buf /\ q \in Seq(Buf)
      /\ UNCHANGED <<poll, sendList, pollPc, cursor, sendCur, queue>>
  BY <1>0 DEF SendTransmit, poolVars, TypeInv, TypeOK
<1>2. /\ Waiting = <<c>> \o q /\ Waiting' = q
      /\ Listed' = l /\ ReplyBufs' = S /\ OpenRequests' = OpenRequests
  BY <1>1 DEF Waiting, Listed, ReplyBufs, OpenRequests
<1>3. /\ l \in Seq(Buf) /\ OpenRequests \subseteq Buf /\ c \in Posted
      /\ Range(Waiting) = Range(q) \cup {c} /\ c \notin Range(q)
  BY <1>1, WaitingPosted DEF FlightInv, OnceInv, OpenRequests
<1>4. /\ Replies = Pick(<<c>> \o q, S) \o Pick(l, S)
      /\ Pick(l, S) \in Seq(Buf)
  BY <1>2, RepliesInOrder DEF FlightInv
<1>5. Replies' = Pick(q \o l, S)
  BY <1>2 DEF Replies
<1>6. \A b \in Buf : b # c => Transmissions(b)' = Transmissions(b)
  BY <1>1, <1>2, <1>3 DEF Transmissions
<1>7. Answered' = Answered
  BY <1>1, <1>2 DEF Answered
<1>8. c \in S <=> poll[c].type = 0
  BY <1>1 DEF ReplyBufs
<1>9. /\ Transmissions(c) = poll[c].times - 1
      /\ Transmissions(c)' = poll[c].times - 0
  BY <1>1, <1>2, <1>3, Zenon DEF Transmissions
<1>10. poll[c] \in PollState
  BY <1>1 DEF TypeInv, TypeOK
<1> HIDE DEF q, l, S
<1>11. /\ Replies' = Pick(q, S) \o Pick(l, S) /\ Pick(q, S) \in Seq(Buf)
  BY <1>1, <1>3, <1>5, PickConcats, PickSeq DEF q
<1>12. Pick(<<c>> \o q, S) = (IF c \in S THEN <<c>> ELSE <<>>) \o Pick(q, S)
  <2>1. PICK e \in Seq(Buf) : e = <<c>>
    BY OneMember
  <2>2. Pick(e \o q, S) = Pick(e, S) \o Pick(q, S)
    BY <1>1, PickConcats DEF q
  <2>3. Pick(e, S) = IF c \in S THEN <<c>> ELSE <<>>
    BY <2>1, PickOne
  <2> QED
    BY <2>1, <2>2, <2>3
<1>13. CASE c \in S
  <2>1. Replies = (<<c>> \o Pick(q, S)) \o Pick(l, S)
    BY <1>4, <1>12, <1>13
  <2>2. Replies # <<>> /\ Replies' = Tail(Replies)
    <3> DEFINE x == Pick(q, S)
               y == Pick(l, S)
    <3>1. x \in Seq(Buf) /\ y \in Seq(Buf)
      BY <1>4, <1>11
    <3>2. Replies = (<<c>> \o x) \o y /\ Replies' = x \o y
      BY <1>11, <2>1
    <3> HIDE DEF x, y
    <3>3. (<<c>> \o x) \o y # <<>> /\ Tail((<<c>> \o x) \o y) = x \o y
      BY ONLY c \in Buf, <3>1
    <3> QED
      BY <3>2, <3>3
  <2>3. Tries' = Tries
    <3>1. c \notin OpenRequests
      BY <1>13 DEF OpenRequests, S
    <3> QED
      BY <1>2, <1>3, <1>6, <3>1 DEF Tries
  <2>4. Promise!SendReply
    BY <1>7, <2>2, <2>3 DEF Promise!SendReply
  <2> QED
    BY <2>4 DEF Promise!Next
<1>14. CASE c \notin S
  <2>1. Replies' = Replies
    <3>1. Pick(<<c>> \o q, S) = Pick(q, S)
      BY <1>11, <1>12, <1>14, SMTT(30)
    <3> QED
      BY <1>4, <1>11, <3>1
  <2>2. /\ poll[c].type = 1 /\ c \in Range(sendList) /\ ~poll[c].flag
        /\ poll[c].times \in 1 .. MaxTimes
    BY <1>3, <1>8, <1>10, <1>14, ConstantsAssumption
       DEF FlightInv, PostedInv, PollState
  <2>3. c \in OpenRequests /\ c \notin Answered
    BY <1>14, <2>2 DEF OpenRequests, Answered, S
  <2>4. /\ DOMAIN Tries = OpenRequests
        /\ \A g \in OpenRequests : Tries[g] = Transmissions(g)
    BY DEF Tries
  <2>5. Tries[c] < MaxTimes /\ Transmissions(c)' = Tries[c] + 1
    BY <1>9, <2>2, <2>3, <2>4, ConstantsAssumption
  <2>6. Tries' = [Tries EXCEPT ![c] = @ + 1]
    <3>1. Tries' = [g \in OpenRequests |-> Transmissions(g)']
      BY <1>2 DEF Tries
    <3>2. \A g \in OpenRequests :
            Transmissions(g)' = IF g = c THEN Tries[g] + 1 ELSE Tries[g]
      BY <1>3, <1>6, <2>4, <2>5
    <3>3. Tries = [g \in OpenRequests |-> Transmissions(g)]
      BY DEF Tries
    <3> QED
      BY <3>1, <3>2, <3>3, <2>4
  <2>7. Promise!SendRequest(c)
    BY <1>7, <2>1, <2>3, <2>5, <2>6 DEF Promise!SendRequest
  <2> QED
    BY <2>3, <2>4, <2>7 DEF Promise!Next, Promise!Requests
<1> QED
  BY <1>13, <1>14

LEMMA KeptSend ==
  ASSUME TypeInv, TypeInv', OwnInv, FlightInv, SendStep \/ TxComplete
  PROVE  Kept
<1>1. CASE SendTransmit
  BY <1>1, KeptTransmit DEF Kept
<1>2. CASE ~SendTransmit
  <2>1. UNCHANGED <<sendList, pollPc, cursor>> /\ Listed' = Listed
    BY <1>2 DEF SendStep, SendPend, SendCheck, SendRecycle, TxComplete, Listed
  <2>2. Waiting' = Waiting
    <3>1. CASE SendPend /\ queue # <<>>
      <4>1. /\ queue \in Seq(Buf) /\ sendPc = "call" /\ sendPc' = "got"
            /\ sendCur' = Head(queue) /\ queue' = Tail(queue)
        BY <3>1 DEF SendPend, TypeInv, TypeOK
      <4>2. Waiting = queue /\ Waiting' = <<Head(queue)>> \o Tail(queue)
        BY <4>1 DEF Waiting
      <4> QED
        BY <3>1, <4>1, <4>2
    <3>2. CASE ~(SendPend /\ queue # <<>>)
      <4>1. queue' = queue /\ sendPc # "got" /\ sendPc' # "got"
        BY <1>2, <3>2 DEF SendStep, SendPend, SendCheck, SendRecycle, TxComplete
      <4> QED
        BY <4>1 DEF Waiting
    <3> QED
      BY <3>1, <3>2
  <2>3. \/ poll' = poll
        \/ /\ sendCur \in Buf /\ poll[sendCur].type = 0
           /\ poll' = [poll EXCEPT ![sendCur] = ZeroPoll]
    BY <1>2 DEF SendStep, SendPend, SendCheck, SendRecycle, TxComplete,
                poolVars, TypeInv, TypeOK, SendInv
  <2>4. /\ \A b \in Buf : poll'[b].type = poll[b].type
        /\ \A b \in Buf : poll[b].type # 0 => poll'[b] = poll[b]
    <3>1. CASE poll' = poll
      BY <3>1
    <3>2. CASE poll' # poll
      <4>1. /\ \A b \in Buf : b # sendCur => poll'[b] = poll[b]
            /\ poll'[sendCur].type = 0
        BY <2>3, <3>2 DEF TypeInv, TypeOK, ZeroPoll
      <4> QED
        BY <2>3, <3>2, <4>1
    <3> QED
      BY <3>1, <3>2
  <2>5. /\ Range(Waiting) \subseteq Buf /\ Range(sendList) \subseteq Buf
        /\ \A b \in OpenRequests : b \in Buf /\ poll[b].type # 0
    BY WaitingPosted DEF FlightInv, OpenRequests, ReplyBufs
  <2> QED
    BY <2>1, <2>2, <2>4, <2>5, UnseenLists DEF Kept, FlightInv
<1> QED
  BY <1>1, <1>2

LEMMA KeptNext ==
  ASSUME MessagePerBuffer, Timely, TypeInv, TypeInv', OwnInv, FlightInv,
         OrderInv, [Next]_vars
  PROVE  Kept
<1>1. CASE UNCHANGED vars
  <2>1. UNCHANGED <<poll, sendList, pollPc, cursor, sendPc, sendCur, queue>>
    BY <1>1 DEF vars, poolVars, sendVars
  <2>2. Waiting' = Waiting /\ Listed' = Listed
    BY <2>1 DEF Waiting, Listed
  <2> QED
    BY <2>1, <2>2, UnseenLists DEF Kept, FlightInv
<1>2. ASSUME NEW t \in Producers, Start(t) \/ Producer(t) PROVE Kept
  BY <1>2, KeptProducer
<1>3. CASE PollWake \/ PollStep
  BY <1>3, KeptPoll
<1>4. CASE SendStep \/ TxComplete
  BY <1>4, KeptSend
<1> QED
  BY <1>1, <1>2, <1>3, <1>4 DEF Next

LEMMA PromiseInit == Init => Promise!Init
<1> SUFFICES ASSUME Init PROVE Promise!Init
  OBVIOUS
<1>1. Waiting = <<>> /\ Listed = <<>> /\ OpenRequests = {}
  BY DEF Init, Waiting, Listed, OpenRequests, Range
<1>2. Replies = <<>>
  BY <1>1, PickEmpty DEF Replies
<1>3. Tries = <<>> /\ Answered = {}
  BY <1>1 DEF Tries, Answered
<1> QED
  BY <1>2, <1>3 DEF Promise!Init

\* Replies are transmitted once each and in the order in which they were
\* listed, a request at most MaxTimes times and never after its answer: the
\* tasks, the list, the queue and the retries implement Outbox, for every
\* number of buffers and every set of producers that shares no static pointer.
THEOREM ImplementsOutbox ==
  OneDisposer /\ Timely /\ MessagePerBuffer => (Spec => KeepsPromise)
<1> SUFFICES ASSUME OneDisposer, Timely, MessagePerBuffer
             PROVE  Spec => KeepsPromise
  OBVIOUS
<1>1. Init => OrderInv
  BY DEF Init, OrderInv, PendInv, WalkInv, FilledInv
<1>2. TypeInv /\ OwnInv /\ FlightInv /\ OrderInv /\ [Next]_vars => OrderInv'
  BY OrderNext
<1>3. TypeInv /\ OwnInv /\ FlightInv /\ OrderInv /\ TypeInv' /\ [Next]_vars
        => [Promise!Next]_(Promise!vars)
  BY KeptNext DEF Kept
<1> QED
  BY <1>1, <1>2, <1>3, PromiseInit, FlightInvariant, PTL
     DEF Spec, KeepsPromise, Promise!Spec

=============================================================================
