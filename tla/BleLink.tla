------------------------------ MODULE BleLink ------------------------------
(***************************************************************************)
(* The Bluetooth side of the bridge: the connection of the phone, what the *)
(* host is told about it, and the frames of the host on their way to the   *)
(* phone.                                                                  *)
(*                                                                         *)
(* The stack delivers its events one at a time to BluetoothEventHandler    *)
(* (app/ble.c), which keeps ble_conn_state, ble_conn_handle and ble_mtu,   *)
(* wakes Ble_Event_Task, and starts advertising again after a              *)
(* disconnection.  App_Uart_Parse_Task writes frames of the host that are  *)
(* not for the bridge into the ring notify_array and executes              *)
(* CMD_ADV_CTRL; Ble_Notify_Task sends the ring to the phone in            *)
(* notifications of at most ble_mtu bytes.                                 *)
(*                                                                         *)
(* The tasks interleave freely.  A stack command is one step: BgApi shows  *)
(* when that is so.  Bytes are counted in units of what fits the smallest  *)
(* notification (20 bytes).                                                *)
(***************************************************************************)
EXTENDS PhoneRx, FiniteSets

CONSTANTS
  MaxConns,    \* connections in a behaviour
  MaxFrames,   \* frames, of the host for the phone and of the phone
  FrameLen,    \* the lengths of those of the host
  RingSize,    \* NOTIFY_ARRAY_SIZE
  MaxBusy,     \* start_advertising commands the stack refuses for no reason
  MaxCtrl,     \* CMD_ADV_CTRL commands of the host
  OneWay,      \* TRUE: the frames of a behaviour all go the same way
  SlowReopen   \* TRUE: no connection opens before the ring was flushed

ASSUME LinkAssumption ==
  /\ MaxConns \in Nat /\ MaxFrames \in Nat
  /\ MaxBusy \in Nat /\ MaxCtrl \in Nat
  /\ FrameLen \subseteq Nat \ {0}
  /\ RingSize \in Nat \ {0} /\ \A n \in FrameLen : n < RingSize
  /\ OneWay \in BOOLEAN /\ SlowReopen \in BOOLEAN

\* The handle of a connection: there is one at a time, and the stack may give
\* each the same.
Handle == 1
\* What a notification holds: 20 bytes, more after an exchange of the MTU.
DefaultMtu == 1
LargeMtu == 2

VARIABLES
  conn,        \* the connection the stack has, numbered from 1; 0: none
  conns,       \* how many there have been
  att,         \* what a notification of that connection may hold
  subscribed,  \* the phone has enabled notifications
  advertising, \* the stack advertises
  events,      \* the events of the stack, not handled yet
  connState, connHandle, mtu,  \* ble_conn_state, ble_conn_handle, ble_mtu
  evTask,      \* Ble_Event_Task: "pend", or the state it is reporting
  hostView,    \* the connection state the host was told last
  missed,      \* history: the last change never reached Ble_Event_Task
  parse,       \* App_Uart_Parse_Task: "idle", "forward", "adv"
  frameLen,    \* the frame it forwards
  ring, pbIn, pbOut,           \* notify_array
  notify,      \* Ble_Notify_Task: "pend", "send"
  note,        \* NotifyBuf, NotifyLen
  owed,        \* history: what is still to reach the phone, in order
  settled,     \* history: the ring was flushed since the disconnection
  frames, ctrls, busy          \* the bounds used up

stack == <<conn, conns, att, subscribed, advertising>>
app == <<connState, connHandle, mtu>>
told == <<evTask, hostView, missed>>
parser == <<parse, frameLen>>
ringVars == <<ring, pbIn, pbOut>>
notifier == <<notify, note>>
bounds == <<frames, ctrls>>
vars == <<stack, events, app, told, parser, ringVars, notifier, owed, settled,
          bounds, busy, phoneVars>>

Init ==
  /\ PhoneInit
  /\ conn = 0 /\ conns = 0 /\ att = DefaultMtu /\ subscribed = FALSE
  /\ advertising = FALSE /\ events = <<>>
  /\ connState = 0 /\ connHandle = 0 /\ mtu = DefaultMtu
  /\ evTask = "pend" /\ hostView = 0 /\ missed = FALSE
  /\ parse = "idle" /\ frameLen = 0
  /\ ring = [i \in 0 .. RingSize - 1 |-> <<0, 0, 0>>] /\ pbIn = 0 /\ pbOut = 0
  /\ notify = "pend" /\ note = <<>>
  /\ owed = <<>> /\ settled = TRUE
  /\ frames = 0 /\ ctrls = 0 /\ busy = 0

-----------------------------------------------------------------------------
(* The phone and the stack.                                                *)

PhoneConnect ==
  /\ advertising /\ conn = 0 /\ conns < MaxConns
  /\ SlowReopen => settled
  /\ conns' = conns + 1 /\ conn' = conns'
  /\ att' = DefaultMtu /\ subscribed' = FALSE
  /\ advertising' = FALSE
  /\ events' = Append(events, "opened")
  /\ UNCHANGED <<phoneVars, app, told, parser, ringVars, notifier, owed,
                settled, bounds, busy>>

PhoneDisconnect ==
  /\ conn # 0
  /\ conn' = 0
  /\ events' = Append(events, "closed")
  /\ settled' = FALSE
  /\ PhoneGone
  /\ UNCHANGED <<conns, att, subscribed, advertising, app, told,
                parser, ringVars, notifier, owed, bounds, busy>>

PhoneExchangesMtu ==
  /\ conn # 0 /\ att = DefaultMtu
  /\ att' = LargeMtu
  /\ events' = Append(events, "mtu")
  /\ UNCHANGED <<phoneVars, conn, conns, subscribed, advertising, app, told,
                parser, ringVars, notifier, owed, settled, bounds, busy>>

PhoneSubscribes ==
  /\ conn # 0 /\ ~subscribed
  /\ subscribed' = TRUE
  /\ UNCHANGED <<phoneVars, conn, conns, att, advertising, events, app, told,
                parser, ringVars, notifier, owed, settled, bounds, busy>>

\* A piece of one of its frames (PhoneRx).
PhoneWritesPiece ==
  /\ conn # 0
  /\ PhoneWrites
  /\ frames + phoneFrames' <= MaxFrames
  /\ OneWay => frames = 0
  /\ events' = Append(events, "write")
  /\ UNCHANGED <<stack, app, told, parser, ringVars, notifier, owed, settled,
                 bounds, busy>>

\* gecko_external_signal: signals of the same bit are one event.
Signalled(q) == IF Contains(q, "retry") THEN q ELSE Append(q, "retry")

\* Mutant: a failed start is not tried again.
StartAdvertisingOnce(rest) ==
  \/ /\ conn = 0
     /\ advertising' = TRUE
     /\ events' = rest /\ UNCHANGED busy
  \/ /\ conn # 0 \/ busy < MaxBusy
     /\ busy' = IF conn = 0 THEN busy + 1 ELSE busy
     /\ events' = rest /\ UNCHANGED advertising
\* gecko_cmd_le_gap_start_advertising fails while a phone is connected
\* (MAX_CONNECTIONS is 1), and may fail when it is busy; the failure asks for
\* another attempt.  rest: the events left for afterwards.
StartAdvertising(rest) ==
  \/ /\ conn = 0
     /\ advertising' = TRUE
     /\ events' = rest /\ UNCHANGED busy
  \/ /\ conn # 0 \/ busy < MaxBusy
     /\ busy' = IF conn = 0 THEN busy + 1 ELSE busy
     /\ events' = Signalled(rest) /\ UNCHANGED advertising

-----------------------------------------------------------------------------
(* BluetoothEventHandler.                                                  *)

Event(e) == events # <<>> /\ Head(events) = e

\* OSQPost with no kernel message to hold the event: it is handed to
\* Ble_Event_Task if that waits, and lost if not.
PostEvent(state) ==
  /\ evTask' = IF evTask = "pend" THEN state ELSE evTask
  /\ missed' = (evTask # "pend")
  /\ UNCHANGED hostView

\* The connection parameters change nothing else.
Opened ==
  /\ Event("opened")
  /\ events' = Tail(events)
  /\ connState' = 1
  /\ PostEvent("opened")
  /\ connHandle' = Handle
  /\ UNCHANGED <<phoneVars, stack, mtu, parser, ringVars, notifier, owed,
                settled, bounds, busy>>

\* Mutant: ble_conn_handle is kept.
ClosedKeepsHandle ==
  /\ Event("closed")
  /\ connState' = 0
  /\ PostEvent("closed")
  /\ StartAdvertising(Tail(events))
  /\ UNCHANGED <<phoneVars, conn, conns, att, subscribed, connHandle, mtu,
                parser, ringVars, notifier, owed, settled, bounds>>
Closed ==
  /\ Event("closed")
  /\ connState' = 0
  /\ PostEvent("closed")
  /\ connHandle' = 0
  /\ StartAdvertising(Tail(events))
  /\ UNCHANGED <<phoneVars, conn, conns, att, subscribed, mtu, parser,
                ringVars, notifier, owed, settled, bounds>>

MtuExchanged ==
  /\ Event("mtu")
  /\ events' = Tail(events)
  /\ mtu' = LargeMtu
  /\ UNCHANGED <<phoneVars, stack, connState, connHandle, told, parser,
                ringVars, notifier, owed, settled, bounds, busy>>

RetrySignal ==
  /\ Event("retry")
  /\ StartAdvertising(Tail(events))
  /\ UNCHANGED <<phoneVars, conn, conns, att, subscribed, app, told, parser,
                ringVars, notifier, owed, settled, bounds>>

Written ==
  /\ Event("write")
  /\ events' = Tail(events)
  /\ StoreWrite
  /\ UNCHANGED <<stack, app, told, parser, ringVars, notifier, owed, settled,
                 bounds, busy>>

Handler == Opened \/ Closed \/ MtuExchanged \/ Written \/ RetrySignal

-----------------------------------------------------------------------------
(* Ble_Event_Task.                                                         *)

\* Mutant: the states are confused.
StateOfSwapped(e) == IF e = "opened" THEN 0 ELSE 1
StateOf(e) == IF e = "opened" THEN 1 ELSE 0

\* ble_state_notify gets its frame to the host.
ReportState ==
  /\ evTask # "pend"
  /\ hostView' = StateOf(evTask)
  /\ evTask' = "pend"
  /\ UNCHANGED <<phoneVars, stack, events, app, missed, parser, ringVars,
                notifier, owed, settled, bounds, busy>>
\* The pool has no buffer for the frame.
ReportDropped ==
  /\ evTask # "pend"
  /\ evTask' = "pend"
  /\ missed' = TRUE
  /\ UNCHANGED <<phoneVars, stack, events, app, hostView, parser, ringVars,
                notifier, owed, settled, bounds, busy>>

-----------------------------------------------------------------------------
(* notify_array.                                                           *)

\* Mutant: the ring never wraps.
PlusNoWrap(i, n) == i + n
\* ptr_plus and ptr_minus.
Plus(i, n) == IF i + n >= RingSize THEN i + n - RingSize ELSE i + n
Minus(i, n) == IF i >= n THEN i - n ELSE i + RingSize - n

Used == Minus(pbIn, pbOut)
FromRing(n) == [k \in 1 .. n |-> ring[Plus(pbOut, k - 1)]]

\* The mutex of notify_array: Notify keeps it during its command.
RingFree == notify = "pend"

-----------------------------------------------------------------------------
(* App_Uart_Parse_Task.                                                    *)

\* A frame that is not for the bridge, while a phone is connected.  The host
\* leaves no more than the ring holds unread.
ForwardFrame ==
  /\ parse = "idle" /\ frames + phoneFrames < MaxFrames
  /\ OneWay => phoneFrames = 0
  /\ connState = 1
  /\ \E n \in FrameLen : Used + n < RingSize /\ frameLen' = n
  /\ parse' = "forward"
  /\ frames' = frames + 1
  /\ UNCHANGED <<phoneVars, stack, events, app, told, ringVars, notifier,
                owed, settled, ctrls, busy>>

\* Unit k of frame f, for the phone of connection c.
Frame(c, f, n) == [k \in 1 .. n |-> <<c, f, k>>]

WriteRing ==
  /\ parse = "forward" /\ RingFree
  /\ LET f == Frame(conns, frames, frameLen)
     IN /\ ring' = [i \in DOMAIN ring |->
                      LET k == Minus(i, pbIn) + 1
                      IN IF k <= frameLen THEN f[k] ELSE ring[i]]
        /\ owed' = owed \o f
  /\ pbIn' = Plus(pbIn, frameLen)
  /\ parse' = "idle" /\ frameLen' = 0
  /\ UNCHANGED <<phoneVars, stack, events, app, told, pbOut, notifier,
                settled, bounds, busy>>

\* CMD_ADV_CTRL: mible_gap_adv_start looks at ble_conn_handle and goes on, or
\* refuses.
AdvCtrl ==
  /\ parse = "idle" /\ ctrls < MaxCtrl
  /\ parse' = IF connHandle = 0 THEN "adv" ELSE "idle"
  /\ ctrls' = ctrls + 1
  /\ UNCHANGED <<phoneVars, stack, events, app, told, frameLen, ringVars,
                notifier, owed, settled, frames, busy>>

\* Its commands for timing and channels change nothing else.
AdvStart ==
  /\ parse = "adv"
  /\ StartAdvertising(events)
  /\ parse' = "idle"
  /\ UNCHANGED <<phoneVars, conn, conns, att, subscribed, app, told,
                frameLen, ringVars, notifier, owed, settled, bounds>>

-----------------------------------------------------------------------------
(* Ble_Notify_Task.                                                        *)

\* The disconnection is known and no frame is on its way into the ring.
Quiet == parse # "forward" /\ ~Contains(events, "closed")

\* Mutant: the ring is kept for the next connection.
NotifyKeep ==
  /\ notify = "pend" /\ connState = 0
  /\ settled' = (settled \/ Quiet)
  /\ UNCHANGED <<phoneVars, stack, events, app, told, parser, ring, pbIn,
                pbOut, notifier, owed, bounds, busy>>
\* Nobody is connected: what is left is dropped.
NotifyFlush ==
  /\ notify = "pend" /\ connState = 0
  /\ pbOut' = pbIn
  /\ owed' = <<>>
  /\ settled' = (settled \/ Quiet)
  /\ UNCHANGED <<phoneVars, stack, events, app, told, parser, ring, pbIn,
                notifier, bounds, busy>>

\* It takes what fits a notification; the mutex stays taken.
NotifyTake ==
  /\ notify = "pend" /\ connState = 1 /\ pbOut # pbIn
  /\ note' = FromRing(IF Used > mtu THEN mtu ELSE Used)
  /\ notify' = "send"
  /\ UNCHANGED <<phoneVars, stack, events, app, told, parser, ringVars, owed,
                settled, bounds, busy>>

\* What the stack asks of the command: a phone at that handle that has
\* enabled notifications and a length within its MTU.
Accepts == conn # 0 /\ connHandle = Handle /\ subscribed /\ Len(note) <= att

NotifySent ==
  /\ notify = "send" /\ Accepts
  /\ pbOut' = Plus(pbOut, Len(note))
  /\ owed' = IF IsPrefix(note, owed)
             THEN SubSeq(owed, Len(note) + 1, Len(owed)) ELSE owed
  /\ notify' = "pend" /\ note' = <<>>
  /\ UNCHANGED <<phoneVars, stack, events, app, told, parser, ring, pbIn,
                settled, bounds, busy>>

\* Mutant: a notification that failed is not repeated.
NotifySkip ==
  /\ notify = "send" /\ ~Accepts
  /\ pbOut' = Plus(pbOut, Len(note))
  /\ notify' = "pend" /\ note' = <<>>
  /\ UNCHANGED <<phoneVars, stack, events, app, told, parser, ring, pbIn,
                owed, settled, bounds, busy>>
\* The command failed: the next pass tries again.
NotifyFailed ==
  /\ notify = "send" /\ ~Accepts
  /\ notify' = "pend" /\ note' = <<>>
  /\ UNCHANGED <<phoneVars, stack, events, app, told, parser, ringVars, owed,
                settled, bounds, busy>>

Notify == NotifyFlush \/ NotifyTake \/ NotifySent \/ NotifyFailed

-----------------------------------------------------------------------------
(* App_Ble_Parse_Task.                                                     *)

FromPhone ==
  /\ GetUnit \/ HandOver
  /\ UNCHANGED <<stack, events, app, told, parser, ringVars, notifier, owed,
                 settled, bounds, busy>>

-----------------------------------------------------------------------------
Next ==
  \/ PhoneConnect \/ PhoneDisconnect \/ PhoneExchangesMtu \/ PhoneSubscribes
  \/ PhoneWritesPiece \/ Handler \/ ReportState \/ ReportDropped
  \/ ForwardFrame \/ WriteRing \/ AdvCtrl \/ AdvStart
  \/ Notify \/ FromPhone

Spec == Init /\ [][Next]_vars

\* The tasks are scheduled and get the mutex in their turn; a phone that stays
\* connected exchanges the MTU and enables notifications.
FairSpec ==
  /\ Spec
  /\ WF_vars(Handler) /\ WF_vars(ReportState)
  /\ SF_vars(WriteRing) /\ WF_vars(AdvStart) /\ WF_vars(Notify)
  /\ WF_vars(FromPhone)
  /\ WF_vars(PhoneExchangesMtu) /\ WF_vars(PhoneSubscribes)

-----------------------------------------------------------------------------
(* Properties.                                                             *)

Unit == {<<c, f, k>> : c \in 0 .. MaxConns, f \in 0 .. MaxFrames,
                       k \in 0 .. RingSize}

TypeOK ==
  /\ PhoneTypeOK
  /\ conn \in 0 .. conns /\ conns \in 0 .. MaxConns
  /\ att \in {DefaultMtu, LargeMtu} /\ mtu \in {DefaultMtu, LargeMtu}
  /\ subscribed \in BOOLEAN /\ advertising \in BOOLEAN
  /\ events \in Seq({"opened", "closed", "mtu", "write", "retry"})
  /\ connState \in {0, 1} /\ connHandle \in {0, Handle}
  /\ evTask \in {"pend", "opened", "closed"} /\ hostView \in {0, 1}
  /\ missed \in BOOLEAN /\ settled \in BOOLEAN
  /\ parse \in {"idle", "forward", "adv"} /\ frameLen \in FrameLen \cup {0}
  /\ ring \in [0 .. RingSize - 1 -> Unit]
  /\ pbIn \in 0 .. RingSize - 1 /\ pbOut \in 0 .. RingSize - 1
  /\ notify \in {"pend", "send"} /\ note \in Seq(Unit) /\ owed \in Seq(Unit)
  /\ frames \in 0 .. MaxFrames /\ ctrls \in 0 .. MaxCtrl
  /\ busy \in 0 .. MaxBusy

\* Where a connection event is still under way.
Changes == {i \in DOMAIN events : events[i] \in {"opened", "closed"}}

\* When the events under way are handled, ble_conn_state and ble_conn_handle
\* are those of the stack, whatever order connections and retries came in
\* (BluetoothEventHandler).
StateFollowsStack ==
  /\ Changes = {} => (conn # 0 <=> connState = 1)
  /\ \A i \in Changes :
       (\A j \in Changes : j <= i) => (conn # 0 <=> events[i] = "opened")
  /\ connHandle = Handle <=> connState = 1

\* Once Ble_Event_Task waits again the host knows the state of the
\* connection, unless the last change found no place: ble_event_msg holds
\* nothing and the pool may be empty (Ble_Event_Task, ble_state_notify).
HostInformed == evTask = "pend" /\ ~missed => hostView = connState

\* No byte is lost, repeated or reordered between App_Uart_Parse_Task and the
\* phone: the ring is what the phone is still owed (ptr_plus, ptr_minus,
\* Ble_Notify_Task).
RingLossless == owed = FromRing(Used)

\* What the host sent to the phone of one connection never reaches the phone
\* of a later one (Ble_Notify_Task flushes when ble_conn_state is 0).
NoStaleFrames ==
  [][NotifySent => \A k \in DOMAIN note : note[k][1] = conn]_vars

\* After a disconnection the bridge can be found again: BluetoothEventHandler
\* starts advertising "at boot, and after disconnection" (ble.c:168) and
\* retries when that fails.
AdvertisingResumes == conns > 0 /\ conn = 0 ~> advertising \/ conn # 0

\* What is in the ring does not stay there: again and again all of it has
\* reached the phone, or the connection has ended (Ble_Notify_Task tries again
\* until the stack accepts).
FramesLeave == []<>(owed = <<>>)

\* The frames the phone has written whole are listed for the host, also when
\* the connection has ended meanwhile, up to the first that was cut off
\* (ble_recv_array, App_Ble_Parse_Task).
PhoneFramesArrive == []<>(lastFrame = LastWhole)
=============================================================================
