------------------------------- MODULE BgApi -------------------------------
(***************************************************************************)
(* How the tasks of the bridge call the Bluetooth stack.                   *)
(*                                                                         *)
(* A gecko_cmd_* function (rtos_gecko.h) writes its command into the one   *)
(* gecko_cmd_msg_buf, copies its header and its handler to two variables   *)
(* of rtos_bluetooth.c and posts CMD_WAITING.  The Bluetooth task executes *)
(* what it finds there, leaves the response in the one gecko_rsp_msg_buf   *)
(* and posts RSP_WAITING, for which the caller pends.  The same flag group *)
(* hands the events of the stack to the application task one at a time.    *)
(*                                                                         *)
(* The flags are those of Micrium OS (os_flag.c): a post readies every     *)
(* task that waits for one of its flags, and a task that had to wait       *)
(* clears its flags only when it runs again.                               *)
(*                                                                         *)
(* rtos_bluetooth.h offers BluetoothPend and BluetoothPost, "mutex         *)
(* functions for using Bluetooth from multiple tasks".  The firmware calls *)
(* neither; the module describes the tasks with and without them.          *)
(***************************************************************************)
EXTENDS Naturals, FiniteSets

CONSTANTS
  Callers,    \* the tasks that issue stack commands in this instance
  LockUse,    \* whether they may hold BluetoothMutex while they do
  MaxEvents,  \* events the stack has for the application in an instance
  Nobody      \* no caller: a null handler, a free mutex

AllCallers == {"app", "main", "notify", "parse"}

ASSUME ConstantsAssumption ==
  /\ Callers \subseteq AllCallers
  /\ LockUse \subseteq BOOLEAN
  /\ MaxEvents \in Nat
  /\ Nobody \notin AllCallers

VARIABLES
  locked,     \* TRUE: every caller holds BluetoothMutex (chosen once)
  flags,      \* bluetooth_event_flags
  wants,      \* the flags each blocked task waits for
  flagsRdy,   \* FlagsRdy of the tasks a post made ready
  pc,         \* control point of each caller
  serial,     \* which of its commands a caller issues, modulo 2
  msg,        \* gecko_cmd_msg_buf: payload and header
  header,     \* command_header
  handler,    \* command_handler_func
  rsp,        \* gecko_rsp_msg_buf: what the stack executed last
  ran,        \* executions of the command a caller is issuing
  owner,      \* BluetoothMutex
  btPc,       \* control point of BluetoothTask
  btFlags,    \* its local flags
  appPc,      \* control point of BluetoothApplicationTask
  evt,        \* bluetooth_evt, the events counted modulo 2
  pending,    \* events the stack holds
  toCome      \* events still to come in this instance

flagVars == <<flags, wants, flagsRdy>>
slotVars == <<msg, header, handler>>
evtVars == <<evt, pending, toCome>>
vars == <<locked, flagVars, slotVars, evtVars, pc, serial, rsp, ran, owner,
          btPc, btFlags, appPc>>

Tasks == {"bt", "appLoop"} \cup Callers
Flag == {"STACK", "CMD", "RSP", "EVTW", "EVTH"}
\* Control points of a caller, in order; "idle" is outside every command.
CallerPc == {"idle", "lock", "payload", "msgHeader", "header", "handler",
             "post", "pend", "resume", "return"}

\* A command is named by who issues it and when.
Command == [by : AllCallers, n : {0, 1}]
NoCommand == [by |-> Nobody, n |-> 0]
Own(t) == [by |-> t, n |-> serial[t]]
Executed(p, h, f) == [payload |-> p, header |-> h, handler |-> f]

-----------------------------------------------------------------------------
(* The scheduler.                                                          *)

\* Mutant: the application task is more urgent than the Bluetooth task.
PrioAppFirst == [bt |-> 6, appLoop |-> 5, app |-> 5, main |-> 7, notify |-> 9,
                 parse |-> 11]
Prio == [bt |-> 4, appLoop |-> 5, app |-> 5, main |-> 6, notify |-> 9,
         parse |-> 11]

WaitsForMutex(t) == pc[t] = "lock"

\* The application task is outside the commands it issues itself.
NotInCommand == "app" \in Callers => pc["app"] = "idle"

\* A task of the event handshake or in a command that is not blocked.
Ready(t) ==
  /\ wants[t] = {}
  /\ CASE t = "bt"      -> TRUE
       [] t = "appLoop" -> NotInCommand
       [] OTHER         -> pc[t] # "idle" /\ ~WaitsForMutex(t)

\* The owner of the mutex inherits the priorities of the tasks it blocks.
Priorities(t) ==
  {Prio[t]} \cup
  {Prio[w] : w \in {v \in Callers : t = owner /\ WaitsForMutex(v)}}

Outranks(u, t) == \E p \in Priorities(u) : \A q \in Priorities(t) : p < q

CanRun(t) == \A u \in Tasks \ {t} : Ready(u) => ~Outranks(u, t)

-----------------------------------------------------------------------------
(* The flag group.                                                         *)

\* A post readies every waiting task that wants the flag and leaves the
\* flag set: the task clears it when it runs again.
Post(f) ==
  /\ flags' = flags \cup {f}
  /\ flagsRdy' = [t \in Tasks |-> IF f \in wants[t]
                                  THEN flags' \cap wants[t] ELSE flagsRdy[t]]
  /\ wants' = [t \in Tasks |-> IF f \in wants[t] THEN {} ELSE wants[t]]

\* The flags are there: the pend returns at once and clears them.
PendTakes(wanted) ==
  /\ flags \cap wanted # {}
  /\ flags' = flags \ wanted
  /\ UNCHANGED <<wants, flagsRdy>>

PendBlocks(t, wanted) ==
  /\ flags \cap wanted = {}
  /\ wants' = [wants EXCEPT ![t] = wanted]
  /\ UNCHANGED <<flags, flagsRdy>>

\* A task that had to wait runs again.
PendResumes(t) ==
  /\ flagsRdy[t] # {}
  /\ flags' = flags \ flagsRdy[t]
  /\ flagsRdy' = [flagsRdy EXCEPT ![t] = {}]
  /\ UNCHANGED wants

\* Mutants: BluetoothTask does not wait for a command, for a handled event.
BtWantedNoCommand == {"STACK", "EVTH"}
BtWantedNoHandled == {"STACK", "CMD"}
BtWanted == {"STACK", "EVTH", "CMD"}

-----------------------------------------------------------------------------
Init ==
  /\ locked \in LockUse
  /\ flags = {}
  /\ wants = [t \in Tasks |-> {}]
  /\ flagsRdy = [t \in Tasks |-> {}]
  /\ pc = [t \in Callers |-> "idle"]
  /\ serial = [t \in Callers |-> 0]
  /\ msg = [payload |-> NoCommand, header |-> NoCommand]
  /\ header = NoCommand
  /\ handler = NoCommand
  /\ rsp = Executed(NoCommand, NoCommand, NoCommand)
  /\ ran = [t \in Callers |-> 0]
  /\ owner = Nobody
  /\ btPc = "command"
  /\ btFlags = {"EVTH", "STACK"}
  /\ appPc = "pend"
  /\ evt = 0
  /\ pending = 0
  /\ toCome = MaxEvents

-----------------------------------------------------------------------------
(* A caller.                                                               *)

Goto(t, from, to) ==
  /\ CanRun(t)
  /\ pc[t] = from
  /\ pc' = [pc EXCEPT ![t] = to]

\* Mutant: the mutex is tested but not taken.
BeginNoOwner(t) ==
  /\ t = "app" => appPc = "handle"
  /\ \/ /\ locked => owner = Nobody
        /\ Goto(t, "idle", "payload")
        /\ UNCHANGED owner
     \/ /\ locked /\ owner # Nobody
        /\ Goto(t, "idle", "lock")
        /\ UNCHANGED owner
  /\ UNCHANGED <<locked, flagVars, slotVars, evtVars, serial, rsp, ran, btPc,
                 btFlags, appPc>>

\* The application task issues its commands, none or several per event, from
\* its handler; the other callers when their timer or semaphore wakes them.
Begin(t) ==
  /\ t = "app" => appPc = "handle"
  /\ \/ /\ locked => owner = Nobody
        /\ Goto(t, "idle", "payload")
        /\ owner' = IF locked THEN t ELSE owner
     \/ /\ locked /\ owner # Nobody
        /\ Goto(t, "idle", "lock")
        /\ UNCHANGED owner
  /\ UNCHANGED <<locked, flagVars, slotVars, evtVars, serial, rsp, ran, btPc,
                 btFlags, appPc>>

WritePayload(t) ==
  /\ Goto(t, "payload", "msgHeader")
  /\ msg' = [msg EXCEPT !.payload = Own(t)]
  /\ UNCHANGED <<locked, flagVars, header, handler, evtVars, serial, rsp, ran,
                 owner, btPc, btFlags, appPc>>

WriteMsgHeader(t) ==
  /\ Goto(t, "msgHeader", "header")
  /\ msg' = [msg EXCEPT !.header = Own(t)]
  /\ UNCHANGED <<locked, flagVars, header, handler, evtVars, serial, rsp, ran,
                 owner, btPc, btFlags, appPc>>

\* The argument is read back from gecko_cmd_msg_buf.
SetHeader(t) ==
  /\ Goto(t, "header", "handler")
  /\ header' = msg.header
  /\ UNCHANGED <<locked, flagVars, msg, handler, evtVars, serial, rsp, ran,
                 owner, btPc, btFlags, appPc>>

\* Mutant: the handler of an earlier command is left.
SetHandlerNot(t) ==
  /\ Goto(t, "handler", "post")
  /\ UNCHANGED handler
  /\ UNCHANGED <<locked, flagVars, msg, header, evtVars, serial, rsp, ran,
                 owner, btPc, btFlags, appPc>>

SetHandler(t) ==
  /\ Goto(t, "handler", "post")
  /\ handler' = Own(t)
  /\ UNCHANGED <<locked, flagVars, msg, header, evtVars, serial, rsp, ran,
                 owner, btPc, btFlags, appPc>>

PostCommand(t) ==
  /\ Goto(t, "post", "pend")
  /\ Post("CMD")
  /\ UNCHANGED <<locked, slotVars, evtVars, serial, rsp, ran, owner, btPc,
                 btFlags, appPc>>

PendResponse(t) ==
  /\ \/ Goto(t, "pend", "return") /\ PendTakes({"RSP"})
     \/ Goto(t, "pend", "resume") /\ PendBlocks(t, {"RSP"})
  /\ UNCHANGED <<locked, slotVars, evtVars, serial, rsp, ran, owner, btPc,
                 btFlags, appPc>>

ResumeResponse(t) ==
  /\ Goto(t, "resume", "return")
  /\ PendResumes(t)
  /\ UNCHANGED <<locked, slotVars, evtVars, serial, rsp, ran, owner, btPc,
                 btFlags, appPc>>

\* OSMutexPost hands the mutex to the most urgent task that waits for it.
Heirs == {w \in Callers :
            /\ WaitsForMutex(w)
            /\ \A v \in Callers : WaitsForMutex(v) => Prio[w] <= Prio[v]}

\* The caller reads gecko_rsp_msg_buf, releases the mutex and goes on.
ReturnResponse(t) ==
  /\ CanRun(t)
  /\ pc[t] = "return"
  /\ serial' = [serial EXCEPT ![t] = 1 - @]
  /\ ran' = [ran EXCEPT ![t] = 0]
  /\ \/ /\ Heirs = {}
        /\ pc' = [pc EXCEPT ![t] = "idle"]
        /\ owner' = Nobody
     \/ \E w \in Heirs :
          /\ pc' = [pc EXCEPT ![t] = "idle", ![w] = "payload"]
          /\ owner' = w
  /\ UNCHANGED <<locked, flagVars, slotVars, evtVars, rsp, btPc, btFlags,
                 appPc>>

CallerStep(t) ==
  \/ WritePayload(t) \/ WriteMsgHeader(t) \/ SetHeader(t)
  \/ SetHandler(t) \/ PostCommand(t) \/ PendResponse(t)
  \/ ResumeResponse(t) \/ ReturnResponse(t)

-----------------------------------------------------------------------------
(* BluetoothTask.                                                          *)

BtGoto(from, to) ==
  /\ CanRun("bt")
  /\ btPc = from
  /\ btPc' = to

\* It executes the command it finds and announces the response.
BtCommand ==
  /\ BtGoto("command", "update")
  /\ "CMD" \in btFlags
  /\ rsp' = Executed(msg.payload, header, handler)
  /\ ran' = [t \in Callers |->
               IF t = handler.by /\ ran[t] < 2 THEN ran[t] + 1 ELSE ran[t]]
  /\ handler' = NoCommand
  /\ btFlags' = btFlags \ {"CMD"}
  /\ Post("RSP")
  /\ UNCHANGED <<locked, msg, header, evtVars, pc, serial, owner, appPc>>

BtNoCommand ==
  /\ BtGoto("command", "update")
  /\ "CMD" \notin btFlags
  /\ UNCHANGED <<locked, flagVars, slotVars, evtVars, pc, serial, rsp, ran,
                 owner, btFlags, appPc>>

\* Mutant: an event is fetched before the previous one was handled.
MayUpdateAlways == "STACK" \in btFlags
MayUpdate == {"STACK", "EVTH"} \subseteq btFlags

\* Mutant: an event is announced that is not there.
BtEventAny ==
  /\ BtGoto("update", "sleep")
  /\ MayUpdate
  /\ pending' = pending - 1
  /\ evt' = 1 - evt
  /\ btFlags' = btFlags \ {"EVTH"}
  /\ Post("EVTW")
  /\ UNCHANGED <<locked, slotVars, toCome, pc, serial, rsp, ran, owner, appPc>>

\* gecko_wait_event returned an event: the application task is told.
BtEvent ==
  /\ BtGoto("update", "sleep")
  /\ MayUpdate
  /\ pending > 0
  /\ pending' = pending - 1
  /\ evt' = 1 - evt
  /\ btFlags' = btFlags \ {"EVTH"}
  /\ Post("EVTW")
  /\ UNCHANGED <<locked, slotVars, toCome, pc, serial, rsp, ran, owner, appPc>>

BtNoEvent ==
  /\ BtGoto("update", "sleep")
  /\ MayUpdate => pending = 0
  /\ btFlags' = IF MayUpdate THEN btFlags \ {"STACK"} ELSE btFlags
  /\ UNCHANGED <<locked, flagVars, slotVars, evtVars, pc, serial, rsp, ran,
                 owner, appPc>>

\* gecko_can_sleep_ticks is 0 while the stack holds events.
MustUpdate == pending > 0 /\ "EVTH" \in btFlags

BtAgain ==
  /\ BtGoto("sleep", "command")
  /\ MustUpdate
  /\ btFlags' = btFlags \cup {"STACK"}
  /\ UNCHANGED <<locked, flagVars, slotVars, evtVars, pc, serial, rsp, ran,
                 owner, appPc>>

BtPend ==
  /\ ~MustUpdate
  /\ \/ /\ BtGoto("sleep", "command")
        /\ PendTakes(BtWanted)
        /\ btFlags' = btFlags \cup (flags \cap BtWanted)
     \/ /\ BtGoto("sleep", "resume")
        /\ PendBlocks("bt", BtWanted)
        /\ UNCHANGED btFlags
  /\ UNCHANGED <<locked, slotVars, evtVars, pc, serial, rsp, ran, owner,
                 appPc>>

BtResume ==
  /\ BtGoto("resume", "command")
  /\ PendResumes("bt")
  /\ btFlags' = btFlags \cup flagsRdy["bt"]
  /\ UNCHANGED <<locked, slotVars, evtVars, pc, serial, rsp, ran, owner,
                 appPc>>

\* The timeout gecko_can_sleep_ticks asked for.
BtTimeout ==
  /\ btPc = "resume" /\ wants["bt"] # {}
  /\ btPc' = "command"
  /\ wants' = [wants EXCEPT !["bt"] = {}]
  /\ btFlags' = btFlags \cup {"STACK"}
  /\ UNCHANGED <<locked, flags, flagsRdy, slotVars, evtVars, pc, serial, rsp,
                 ran, owner, appPc>>

BtStep == \/ BtCommand \/ BtNoCommand \/ BtEvent \/ BtNoEvent
          \/ BtAgain \/ BtPend \/ BtResume

-----------------------------------------------------------------------------
(* BluetoothApplicationTask and the radio.                                 *)

AppGoto(from, to) ==
  /\ CanRun("appLoop")
  /\ NotInCommand
  /\ appPc = from
  /\ appPc' = to

AppPend ==
  /\ \/ AppGoto("pend", "handle") /\ PendTakes({"EVTW"})
     \/ AppGoto("pend", "resume") /\ PendBlocks("appLoop", {"EVTW"})
  /\ UNCHANGED <<locked, slotVars, evtVars, pc, serial, rsp, ran, owner, btPc,
                 btFlags>>

AppResume ==
  /\ AppGoto("resume", "handle")
  /\ PendResumes("appLoop")
  /\ UNCHANGED <<locked, slotVars, evtVars, pc, serial, rsp, ran, owner, btPc,
                 btFlags>>

\* BluetoothEventHandler returned.
AppHandled ==
  /\ AppGoto("handle", "pend")
  /\ Post("EVTH")
  /\ UNCHANGED <<locked, slotVars, evtVars, pc, serial, rsp, ran, owner, btPc,
                 btFlags>>

AppStep == AppPend \/ AppResume \/ AppHandled

\* BluetoothUpdate from an interrupt: the stack has an event.
BluetoothUpdate ==
  /\ toCome > 0
  /\ toCome' = toCome - 1
  /\ pending' = pending + 1
  /\ Post("STACK")
  /\ UNCHANGED <<locked, slotVars, evt, pc, serial, rsp, ran, owner, btPc,
                 btFlags, appPc>>

Next ==
  \/ BtStep \/ BtTimeout \/ AppStep \/ BluetoothUpdate
  \/ \E t \in Callers : Begin(t) \/ CallerStep(t)

Spec == Init /\ [][Next]_vars

\* A task that has the processor moves, and the tasks below the Bluetooth
\* task, which may wake at any time, get on whenever it lets them again and
\* again: the processor is not overloaded.  The handler of an event issues a
\* finite number of commands: the application task, between two of them again
\* and again, leaves it in the end.
FairSpec ==
  /\ Spec
  /\ WF_vars(BtStep) /\ SF_vars(AppStep)
  /\ \A t \in Callers : SF_vars(CallerStep(t))

-----------------------------------------------------------------------------
(* Properties.                                                             *)

TypeOK ==
  /\ locked \in LockUse
  /\ flags \subseteq Flag
  /\ wants \in [Tasks -> SUBSET Flag]
  /\ flagsRdy \in [Tasks -> SUBSET Flag]
  /\ pc \in [Callers -> CallerPc]
  /\ serial \in [Callers -> {0, 1}]
  /\ {msg.payload, msg.header, header, handler} \subseteq
       Command \cup {NoCommand}
  /\ {rsp.payload, rsp.header, rsp.handler} \subseteq Command \cup {NoCommand}
  /\ ran \in [Callers -> 0 .. 2]
  /\ owner \in Callers \cup {Nobody}
  /\ btPc \in {"command", "update", "sleep", "resume"}
  /\ btFlags \subseteq BtWanted
  /\ appPc \in {"pend", "resume", "handle"}
  /\ evt \in {0, 1}
  /\ pending \in 0 .. MaxEvents /\ toCome \in 0 .. MaxEvents

ResponseOf(t) ==
  pc[t] = "return" => /\ rsp = Executed(Own(t), Own(t), Own(t))
                      /\ ran[t] = 1

\* The pend of sli_bt_cmd_handler_rtos_delegate waits for the response to the
\* command the task posted: what it reads afterwards was executed from its
\* own payload, header and handler, and exactly once.
OwnResponse == \A t \in Callers : ResponseOf(t)

\* With BluetoothMutex around it a command is never mixed with another one
\* and its response is never taken by another caller.
LockedResponse == locked => OwnResponse

\* Even without the mutex the application task, the most urgent caller, gets
\* its own responses: rtos_bluetooth.c runs it right below the Bluetooth task.
AppResponse == "app" \in Callers => ResponseOf("app")

\* How far the command of t is, as BgCommands sees it: a command executed
\* twice, or another response than its own, is nothing BgCommands knows.
CallOf(t) ==
  CASE pc[t] = "idle"                -> "none"
    [] pc[t] # "idle" /\ ran[t] = 0  -> "issued"
    [] pc[t] \notin {"idle", "return"} /\ ran[t] = 1 -> "executed"
    [] /\ pc[t] = "return" /\ ran[t] = 1
       /\ rsp = Executed(Own(t), Own(t), Own(t))     -> "answered"
    [] OTHER -> "confused"

\* With the mutex the callers are served as by a stack that executes each
\* command once between its call and its return and answers it with its own
\* response (the refinement of the gecko_cmd_* functions to BgCommands).
Commands == INSTANCE BgCommands WITH
  Callers <- Callers,
  serial <- serial,
  call <- [t \in Callers |-> CallOf(t)]
ServesCommands ==
  /\ Commands!Init
  /\ [][locked => Commands!Next]_(Commands!commandVars)

\* bluetooth_evt is not replaced while the application task is handling it
\* or has yet to pick it up (EVT_WAITING and EVT_HANDLED).
EventStays ==
  [][evt' # evt => /\ appPc \in {"pend", "resume"}
                   /\ "EVTW" \notin flags
                   /\ flagsRdy["appLoop"] = {}]_vars

\* Every command returns to its caller, if the callers hold the mutex or the
\* caller is the application task: RSP_WAITING is never left unposted.
CommandsReturn ==
  \A t \in Callers :
    pc[t] # "idle" /\ (locked \/ t = "app") ~> pc[t] = "idle"

\* Every event of the stack reaches the application task, which picks it up,
\* handles it and waits for the next, with the mutex or without: in the end
\* none is left in the stack, announced or being handled (bluetooth_evt).
EventsHandled ==
  pending > 0 ~> /\ pending = 0
                 /\ "EVTW" \notin flags /\ flagsRdy["appLoop"] = {}
                 /\ appPc \in {"pend", "resume"}
=============================================================================
