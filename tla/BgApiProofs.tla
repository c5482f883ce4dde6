---------------------------- MODULE BgApiProofs ----------------------------
(***************************************************************************)
(* What BgApi promises for every set of callers and any number of events:  *)
(* with BluetoothMutex the callers are served as by BgCommands, and with   *)
(* or without it no event of the stack is replaced while it is in use and  *)
(* the application task, the most urgent caller, gets its own responses.   *)
(***************************************************************************)
EXTENDS BgApi, TLAPS

SlotCommand == Command \cup {NoCommand}

\* TypeOK, with the records as such and the bound on the events of the stack.
Typed ==
  /\ locked \in BOOLEAN
  /\ flags \subseteq Flag
  /\ wants \in [Tasks -> SUBSET Flag]
  /\ flagsRdy \in [Tasks -> SUBSET Flag]
  /\ pc \in [Callers -> CallerPc]
  /\ serial \in [Callers -> {0, 1}]
  /\ msg \in [payload : SlotCommand, header : SlotCommand]
  /\ header \in SlotCommand
  /\ handler \in SlotCommand
  /\ rsp \in [payload : SlotCommand, header : SlotCommand,
              handler : SlotCommand]
  /\ ran \in [Callers -> 0 .. 2]
  /\ owner \in Callers \cup {Nobody}
  /\ btPc \in {"command", "update", "sleep", "resume"}
  /\ btFlags \subseteq BtWanted
  /\ appPc \in {"pend", "resume", "handle"}
  /\ evt \in {0, 1}
  /\ pending \in Nat /\ toCome \in Nat /\ pending + toCome <= MaxEvents

\* Which task waits for, and is made ready by, which flags.
Waits ==
  /\ \A t \in Tasks : flagsRdy[t] = {} \/ wants[t] = {}
  /\ wants["bt"] \subseteq BtWanted
  /\ flagsRdy["bt"] \subseteq BtWanted \cap flags
  /\ wants["bt"] # {} => btPc = "resume"
  /\ flagsRdy["bt"] # {} => btPc = "resume"
  /\ wants["appLoop"] \subseteq {"EVTW"}
  /\ flagsRdy["appLoop"] \subseteq {"EVTW"} \cap flags
  /\ wants["appLoop"] # {} => appPc = "resume"
  /\ flagsRdy["appLoop"] # {} => appPc = "resume"
  /\ \A t \in Callers :
       /\ wants[t] \subseteq {"RSP"} /\ flagsRdy[t] \subseteq {"RSP"}
       /\ wants[t] # {} => pc[t] = "resume"
       /\ flagsRdy[t] # {} => pc[t] = "resume"

-----------------------------------------------------------------------------
(* The events: their token is at one place.                                *)

Handshake ==
  /\ "EVTH" \in btFlags =>
       /\ "EVTH" \notin flags /\ "EVTW" \notin flags
       /\ appPc \in {"pend", "resume"}
  /\ "EVTH" \in flags =>
       /\ "EVTW" \notin flags
       /\ appPc \in {"pend", "resume"}
  /\ "EVTW" \in flags => appPc \in {"pend", "resume"}

-----------------------------------------------------------------------------
(* The commands, with the mutex.                                           *)

Waiting(t) == pc[t] \in {"pend", "resume"}
Outside(t) == pc[t] \in {"idle", "lock"}

\* The mutex is held by the one caller that is inside a command.
MutexHeld == \A t \in Callers : owner = t <=> ~Outside(t)

\* What the slot holds, by how far that caller is.
SlotOwned ==
  \A t \in Callers :
    /\ pc[t] \notin {"idle", "lock", "payload"} => msg.payload = Own(t)
    /\ pc[t] \notin {"idle", "lock", "payload", "msgHeader"} =>
         msg.header = Own(t)
    /\ pc[t] \in {"handler", "post", "pend", "resume", "return"} =>
         header = Own(t)
    /\ pc[t] = "post" => handler = Own(t)

Answered(t) == ran[t] = 1 /\ rsp = Executed(Own(t), Own(t), Own(t))

\* How often a command has been executed.
RanOnce ==
  \A t \in Callers :
    /\ ~Waiting(t) /\ pc[t] # "return" => ran[t] = 0
    /\ Waiting(t) => (ran[t] = 0 /\ handler = Own(t)) \/ Answered(t)
    /\ pc[t] = "return" => Answered(t)

\* CMD_WAITING and RSP_WAITING are there for the command that is under way.
Tokens ==
  /\ "CMD" \in flags \cup btFlags =>
       \E t \in Callers : Waiting(t) /\ ran[t] = 0
  /\ ~("CMD" \in flags /\ "CMD" \in btFlags)
  /\ "RSP" \in flags => \E t \in Callers : Waiting(t) /\ Answered(t)
  /\ \A t \in Callers : flagsRdy[t] # {} => "RSP" \in flags

LockInv == locked => MutexHeld /\ SlotOwned /\ RanOnce /\ Tokens

-----------------------------------------------------------------------------
(* The parts of a step.                                                    *)

\* The tasks are distinct, and each has flags of its own.
LEMMA TaskFacts ==
  /\ Callers \subseteq Tasks /\ "bt" \in Tasks /\ "appLoop" \in Tasks
  /\ "bt" \notin Callers /\ "appLoop" \notin Callers /\ Nobody \notin Callers
BY ConstantsAssumption DEF Tasks, AllCallers

LEMMA PostTyped ==
  ASSUME NEW f \in Flag, Post(f), flags \subseteq Flag,
         wants \in [Tasks -> SUBSET Flag], flagsRdy \in [Tasks -> SUBSET Flag]
  PROVE  /\ flags' \subseteq Flag
         /\ wants' \in [Tasks -> SUBSET Flag]
         /\ flagsRdy' \in [Tasks -> SUBSET Flag]
BY DEF Post

LEMMA PendTyped ==
  ASSUME NEW t \in Tasks, NEW w \in SUBSET Flag,
         PendTakes(w) \/ PendBlocks(t, w) \/ PendResumes(t),
         flags \subseteq Flag,
         wants \in [Tasks -> SUBSET Flag], flagsRdy \in [Tasks -> SUBSET Flag]
  PROVE  /\ flags' \subseteq Flag
         /\ wants' \in [Tasks -> SUBSET Flag]
         /\ flagsRdy' \in [Tasks -> SUBSET Flag]
BY DEF PendTakes, PendBlocks, PendResumes

LEMMA OwnTyped ==
  ASSUME NEW t \in Callers, serial \in [Callers -> {0, 1}]
  PROVE  Own(t) \in SlotCommand /\ Own(t).by = t
BY ConstantsAssumption DEF Own, SlotCommand, Command

-----------------------------------------------------------------------------
(* Types.                                                                  *)

LEMMA TypedInit == Init => Typed
<1> SUFFICES ASSUME Init PROVE Typed
  OBVIOUS
<1>1. NoCommand \in SlotCommand
  BY DEF SlotCommand
<1>2. rsp \in [payload : SlotCommand, header : SlotCommand,
               handler : SlotCommand]
  BY <1>1 DEF Init, Executed
<1>3. locked \in BOOLEAN /\ btFlags \subseteq BtWanted
  BY ConstantsAssumption DEF Init, BtWanted
<1>4. pending \in Nat /\ toCome \in Nat /\ pending + toCome <= MaxEvents
  BY ConstantsAssumption DEF Init
<1> QED
  BY <1>1, <1>2, <1>3, <1>4 DEF Init, Typed, Flag, CallerPc, Tasks

LEMMA TypedNext == Typed /\ Waits /\ [Next]_vars => Typed'
<1> SUFFICES ASSUME Typed, Waits, [Next]_vars PROVE Typed'
  OBVIOUS
<1> USE TaskFacts DEF Typed
<1>1. CASE UNCHANGED vars
  BY <1>1 DEF vars, flagVars, slotVars, evtVars
<1>2. ASSUME NEW t \in Callers, Begin(t) PROVE Typed'
  BY <1>2 DEF Begin, Goto, CallerPc, flagVars, slotVars, evtVars
<1>3. ASSUME NEW t \in Callers,
             WritePayload(t) \/ WriteMsgHeader(t) \/ SetHeader(t)
               \/ SetHandler(t)
      PROVE  Typed'
  <2>1. Own(t) \in SlotCommand
    BY OwnTyped
  <2> QED
    BY <1>3, <2>1 DEF WritePayload, WriteMsgHeader, SetHeader, SetHandler,
                      Goto, CallerPc, flagVars, slotVars, evtVars
<1>4. ASSUME NEW t \in Callers, PostCommand(t) PROVE Typed'
  <2>1. "CMD" \in Flag
    BY DEF Flag
  <2> QED
    BY <1>4, <2>1, PostTyped
    DEF PostCommand, Goto, CallerPc, slotVars, evtVars
<1>5. ASSUME NEW t \in Callers, PendResponse(t) \/ ResumeResponse(t)
      PROVE  Typed'
  <2>1. {"RSP"} \in SUBSET Flag
    BY DEF Flag
  <2>2. PendTakes({"RSP"}) \/ PendBlocks(t, {"RSP"}) \/ PendResumes(t)
    BY <1>5 DEF PendResponse, ResumeResponse
  <2>3. /\ flags' \subseteq Flag
        /\ wants' \in [Tasks -> SUBSET Flag]
        /\ flagsRdy' \in [Tasks -> SUBSET Flag]
    BY <2>1, <2>2, PendTyped
  <2> QED
    BY <1>5, <2>3
    DEF PendResponse, ResumeResponse, Goto, CallerPc, slotVars, evtVars
<1>6. ASSUME NEW t \in Callers, ReturnResponse(t) PROVE Typed'
  BY <1>6 DEF ReturnResponse, Heirs, CallerPc, flagVars, slotVars, evtVars
<1>7. CASE BtCommand
  <2>1. "RSP" \in Flag /\ NoCommand \in SlotCommand
    BY DEF Flag, SlotCommand
  <2>2. /\ flags' \subseteq Flag
        /\ wants' \in [Tasks -> SUBSET Flag]
        /\ flagsRdy' \in [Tasks -> SUBSET Flag]
    BY <1>7, <2>1, PostTyped DEF BtCommand
  <2>3. rsp' \in [payload : SlotCommand, header : SlotCommand,
                  handler : SlotCommand]
    BY <1>7 DEF BtCommand, Executed
  <2>4. ran' \in [Callers -> 0 .. 2]
    BY <1>7 DEF BtCommand
  <2> QED
    BY <1>7, <2>1, <2>2, <2>3, <2>4 DEF BtCommand, BtGoto, evtVars
<1>8. CASE BtNoCommand \/ BtNoEvent \/ BtAgain \/ BtTimeout
  BY <1>8 DEF BtNoCommand, BtNoEvent, BtAgain, BtTimeout, BtGoto, BtWanted,
              flagVars, slotVars, evtVars
<1>9. CASE BtEvent
  <2>1. "EVTW" \in Flag
    BY DEF Flag
  <2>2. /\ flags' \subseteq Flag
        /\ wants' \in [Tasks -> SUBSET Flag]
        /\ flagsRdy' \in [Tasks -> SUBSET Flag]
    BY <1>9, <2>1, PostTyped DEF BtEvent
  <2>3. pending' \in Nat /\ toCome' \in Nat /\ pending' + toCome' <= MaxEvents
    BY <1>9, ConstantsAssumption DEF BtEvent
  <2> QED
    BY <1>9, <2>2, <2>3 DEF BtEvent, BtGoto, slotVars
<1>10. CASE BtPend \/ BtResume
  <2>1. BtWanted \in SUBSET Flag
    BY DEF Flag, BtWanted
  <2>2. PendTakes(BtWanted) \/ PendBlocks("bt", BtWanted) \/ PendResumes("bt")
    BY <1>10 DEF BtPend, BtResume
  <2>3. /\ flags' \subseteq Flag
        /\ wants' \in [Tasks -> SUBSET Flag]
        /\ flagsRdy' \in [Tasks -> SUBSET Flag]
    BY <2>1, <2>2, PendTyped
  <2>4. btFlags' \subseteq BtWanted
    BY <1>10 DEF BtPend, BtResume, Waits
  <2> QED
    BY <1>10, <2>3, <2>4 DEF BtPend, BtResume, BtGoto, slotVars, evtVars
<1>11. CASE AppPend \/ AppResume
  <2>1. {"EVTW"} \in SUBSET Flag
    BY DEF Flag
  <2>2. \/ PendTakes({"EVTW"}) \/ PendBlocks("appLoop", {"EVTW"})
        \/ PendResumes("appLoop")
    BY <1>11 DEF AppPend, AppResume
  <2>3. /\ flags' \subseteq Flag
        /\ wants' \in [Tasks -> SUBSET Flag]
        /\ flagsRdy' \in [Tasks -> SUBSET Flag]
    BY <2>1, <2>2, PendTyped
  <2> QED
    BY <1>11, <2>3 DEF AppPend, AppResume, AppGoto, slotVars, evtVars
<1>12. CASE AppHandled
  <2>1. "EVTH" \in Flag
    BY DEF Flag
  <2> QED
    BY <1>12, <2>1, PostTyped DEF AppHandled, AppGoto, slotVars, evtVars
<1>13. CASE BluetoothUpdate
  <2>1. "STACK" \in Flag
    BY DEF Flag
  <2>2. pending' \in Nat /\ toCome' \in Nat /\ pending' + toCome' <= MaxEvents
    BY <1>13, ConstantsAssumption DEF BluetoothUpdate
  <2> QED
    BY <1>13, <2>1, <2>2, PostTyped DEF BluetoothUpdate, slotVars
<1> QED
  BY <1>1, <1>2, <1>3, <1>4, <1>5, <1>6, <1>7, <1>8, <1>9, <1>10, <1>11,
     <1>12, <1>13 DEF Next, CallerStep, BtStep, AppStep

-----------------------------------------------------------------------------
(* Which task waits for which flags.                                       *)

\* A post of f changes the flags of the tasks that want it.
LEMMA PostStep ==
  ASSUME Typed, NEW f, Post(f), NEW t \in Tasks
  PROVE  /\ flags' = flags \cup {f}
         /\ IF f \in wants[t]
            THEN wants'[t] = {} /\ flagsRdy'[t] = (flags \cup {f}) \cap wants[t]
            ELSE wants'[t] = wants[t] /\ flagsRdy'[t] = flagsRdy[t]
BY DEF Typed, Post

\* A pend of task t changes the flags of that task only.
LEMMA PendStep ==
  ASSUME Typed, NEW t \in Tasks, NEW w \in SUBSET Flag,
         PendTakes(w) \/ PendBlocks(t, w) \/ PendResumes(t)
  PROVE  /\ \A u \in Tasks \ {t} : /\ wants'[u] = wants[u]
                                   /\ flagsRdy'[u] = flagsRdy[u]
         /\ wants'[t] = wants[t] \/ (PendBlocks(t, w) /\ wants'[t] = w)
         /\ \/ flagsRdy'[t] = flagsRdy[t]
            \/ PendResumes(t) /\ flagsRdy'[t] = {}
         /\ flags' \in {flags, flags \ w, flags \ flagsRdy[t]}
<1>1. CASE PendTakes(w)
  BY <1>1 DEF PendTakes
<1>2. CASE PendBlocks(t, w)
  BY <1>2 DEF Typed, PendBlocks
<1>3. CASE PendResumes(t)
  BY <1>3 DEF Typed, PendResumes
<1> QED
  BY <1>1, <1>2, <1>3

LEMMA WaitsInit == Init => Waits
<1> SUFFICES ASSUME Init PROVE Waits
  OBVIOUS
<1>1. \A t \in Tasks : wants[t] = {} /\ flagsRdy[t] = {}
  BY DEF Init
<1> QED
  BY <1>1, TaskFacts DEF Waits

\* What Waits asks of one task: only the flags it wants, while it waits.
WaitsFor(t, wanted, waiting) ==
  /\ wants[t] \subseteq wanted /\ flagsRdy[t] \subseteq wanted
  /\ wants[t] # {} => waiting
  /\ flagsRdy[t] # {} => waiting

\* A post leaves that so, and what is ready is still set.
LEMMA PostWaits ==
  ASSUME Typed, NEW f, Post(f), NEW t \in Tasks, NEW wanted, NEW waiting,
         WaitsFor(t, wanted, waiting)
  PROVE  /\ wants'[t] \subseteq wanted /\ flagsRdy'[t] \subseteq wanted
         /\ wants'[t] # {} => waiting
         /\ flagsRdy'[t] # {} => waiting
         /\ flagsRdy[t] \subseteq flags => flagsRdy'[t] \subseteq flags'
<1>1. /\ flags' = flags \cup {f}
      /\ IF f \in wants[t]
         THEN wants'[t] = {} /\ flagsRdy'[t] = (flags \cup {f}) \cap wants[t]
         ELSE wants'[t] = wants[t] /\ flagsRdy'[t] = flagsRdy[t]
  BY PostStep
<1>2. CASE f \in wants[t]
  BY <1>1, <1>2 DEF WaitsFor
<1>3. CASE f \notin wants[t]
  BY <1>1, <1>3 DEF WaitsFor
<1> QED
  BY <1>2, <1>3

LEMMA WaitsNext == Typed /\ Waits /\ [Next]_vars => Waits'
<1> SUFFICES ASSUME Typed, Waits, [Next]_vars PROVE Waits'
  OBVIOUS
<1> USE TaskFacts
<1> DEFINE Stays ==
             /\ btPc' = btPc \/ btPc # "resume"
             /\ appPc' = appPc \/ appPc # "resume"
             /\ \A u \in Callers : pc[u] = "resume" => pc'[u] = "resume"
<1>1. ASSUME UNCHANGED flagVars, Stays PROVE Waits'
  BY <1>1 DEF Waits, flagVars
<1>2. ASSUME NEW f \in Flag, Post(f), Stays PROVE Waits'
  <2>1. /\ wants'["bt"] \subseteq BtWanted
        /\ flagsRdy'["bt"] \subseteq BtWanted
        /\ wants'["bt"] # {} => btPc = "resume"
        /\ flagsRdy'["bt"] # {} => btPc = "resume"
        /\ flagsRdy'["bt"] \subseteq flags'
    <3>1. WaitsFor("bt", BtWanted, btPc = "resume")
      BY DEF Waits, WaitsFor
    <3>2. flagsRdy["bt"] \subseteq flags
      BY DEF Waits
    <3> QED
      BY <1>2, <3>1, <3>2, PostWaits
  <2>2. /\ wants'["appLoop"] \subseteq {"EVTW"}
        /\ flagsRdy'["appLoop"] \subseteq {"EVTW"}
        /\ wants'["appLoop"] # {} => appPc = "resume"
        /\ flagsRdy'["appLoop"] # {} => appPc = "resume"
        /\ flagsRdy'["appLoop"] \subseteq flags'
    <3>1. WaitsFor("appLoop", {"EVTW"}, appPc = "resume")
      BY DEF Waits, WaitsFor
    <3>2. flagsRdy["appLoop"] \subseteq flags
      BY DEF Waits
    <3> QED
      BY <1>2, <3>1, <3>2, PostWaits
  <2>3. ASSUME NEW t \in Callers
        PROVE  /\ wants'[t] \subseteq {"RSP"}
               /\ flagsRdy'[t] \subseteq {"RSP"}
               /\ wants'[t] # {} => pc[t] = "resume"
               /\ flagsRdy'[t] # {} => pc[t] = "resume"
    <3>1. WaitsFor(t, {"RSP"}, pc[t] = "resume")
      BY DEF Waits, WaitsFor
    <3> QED
      BY <1>2, <3>1, PostWaits
  <2>4. \A t \in Tasks : flagsRdy'[t] = {} \/ wants'[t] = {}
    BY <1>2, PostStep DEF Waits
  <2> QED
    BY <1>2, <2>1, <2>2, <2>3, <2>4 DEF Waits
<1>3. ASSUME NEW t \in Callers, PendResponse(t) \/ ResumeResponse(t)
      PROVE  Waits'
  <2>1. {"RSP"} \in SUBSET Flag
    BY DEF Flag
  <2>2. \/ PendTakes({"RSP"}) /\ pc[t] = "pend"
        \/ PendBlocks(t, {"RSP"}) /\ pc[t] = "pend" /\ pc'[t] = "resume"
        \/ PendResumes(t) /\ pc[t] = "resume"
    BY <1>3 DEF PendResponse, ResumeResponse, Goto, Typed
  <2>3. /\ \A u \in Callers \ {t} : pc'[u] = pc[u]
        /\ btPc' = btPc /\ appPc' = appPc
    BY <1>3 DEF PendResponse, ResumeResponse, Goto, Typed
  <2>4. \A u \in Tasks \ {t} :
          wants'[u] = wants[u] /\ flagsRdy'[u] = flagsRdy[u]
    BY <2>1, <2>2, PendStep
  <2>5. flags \ flags' \subseteq {"RSP"}
    BY <2>2 DEF PendTakes, PendBlocks, PendResumes, Waits
  <2>6. /\ wants'[t] \subseteq {"RSP"} /\ flagsRdy'[t] = {}
        /\ wants'[t] # {} => pc'[t] = "resume"
    BY <2>2 DEF PendTakes, PendBlocks, PendResumes, Waits, Typed
  <2>7. "RSP" \notin BtWanted
    BY DEF BtWanted
  <2> QED
    BY <2>3, <2>4, <2>5, <2>6, <2>7 DEF Waits
<1>4. CASE BtPend \/ BtResume
  <2>1. BtWanted \in SUBSET Flag
    BY DEF Flag, BtWanted
  <2>2. \/ PendTakes(BtWanted) /\ btPc = "sleep"
        \/ PendBlocks("bt", BtWanted) /\ btPc = "sleep" /\ btPc' = "resume"
        \/ PendResumes("bt") /\ btPc = "resume"
    BY <1>4 DEF BtPend, BtResume, BtGoto
  <2>3. pc' = pc /\ appPc' = appPc
    BY <1>4 DEF BtPend, BtResume
  <2>4. \A u \in Tasks \ {"bt"} :
          wants'[u] = wants[u] /\ flagsRdy'[u] = flagsRdy[u]
    BY <2>1, <2>2, PendStep
  <2>5. flags \ flags' \subseteq BtWanted
    BY <2>2 DEF PendTakes, PendBlocks, PendResumes, Waits
  <2>6. /\ wants'["bt"] \subseteq BtWanted /\ flagsRdy'["bt"] = {}
        /\ wants'["bt"] # {} => btPc' = "resume"
    BY <2>2 DEF PendTakes, PendBlocks, PendResumes, Waits, Typed
  <2>7. "EVTW" \notin BtWanted
    BY DEF BtWanted
  <2> QED
    BY <2>3, <2>4, <2>5, <2>6, <2>7 DEF Waits
<1>5. CASE BtTimeout
  <2>1. \A u \in Tasks \ {"bt"} : wants'[u] = wants[u]
    BY <1>5 DEF BtTimeout, Typed
  <2>2. /\ wants'["bt"] = {} /\ flagsRdy["bt"] = {}
        /\ UNCHANGED <<flags, flagsRdy, pc, appPc>>
    BY <1>5 DEF BtTimeout, Typed, Waits
  <2> QED
    BY <2>1, <2>2 DEF Waits
<1>6. CASE AppPend \/ AppResume
  <2>1. {"EVTW"} \in SUBSET Flag
    BY DEF Flag
  <2>2. \/ PendTakes({"EVTW"}) /\ appPc = "pend"
        \/ PendBlocks("appLoop", {"EVTW"}) /\ appPc = "pend"
             /\ appPc' = "resume"
        \/ PendResumes("appLoop") /\ appPc = "resume"
    BY <1>6 DEF AppPend, AppResume, AppGoto
  <2>3. pc' = pc /\ btPc' = btPc
    BY <1>6 DEF AppPend, AppResume
  <2>4. \A u \in Tasks \ {"appLoop"} :
          wants'[u] = wants[u] /\ flagsRdy'[u] = flagsRdy[u]
    BY <2>1, <2>2, PendStep
  <2>5. flags \ flags' \subseteq {"EVTW"}
    BY <2>2 DEF PendTakes, PendBlocks, PendResumes, Waits
  <2>6. /\ wants'["appLoop"] \subseteq {"EVTW"} /\ flagsRdy'["appLoop"] = {}
        /\ wants'["appLoop"] # {} => appPc' = "resume"
    BY <2>2 DEF PendTakes, PendBlocks, PendResumes, Waits, Typed
  <2>7. "EVTW" \notin BtWanted
    BY DEF BtWanted
  <2> QED
    BY <2>3, <2>4, <2>5, <2>6, <2>7 DEF Waits
<1>7. CASE UNCHANGED vars
  BY <1>7, <1>1 DEF vars
<1>8. ASSUME NEW t \in Callers, Begin(t) \/ CallerStep(t) PROVE Waits'
  <2>1. CASE Begin(t)
    <3>1. Stays /\ UNCHANGED flagVars
      BY <1>8, <2>1 DEF Begin, Goto, Typed
    <3> QED
      BY <3>1, <1>1
  <2>2. CASE WritePayload(t) \/ WriteMsgHeader(t) \/ SetHeader(t)
             \/ SetHandler(t)
    <3>1. Stays /\ UNCHANGED flagVars
      BY <1>8, <2>2 DEF WritePayload, WriteMsgHeader, SetHeader, SetHandler,
                        Goto, Typed
    <3> QED
      BY <3>1, <1>1
  <2>3. CASE ReturnResponse(t)
    <3>1. Stays /\ UNCHANGED flagVars
      BY <1>8, <2>3 DEF ReturnResponse, Heirs, WaitsForMutex, Typed
    <3> QED
      BY <3>1, <1>1
  <2>4. CASE PostCommand(t)
    <3>1. Stays /\ Post("CMD") /\ "CMD" \in Flag
      BY <1>8, <2>4 DEF PostCommand, Goto, Typed, Flag
    <3> QED
      BY <3>1, <1>2
  <2> QED
    BY <1>8, <1>3, <2>1, <2>2, <2>3, <2>4 DEF CallerStep
<1>9. CASE BtNoCommand \/ BtNoEvent \/ BtAgain
  <2>1. Stays /\ UNCHANGED flagVars
    BY <1>9 DEF BtNoCommand, BtNoEvent, BtAgain, BtGoto
  <2> QED
    BY <2>1, <1>1
<1>10. CASE BtCommand
  <2>1. Stays /\ Post("RSP") /\ "RSP" \in Flag
    BY <1>10 DEF BtCommand, BtGoto, Flag
  <2> QED
    BY <2>1, <1>2
<1>11. CASE BtEvent
  <2>1. Stays /\ Post("EVTW") /\ "EVTW" \in Flag
    BY <1>11 DEF BtEvent, BtGoto, Flag
  <2> QED
    BY <2>1, <1>2
<1>12. CASE AppHandled
  <2>1. Stays /\ Post("EVTH") /\ "EVTH" \in Flag
    BY <1>12 DEF AppHandled, AppGoto, Flag
  <2> QED
    BY <2>1, <1>2
<1>13. CASE BluetoothUpdate
  <2>1. Stays /\ Post("STACK") /\ "STACK" \in Flag
    BY <1>13 DEF BluetoothUpdate, Flag
  <2> QED
    BY <2>1, <1>2
<1> QED
  BY <1>4, <1>5, <1>6, <1>7, <1>8, <1>9, <1>10, <1>11, <1>12, <1>13
  DEF Next, BtStep, AppStep

-----------------------------------------------------------------------------
(* The handshake of the events.                                            *)

LEMMA HandshakeInit == Init => Handshake
BY DEF Init, Handshake

\* Steps that leave the tokens of the handshake alone.
LEMMA HandshakeQuiet ==
  ASSUME Handshake,
         "EVTH" \in btFlags' => "EVTH" \in btFlags,
         "EVTH" \in flags' => "EVTH" \in flags,
         "EVTW" \in flags' => "EVTW" \in flags,
         appPc \in {"pend", "resume"} => appPc' \in {"pend", "resume"}
  PROVE  Handshake'
BY DEF Handshake

LEMMA HandshakeNext == Typed /\ Waits /\ Handshake /\ [Next]_vars => Handshake'
<1> SUFFICES ASSUME Typed, Waits, Handshake, [Next]_vars PROVE Handshake'
  OBVIOUS
<1>1. CASE UNCHANGED vars
  BY <1>1, HandshakeQuiet DEF vars, flagVars
<1>2. ASSUME NEW t \in Callers, Begin(t) \/ CallerStep(t) PROVE Handshake'
  <2>1. btFlags' = btFlags
    BY <1>2 DEF Begin, CallerStep, WritePayload, WriteMsgHeader, SetHeader,
                SetHandler, PostCommand, PendResponse, ResumeResponse,
                ReturnResponse
  <2>2. appPc' = appPc
    BY <1>2 DEF Begin, CallerStep, WritePayload, WriteMsgHeader, SetHeader,
                SetHandler, PostCommand, PendResponse, ResumeResponse,
                ReturnResponse
  <2>3. flags' \subseteq flags \cup {"CMD"}
    BY <1>2 DEF Begin, CallerStep, WritePayload, WriteMsgHeader, SetHeader,
                SetHandler, PostCommand, PendResponse, ResumeResponse,
                ReturnResponse, flagVars, Post, PendTakes, PendBlocks,
                PendResumes
  <2> QED
    BY <2>1, <2>2, <2>3, HandshakeQuiet
<1>3. CASE BtCommand \/ BtNoCommand \/ BtNoEvent \/ BtAgain \/ BtTimeout
           \/ BluetoothUpdate
  <2>1. appPc' = appPc /\ btFlags' \subseteq btFlags \cup {"STACK"}
    BY <1>3 DEF BtCommand, BtNoCommand, BtNoEvent, BtAgain, BtTimeout,
                BluetoothUpdate
  <2>2. flags' \subseteq flags \cup {"RSP", "STACK"}
    BY <1>3 DEF BtCommand, BtNoCommand, BtNoEvent, BtAgain, BtTimeout,
                BluetoothUpdate, flagVars, Post
  <2> QED
    BY <2>1, <2>2, HandshakeQuiet
<1>4. CASE BtEvent
  <2>1. "EVTH" \in btFlags /\ "EVTH" \notin btFlags' /\ appPc' = appPc
    BY <1>4 DEF BtEvent, MayUpdate
  <2>2. flags' = flags \cup {"EVTW"}
    BY <1>4 DEF BtEvent, Post
  <2> QED
    BY <2>1, <2>2 DEF Handshake
<1>5. CASE BtPend \/ BtResume
  <2>1. appPc' = appPc
    BY <1>5 DEF BtPend, BtResume
  <2>2. \E taken \in SUBSET flags : /\ flags' = flags \ taken
                                    /\ btFlags' = btFlags \cup taken
    <3>1. CASE flags' = flags \ BtWanted
               /\ btFlags' = btFlags \cup (flags \cap BtWanted)
      <4>1. flags' = flags \ (flags \cap BtWanted)
        BY <3>1
      <4> QED
        BY <3>1, <4>1
    <3>2. CASE flags' = flags /\ btFlags' = btFlags
      <4>1. flags' = flags \ {} /\ btFlags' = btFlags \cup {}
        BY <3>2
      <4> QED
        BY <4>1
    <3>3. CASE BtResume
      BY <3>3 DEF BtResume, PendResumes, Waits
    <3> QED
      BY <1>5, <3>1, <3>2, <3>3 DEF BtPend, PendTakes, PendBlocks
  <2> QED
    BY <2>1, <2>2 DEF Handshake
<1>6. CASE AppPend \/ AppResume
  <2>1. btFlags' = btFlags
    BY <1>6 DEF AppPend, AppResume
  <2>2. CASE flags' = flags /\ appPc' = "resume"
    BY <2>1, <2>2 DEF Handshake
  <2>3. CASE "EVTW" \in flags /\ flags' = flags \ {"EVTW"}
    BY <2>1, <2>3 DEF Handshake
  <2>4. CASE AppResume
    <3>1. flagsRdy["appLoop"] = {"EVTW"} /\ "EVTW" \in flags
      BY <2>4 DEF AppResume, PendResumes, Waits
    <3>2. flags' = flags \ {"EVTW"}
      BY <2>4, <3>1 DEF AppResume, PendResumes
    <3> QED
      BY <2>3, <3>1, <3>2
  <2>5. CASE AppPend
    BY <2>2, <2>3, <2>5 DEF AppPend, AppGoto, PendTakes, PendBlocks
  <2> QED
    BY <1>6, <2>4, <2>5
<1>7. CASE AppHandled
  <2>1. appPc \notin {"pend", "resume"} /\ appPc' = "pend"
    BY <1>7 DEF AppHandled, AppGoto
  <2>2. flags' = flags \cup {"EVTH"} /\ btFlags' = btFlags
    BY <1>7 DEF AppHandled, Post
  <2> QED
    BY <2>1, <2>2 DEF Handshake
<1> QED
  BY <1>1, <1>2, <1>3, <1>4, <1>5, <1>6, <1>7 DEF Next, BtStep, AppStep

LEMMA EventsInvariant == Spec => [](Typed /\ Waits /\ Handshake)
<1>1. Init => Typed /\ Waits /\ Handshake
  BY TypedInit, WaitsInit, HandshakeInit
<1>2. Typed /\ Waits /\ Handshake /\ [Next]_vars
        => (Typed /\ Waits /\ Handshake)'
  BY TypedNext, WaitsNext, HandshakeNext
<1> QED
  BY <1>1, <1>2, PTL DEF Spec

\* bluetooth_evt is never replaced while BluetoothApplicationTask uses it or
\* has yet to pick it up: EVT_HANDLED and EVT_WAITING are one token
\* (BluetoothTask, BluetoothApplicationTask).
THEOREM EventIsKept == Spec => EventStays
<1>1. Typed /\ Waits /\ Handshake /\ [Next]_vars =>
        [evt' # evt => /\ appPc \in {"pend", "resume"}
                       /\ "EVTW" \notin flags
                       /\ flagsRdy["appLoop"] = {}]_vars
  <2> SUFFICES ASSUME Typed, Waits, Handshake, [Next]_vars, evt' # evt
               PROVE  /\ appPc \in {"pend", "resume"}
                      /\ "EVTW" \notin flags
                      /\ flagsRdy["appLoop"] = {}
    OBVIOUS
  <2>1. BtEvent
    BY DEF Next, BtStep, AppStep, CallerStep, Begin, WritePayload,
           WriteMsgHeader, SetHeader, SetHandler, PostCommand, PendResponse,
           ResumeResponse, ReturnResponse, BtCommand, BtNoCommand, BtNoEvent,
           BtAgain, BtPend, BtResume, BtTimeout, AppPend, AppResume,
           AppHandled, BluetoothUpdate, evtVars, vars
  <2>2. "EVTH" \in btFlags
    BY <2>1 DEF BtEvent, MayUpdate
  <2>3. "EVTW" \notin flags /\ appPc \in {"pend", "resume"}
    BY <2>2 DEF Handshake
  <2> QED
    BY <2>3 DEF Waits
<1> QED
  BY <1>1, EventsInvariant, PTL DEF Spec, EventStays

LEMMA TypedIsTypeOK == Typed /\ locked \in LockUse => TypeOK
BY ConstantsAssumption DEF Typed, TypeOK, SlotCommand

\* The types, and that no more events are counted than the stack has: for
\* every set of callers and any number of events.
THEOREM TypeCorrect == Spec => []TypeOK
<1>1. Init => locked \in LockUse
  BY DEF Init
<1>2. locked \in LockUse /\ [Next]_vars => (locked \in LockUse)'
  BY DEF Next, BtStep, AppStep, CallerStep, Begin, WritePayload,
         WriteMsgHeader, SetHeader, SetHandler, PostCommand, PendResponse,
         ResumeResponse, ReturnResponse, BtCommand, BtNoCommand, BtEvent,
         BtNoEvent, BtAgain, BtPend, BtResume, BtTimeout, AppPend, AppResume,
         AppHandled, BluetoothUpdate, vars
<1> QED
  BY <1>1, <1>2, EventsInvariant, TypedIsTypeOK, PTL DEF Spec

-----------------------------------------------------------------------------
(* The commands, with the mutex.                                           *)

LEMMA LockInit == Init => LockInv
BY TaskFacts
DEF Init, LockInv, MutexHeld, SlotOwned, RanOnce, Tokens, Outside, Waiting

\* Only one caller is inside a command.
LEMMA OneInside ==
  ASSUME MutexHeld, NEW t \in Callers, NEW u \in Callers,
         ~Outside(t), ~Outside(u)
  PROVE  t = u
BY DEF MutexHeld

\* While that caller does not wait there is no flag of a command.
LEMMA NoTokens ==
  ASSUME MutexHeld, Tokens, Waits,
         NEW t \in Callers, ~Outside(t), ~Waiting(t)
  PROVE  /\ "CMD" \notin flags \cup btFlags /\ "RSP" \notin flags
         /\ \A u \in Callers : flagsRdy[u] = {}
<1>1. \A u \in Callers : ~Waiting(u)
  BY OneInside DEF Waiting, Outside
<1> QED
  BY <1>1 DEF Tokens

\* When it is answered there is no command left to execute.
LEMMA AnsweredTokens ==
  ASSUME MutexHeld, Tokens, NEW t \in Callers, Waiting(t), "RSP" \in flags
  PROVE  Answered(t) /\ "CMD" \notin flags \cup btFlags
<1>1. \A u \in Callers : Waiting(u) => u = t
  BY OneInside DEF Waiting, Outside
<1>2. Answered(t)
  BY <1>1 DEF Tokens
<1> QED
  BY <1>1, <1>2 DEF Tokens, Answered

\* Steps of the other tasks, which only move flags.
LEMMA LockQuiet ==
  ASSUME MutexHeld, SlotOwned, RanOnce, Tokens,
         UNCHANGED <<pc, serial, slotVars, rsp, ran, owner>>,
         "CMD" \in flags' \cup btFlags' => "CMD" \in flags \cup btFlags,
         ~("CMD" \in flags' /\ "CMD" \in btFlags'),
         "RSP" \in flags' <=> "RSP" \in flags,
         \A t \in Callers : flagsRdy'[t] = flagsRdy[t]
  PROVE  (MutexHeld /\ SlotOwned /\ RanOnce /\ Tokens)'
<1>1. MutexHeld' /\ SlotOwned'
  BY DEF MutexHeld, SlotOwned, Outside, Own, slotVars
<1>2. RanOnce'
  BY DEF RanOnce, Waiting, Answered, Own, slotVars
<1>3. Tokens'
  BY DEF Tokens, Waiting, Answered, Own
<1> QED
  BY <1>1, <1>2, <1>3

LEMMA PostQuiet ==
  ASSUME Typed, Waits, NEW f \in Flag \ {"RSP"}, Post(f)
  PROVE  /\ \A t \in Callers : flagsRdy'[t] = flagsRdy[t]
         /\ flags' = flags \cup {f}
BY TaskFacts, PostStep DEF Waits

LEMMA LockNext == Typed /\ Waits /\ LockInv /\ [Next]_vars => LockInv'
<1> SUFFICES ASSUME Typed, Waits, LockInv, [Next]_vars, locked'
             PROVE  (MutexHeld /\ SlotOwned /\ RanOnce /\ Tokens)'
  BY DEF LockInv
<1> USE TaskFacts
<1>1. locked /\ MutexHeld /\ SlotOwned /\ RanOnce /\ Tokens
  BY DEF LockInv, Next, BtStep, AppStep, CallerStep, Begin, WritePayload,
         WriteMsgHeader, SetHeader, SetHandler, PostCommand, PendResponse,
         ResumeResponse, ReturnResponse, BtCommand, BtNoCommand, BtEvent,
         BtNoEvent, BtAgain, BtPend, BtResume, BtTimeout, AppPend, AppResume,
         AppHandled, BluetoothUpdate, vars
<1>2. CASE UNCHANGED vars
  BY <1>1, <1>2, LockQuiet DEF vars, flagVars, slotVars, Tokens
<1>3. ASSUME NEW t \in Callers, Begin(t)
      PROVE  (MutexHeld /\ SlotOwned /\ RanOnce /\ Tokens)'
  <2>1. /\ pc[t] = "idle"
        /\ \/ owner = Nobody /\ owner' = t /\ pc'[t] = "payload"
           \/ owner # Nobody /\ owner' = owner /\ pc'[t] = "lock"
        /\ \A u \in Callers \ {t} : pc'[u] = pc[u]
        /\ UNCHANGED <<serial, msg, header, handler, rsp, ran, flags, btFlags,
                       flagsRdy>>
    BY <1>1, <1>3 DEF Begin, Goto, Typed, flagVars, slotVars
  <2>2. MutexHeld'
    BY <1>1, <2>1 DEF MutexHeld, Outside
  <2>3. SlotOwned'
    BY <1>1, <2>1 DEF SlotOwned, Own
  <2>4. RanOnce'
    BY <1>1, <2>1 DEF RanOnce, Waiting, Answered, Own
  <2>5. Tokens'
    BY <1>1, <2>1 DEF Tokens, Waiting, Answered, Own
  <2> QED
    BY <2>2, <2>3, <2>4, <2>5
<1>4. ASSUME NEW t \in Callers,
             WritePayload(t) \/ WriteMsgHeader(t) \/ SetHeader(t)
               \/ SetHandler(t)
      PROVE  (MutexHeld /\ SlotOwned /\ RanOnce /\ Tokens)'
  <2>1. /\ pc[t] \in {"payload", "msgHeader", "header", "handler"}
        /\ pc'[t] \in {"msgHeader", "header", "handler", "post"}
        /\ \A u \in Callers \ {t} : pc'[u] = pc[u]
        /\ UNCHANGED <<serial, rsp, ran, flags, btFlags, flagsRdy, owner>>
    BY <1>4 DEF WritePayload, WriteMsgHeader, SetHeader, SetHandler, Goto,
                Typed, flagVars
  <2>2. \A u \in Callers \ {t} : Outside(u)
    BY <1>1, <2>1, OneInside DEF Outside
  <2>3. MutexHeld'
    BY <1>1, <2>1 DEF MutexHeld, Outside
  <2>4. SlotOwned'
    <3>1. \A u \in Callers \ {t} : pc'[u] \in {"idle", "lock"}
      BY <2>1, <2>2 DEF Outside
    <3>2. Own(t)' = Own(t)
      BY <2>1 DEF Own
    <3>3. /\ pc'[t] \notin {"idle", "lock", "payload"} => msg'.payload = Own(t)
          /\ pc'[t] \notin {"idle", "lock", "payload", "msgHeader"} =>
               msg'.header = Own(t)
          /\ pc'[t] \in {"handler", "post", "pend", "resume", "return"} =>
               header' = Own(t)
          /\ pc'[t] = "post" => handler' = Own(t)
      <4> HIDE DEF Own
      <4>1. CASE WritePayload(t)
        BY <4>1, <1>1 DEF WritePayload, Goto, SlotOwned, Typed
      <4>2. CASE WriteMsgHeader(t)
        BY <4>2, <1>1 DEF WriteMsgHeader, Goto, SlotOwned, Typed
      <4>3. CASE SetHeader(t)
        BY <4>3, <1>1 DEF SetHeader, Goto, SlotOwned, Typed
      <4>4. CASE SetHandler(t)
        BY <4>4, <1>1 DEF SetHandler, Goto, SlotOwned, Typed
      <4> QED
        BY <1>4, <4>1, <4>2, <4>3, <4>4
    <3> QED
      BY <3>1, <3>2, <3>3 DEF SlotOwned, Own
  <2>5. RanOnce'
    BY <1>1, <2>1, <2>2 DEF RanOnce, Waiting, Answered, Own, Outside
  <2>6. Tokens'
    BY <1>1, <2>1, NoTokens DEF Tokens, Waiting, Outside
  <2> QED
    BY <2>3, <2>4, <2>5, <2>6
<1>5. ASSUME NEW t \in Callers, PostCommand(t)
      PROVE  (MutexHeld /\ SlotOwned /\ RanOnce /\ Tokens)'
  <2>1. /\ pc[t] = "post" /\ pc'[t] = "pend" /\ Post("CMD")
        /\ \A u \in Callers \ {t} : pc'[u] = pc[u]
        /\ UNCHANGED <<serial, msg, header, handler, rsp, ran, btFlags, owner>>
    BY <1>5 DEF PostCommand, Goto, Typed, slotVars
  <2>2. /\ \A u \in Callers : flagsRdy'[u] = flagsRdy[u]
        /\ flags' = flags \cup {"CMD"}
    BY <2>1, PostQuiet DEF Flag
  <2>3. /\ "CMD" \notin flags \cup btFlags /\ "RSP" \notin flags
        /\ \A u \in Callers : flagsRdy[u] = {}
    BY <1>1, <2>1, NoTokens DEF Waiting, Outside
  <2>4. MutexHeld'
    BY <1>1, <2>1 DEF MutexHeld, Outside
  <2>5. SlotOwned'
    BY <1>1, <2>1 DEF SlotOwned, Own
  <2>6. RanOnce' /\ ran[t] = 0
    BY <1>1, <2>1 DEF RanOnce, Waiting, Answered, Own, SlotOwned
  <2>7. Tokens'
    BY <2>1, <2>2, <2>3, <2>6 DEF Tokens, Waiting
  <2> QED
    BY <2>4, <2>5, <2>6, <2>7
<1>6. ASSUME NEW t \in Callers, PendResponse(t) \/ ResumeResponse(t)
      PROVE  (MutexHeld /\ SlotOwned /\ RanOnce /\ Tokens)'
  <2>1. /\ Waiting(t)
        /\ \A u \in Callers \ {t} : pc'[u] = pc[u]
        /\ UNCHANGED <<serial, msg, header, handler, rsp, ran, btFlags, owner>>
    BY <1>6 DEF PendResponse, ResumeResponse, Goto, Typed, slotVars, Waiting
  <2>2. \A u \in Callers \ {t} : Outside(u) /\ flagsRdy[u] = {}
    BY <1>1, <2>1, OneInside DEF Waiting, Outside, Waits
  <2>3. CASE /\ pc[t] = "pend" /\ pc'[t] = "resume"
             /\ UNCHANGED <<flags, flagsRdy>>
    <3>1. MutexHeld' /\ SlotOwned'
      BY <1>1, <2>1, <2>3 DEF MutexHeld, Outside, SlotOwned, Own
    <3>2. RanOnce' /\ Tokens'
      BY <1>1, <2>1, <2>3 DEF RanOnce, Tokens, Waiting, Answered, Own
    <3> QED
      BY <3>1, <3>2
  <2>4. CASE /\ pc'[t] = "return"
             /\ "RSP" \in flags /\ flags' = flags \ {"RSP"}
             /\ flagsRdy'[t] = {}
             /\ \A u \in Callers \ {t} : flagsRdy'[u] = flagsRdy[u]
    <3>1. Answered(t) /\ "CMD" \notin flags \cup btFlags
      BY <1>1, <2>1, <2>4, AnsweredTokens
    <3>2. MutexHeld'
      BY <1>1, <2>1, <2>4 DEF MutexHeld, Outside, Waiting
    <3>3. SlotOwned'
      BY <1>1, <2>1, <2>4 DEF SlotOwned, Own, Waiting
    <3>4. RanOnce'
      BY <1>1, <2>1, <2>2, <2>4, <3>1
      DEF RanOnce, Waiting, Answered, Own, Outside
    <3>5. Tokens'
      BY <2>1, <2>2, <2>4, <3>1 DEF Tokens
    <3> QED
      BY <3>2, <3>3, <3>4, <3>5
  <2>5. CASE PendResponse(t)
    <3>1. \A u \in Callers : flagsRdy[u] = {}
      BY <2>2, <2>5 DEF PendResponse, Goto, Waits
    <3>2. CASE Goto(t, "pend", "return") /\ PendTakes({"RSP"})
      BY <2>4, <3>1, <3>2 DEF Goto, PendTakes, Typed
    <3>3. CASE Goto(t, "pend", "resume") /\ PendBlocks(t, {"RSP"})
      BY <2>3, <3>3 DEF Goto, PendBlocks, Typed
    <3> QED
      BY <2>5, <3>2, <3>3 DEF PendResponse
  <2>6. CASE ResumeResponse(t)
    <3>1. flagsRdy[t] = {"RSP"} /\ "RSP" \in flags
      BY <1>1, <2>6 DEF ResumeResponse, PendResumes, Waits, Tokens
    <3>2. /\ pc'[t] = "return" /\ flags' = flags \ {"RSP"}
          /\ flagsRdy'[t] = {}
          /\ \A u \in Callers \ {t} : flagsRdy'[u] = flagsRdy[u]
      BY <2>6, <3>1 DEF ResumeResponse, PendResumes, Goto, Typed
    <3> QED
      BY <2>4, <3>1, <3>2
  <2> QED
    BY <1>6, <2>5, <2>6
<1>7. ASSUME NEW t \in Callers, ReturnResponse(t)
      PROVE  (MutexHeld /\ SlotOwned /\ RanOnce /\ Tokens)'
  <2>1. /\ pc[t] = "return" /\ pc'[t] = "idle"
        /\ ran' = [ran EXCEPT ![t] = 0]
        /\ \A u \in Callers \ {t} : serial'[u] = serial[u]
        /\ UNCHANGED <<msg, header, handler, rsp, flags, flagsRdy, btFlags>>
        /\ \/ /\ \A u \in Callers \ {t} : pc'[u] = pc[u]
              /\ owner' = Nobody
           \/ \E w \in Callers \ {t} :
                /\ pc[w] = "lock" /\ pc'[w] = "payload" /\ owner' = w
                /\ \A u \in Callers \ {t, w} : pc'[u] = pc[u]
    BY <1>7 DEF ReturnResponse, Heirs, WaitsForMutex, Typed, flagVars,
                slotVars
  <2>2. \A u \in Callers \ {t} : Outside(u)
    BY <1>1, <2>1, OneInside DEF Outside
  <2>3. /\ "CMD" \notin flags \cup btFlags /\ "RSP" \notin flags
        /\ \A u \in Callers : flagsRdy[u] = {}
    BY <1>1, <2>1, NoTokens DEF Waiting, Outside
  <2>4. MutexHeld'
    BY <2>1, <2>2 DEF MutexHeld, Outside
  <2>5. \A u \in Callers : pc'[u] \in {"idle", "lock", "payload"}
    BY <2>1, <2>2 DEF Outside
  <2>6. SlotOwned'
    BY <2>5 DEF SlotOwned
  <2>7. RanOnce'
    <3>1. \A u \in Callers : ran'[u] = 0
      BY <1>1, <2>1, <2>2 DEF RanOnce, Outside, Waiting, Typed
    <3> QED
      BY <2>5, <3>1 DEF RanOnce, Waiting
  <2>8. Tokens'
    BY <2>1, <2>3 DEF Tokens
  <2> QED
    BY <2>4, <2>6, <2>7, <2>8
<1>8. CASE BtCommand
  <2>1. "CMD" \in btFlags
    BY <1>8 DEF BtCommand
  <2>2. PICK t \in Callers : Waiting(t) /\ ran[t] = 0
    BY <1>1, <2>1 DEF Tokens
  <2>3. /\ msg.payload = Own(t) /\ header = Own(t) /\ handler = Own(t)
    BY <1>1, <2>2 DEF SlotOwned, RanOnce, Waiting, Answered
  <2>4. \A u \in Callers \ {t} : Outside(u)
    BY <1>1, <2>2, OneInside DEF Outside, Waiting
  <2>5. "CMD" \notin flags /\ "RSP" \notin flags
    <3>1. ~Answered(t)
      BY <2>2 DEF Answered
    <3> QED
      BY <1>1, <2>1, <2>2, <3>1, AnsweredTokens DEF Tokens
  <2>6. /\ rsp' = Executed(Own(t), Own(t), Own(t))
        /\ ran' = [u \in Callers |-> IF u = t THEN 1 ELSE ran[u]]
        /\ btFlags' = btFlags \ {"CMD"}
        /\ Post("RSP")
        /\ UNCHANGED <<pc, serial, msg, header, owner>>
    <3>1. handler.by = t
      BY <2>3 DEF Own
    <3>2. \A u \in Callers :
            (IF u = handler.by /\ ran[u] < 2 THEN ran[u] + 1 ELSE ran[u])
              = IF u = t THEN 1 ELSE ran[u]
      BY <2>2, <3>1
    <3> QED
      BY <1>8, <2>3, <3>2 DEF BtCommand
  <2>7. Own(t)' = Own(t)
    BY <2>6 DEF Own
  <2>8. Answered(t)' /\ Waiting(t)'
    BY <2>2, <2>6, <2>7 DEF Answered, Waiting
  <2>9. MutexHeld'
    BY <1>1, <2>6 DEF MutexHeld, Outside
  <2>10. SlotOwned'
    BY <1>1, <2>2, <2>4, <2>6 DEF SlotOwned, Own, Outside, Waiting
  <2>11. RanOnce'
    <3>1. \A u \in Callers \ {t} :
            ran'[u] = 0 /\ ~Waiting(u)' /\ pc'[u] # "return"
      BY <1>1, <2>4, <2>6 DEF RanOnce, Outside, Waiting
    <3>2. Waiting(t)' /\ pc'[t] # "return"
      BY <2>2, <2>6 DEF Waiting
    <3> QED
      BY <2>8, <3>1, <3>2 DEF RanOnce
  <2>12. Tokens'
    <3>1. flags' = flags \cup {"RSP"}
      BY <2>6 DEF Post
    <3>2. "CMD" \notin flags' \cup btFlags' /\ "RSP" \in flags'
      BY <2>5, <2>6, <3>1
    <3> QED
      BY <2>8, <3>2 DEF Tokens
  <2> QED
    BY <2>9, <2>10, <2>11, <2>12
<1>9. CASE BtNoCommand \/ BtNoEvent \/ BtAgain \/ BtTimeout
  <2>1. /\ UNCHANGED <<pc, serial, slotVars, rsp, ran, owner>>
        /\ flags' = flags /\ \A t \in Callers : flagsRdy'[t] = flagsRdy[t]
    BY <1>9 DEF BtNoCommand, BtNoEvent, BtAgain, BtTimeout, flagVars
  <2>2. btFlags' \subseteq btFlags \cup {"STACK"}
    BY <1>9 DEF BtNoCommand, BtNoEvent, BtAgain, BtTimeout
  <2>3. ~("CMD" \in flags /\ "CMD" \in btFlags)
    BY <1>1 DEF Tokens
  <2> QED
    BY <1>1, <2>1, <2>2, <2>3, LockQuiet
<1>10. CASE BtPend \/ BtResume
  <2>1. UNCHANGED <<pc, serial, slotVars, rsp, ran, owner>>
    BY <1>10 DEF BtPend, BtResume
  <2>2. "RSP" \notin BtWanted /\ BtWanted \in SUBSET Flag
    BY DEF BtWanted, Flag
  <2>3. \A t \in Callers : flagsRdy'[t] = flagsRdy[t]
    BY <1>10, <2>2, PendStep DEF BtPend, BtResume
  <2>4. \E taken \in SUBSET (flags \cap BtWanted) :
          flags' = flags \ taken /\ btFlags' = btFlags \cup taken
    <3>1. CASE PendTakes(BtWanted)
               /\ btFlags' = btFlags \cup (flags \cap BtWanted)
      <4>1. flags' = flags \ (flags \cap BtWanted)
        BY <3>1 DEF PendTakes
      <4> QED
        BY <3>1, <4>1
    <3>2. CASE PendBlocks("bt", BtWanted) /\ UNCHANGED btFlags
      <4>1. flags' = flags \ {} /\ btFlags' = btFlags \cup {}
        BY <3>2 DEF PendBlocks
      <4> QED
        BY <4>1
    <3>3. CASE BtResume
      BY <3>3 DEF BtResume, PendResumes, Waits
    <3> QED
      BY <1>10, <3>1, <3>2, <3>3 DEF BtPend
  <2>5. ~("CMD" \in flags /\ "CMD" \in btFlags)
    BY <1>1 DEF Tokens
  <2> QED
    BY <1>1, <2>1, <2>2, <2>3, <2>4, <2>5, LockQuiet
<1>11. CASE AppPend \/ AppResume
  <2>1. UNCHANGED <<pc, serial, slotVars, rsp, ran, owner, btFlags>>
    BY <1>11 DEF AppPend, AppResume
  <2>2. {"EVTW"} \in SUBSET Flag
    BY DEF Flag
  <2>3. \A t \in Callers : flagsRdy'[t] = flagsRdy[t]
    BY <1>11, <2>2, PendStep DEF AppPend, AppResume
  <2>4. flags' \in {flags, flags \ {"EVTW"}}
    BY <1>11, ZenonT(40)
       DEF AppPend, AppResume, PendTakes, PendBlocks, PendResumes, Waits
  <2>5. ~("CMD" \in flags /\ "CMD" \in btFlags)
    BY <1>1 DEF Tokens
  <2> QED
    BY <1>1, <2>1, <2>3, <2>4, <2>5, LockQuiet
<1>12. CASE AppHandled \/ BluetoothUpdate \/ BtEvent
  <2>1. UNCHANGED <<pc, serial, slotVars, rsp, ran, owner>>
        /\ ("CMD" \in btFlags' => "CMD" \in btFlags)
    BY <1>12 DEF AppHandled, BluetoothUpdate, BtEvent
  <2>2. PICK f \in {"EVTH", "STACK", "EVTW"} : Post(f)
    BY <1>12 DEF AppHandled, BluetoothUpdate, BtEvent
  <2>3. /\ \A t \in Callers : flagsRdy'[t] = flagsRdy[t]
        /\ flags' = flags \cup {f}
    BY <2>2, PostQuiet DEF Flag
  <2>4. ~("CMD" \in flags /\ "CMD" \in btFlags)
    BY <1>1 DEF Tokens
  <2> QED
    BY <1>1, <2>1, <2>3, <2>4, LockQuiet
<1> QED
  BY <1>2, <1>3, <1>4, <1>5, <1>6, <1>7, <1>8, <1>9, <1>10, <1>11, <1>12
  DEF Next, BtStep, AppStep, CallerStep

LEMMA CommandsInvariant == Spec => [](Typed /\ Waits /\ LockInv)
<1>1. Init => Typed /\ Waits /\ LockInv
  BY TypedInit, WaitsInit, LockInit
<1>2. Typed /\ Waits /\ LockInv /\ [Next]_vars => (Typed /\ Waits /\ LockInv)'
  BY TypedNext, WaitsNext, LockNext
<1> QED
  BY <1>1, <1>2, PTL DEF Spec

\* With BluetoothMutex around every command, what a caller finds in
\* gecko_rsp_msg_buf is the response to its own command, executed from its
\* own payload, header and handler and exactly once, for every set of callers
\* (sli_bt_cmd_handler_rtos_delegate, BluetoothPend, BluetoothPost).
THEOREM LockedCommandsAreOwn == Spec => []LockedResponse
<1>1. LockInv => LockedResponse
  BY DEF LockInv, RanOnce, Answered, LockedResponse, OwnResponse, ResponseOf
<1> QED
  BY <1>1, CommandsInvariant, PTL

-----------------------------------------------------------------------------
(* The refinement to BgCommands.                                           *)

LEMMA RefinementInit == Init => Commands!Init
<1> SUFFICES ASSUME Init PROVE Commands!Init
  OBVIOUS
<1>1. \A t \in Callers : CallOf(t) = "none"
  BY DEF Init, CallOf
<1>2. [t \in Callers |-> CallOf(t)] = [t \in Callers |-> "none"]
  BY <1>1
<1> QED
  BY <1>2 DEF Init, Commands!Init

\* A step that leaves the progress of every command as it is is a stutter.
LEMMA Stutter ==
  ASSUME \A t \in Callers : CallOf(t)' = CallOf(t), serial' = serial
  PROVE  UNCHANGED Commands!commandVars
BY DEF Commands!commandVars

\* Steps outside the commands.
Idle == UNCHANGED <<pc, serial, ran, rsp>>

\* The progress of a command depends on its caller, its number and, when it
\* returns, on the response.
LEMMA CallStays ==
  ASSUME NEW t \in Callers, pc'[t] = pc[t], serial'[t] = serial[t],
         ran'[t] = ran[t], rsp' = rsp \/ pc[t] # "return"
  PROVE  CallOf(t)' = CallOf(t)
BY DEF CallOf, Own

LEMMA IdleSteps ==
  ASSUME BtNoCommand \/ BtEvent \/ BtNoEvent \/ BtAgain \/ BtPend \/ BtResume
           \/ BtTimeout \/ AppStep \/ BluetoothUpdate \/ UNCHANGED vars
  PROVE  Idle
BY DEF BtNoCommand, BtEvent, BtNoEvent, BtAgain, BtPend, BtResume, BtTimeout,
       AppStep, AppPend, AppResume, AppHandled, BluetoothUpdate, vars, Idle

\* With the mutex one caller is inside a command, and its progress is known.
LEMMA LockedCall ==
  ASSUME MutexHeld, RanOnce, NEW t \in Callers
  PROVE  /\ \A u \in Callers \ {t} : Outside(t) \/ Outside(u)
         /\ pc[t] = "idle" => CallOf(t) = "none"
         /\ pc[t] # "idle" /\ ran[t] = 0 => CallOf(t) = "issued"
         /\ Waiting(t) /\ ran[t] # 0 => CallOf(t) = "executed" /\ Answered(t)
         /\ pc[t] = "return" => CallOf(t) = "answered" /\ Answered(t)
<1>1. \A u \in Callers \ {t} : Outside(t) \/ Outside(u)
  BY DEF MutexHeld
<1>2. Waiting(t) /\ ran[t] # 0 => Answered(t)
  BY DEF RanOnce
<1>3. pc[t] = "return" => Answered(t)
  BY DEF RanOnce
<1> QED
  BY <1>1, <1>2, <1>3 DEF CallOf, Answered, Waiting

LEMMA RefinementNext ==
  Typed /\ Waits /\ LockInv /\ LockInv' /\ [Next]_vars
    => [locked => Commands!Next]_(Commands!commandVars)
<1> SUFFICES ASSUME Typed, LockInv, LockInv', [Next]_vars, locked
             PROVE  [Commands!Next]_(Commands!commandVars)
  OBVIOUS
<1> DEFINE call == [u \in Callers |-> CallOf(u)]
<1>1. MutexHeld /\ SlotOwned /\ RanOnce /\ Tokens
  BY DEF LockInv
<1>2. ASSUME Idle PROVE UNCHANGED Commands!commandVars
  <2>1. \A u \in Callers : CallOf(u)' = CallOf(u)
    BY <1>2, CallStays DEF Idle
  <2> QED
    BY <1>2, <2>1, Stutter DEF Idle
<1>3. ASSUME NEW t \in Callers, Begin(t)
      PROVE  Commands!Next
  <2>1. /\ pc[t] = "idle" /\ pc'[t] # "idle"
        /\ \A u \in Callers \ {t} : pc'[u] = pc[u]
        /\ UNCHANGED <<serial, ran, rsp>>
    BY <1>3 DEF Begin, Goto, Typed
  <2>2. ran[t] = 0
    BY <1>1, <2>1 DEF RanOnce, Waiting
  <2>3. CallOf(t) = "none" /\ CallOf(t)' = "issued"
    BY <2>1, <2>2 DEF CallOf
  <2>4. \A u \in Callers \ {t} : CallOf(u)' = CallOf(u)
    BY <2>1, CallStays
  <2>5. call[t] = "none" /\ call' = [call EXCEPT ![t] = "issued"]
    BY <2>3, <2>4
  <2> QED
    BY <2>1, <2>5 DEF Commands!Next, Commands!Issue
<1>4. CASE BtCommand
  <2>1. PICK t \in Callers : Waiting(t) /\ ran[t] = 0
    BY <1>1, <1>4 DEF Tokens, BtCommand
  <2>2. handler = Own(t)
    BY <1>1, <2>1 DEF RanOnce, Answered
  <2>3. /\ ran'[t] = 1 /\ \A u \in Callers \ {t} : ran'[u] = ran[u]
        /\ pc' = pc /\ serial' = serial
    BY <1>4, <2>1, <2>2 DEF BtCommand, Own
  <2>4. CallOf(t) = "issued" /\ CallOf(t)' = "executed"
    BY <2>1, <2>3 DEF CallOf, Waiting
  <2>5. \A u \in Callers \ {t} : CallOf(u)' = CallOf(u)
    <3>1. \A u \in Callers \ {t} : pc[u] # "return"
      BY <1>1, <2>1, LockedCall DEF Waiting, Outside
    <3> QED
      BY <2>3, <3>1, CallStays
  <2>6. call[t] = "issued" /\ call' = [call EXCEPT ![t] = "executed"]
    BY <2>4, <2>5
  <2> QED
    BY <2>3, <2>6 DEF Commands!Next, Commands!Execute
<1>5. ASSUME NEW t \in Callers, PendResponse(t) \/ ResumeResponse(t),
             pc'[t] = "return"
      PROVE  Commands!Next
  <2>1. /\ Waiting(t)
        /\ \A u \in Callers \ {t} : pc'[u] = pc[u]
        /\ UNCHANGED <<locked, serial, ran, rsp>>
    BY <1>5 DEF PendResponse, ResumeResponse, Goto, Typed, Waiting
  <2>2. ran[t] = 1 /\ rsp = Executed(Own(t), Own(t), Own(t))
    <3>1. ran'[t] = 1 /\ rsp' = Executed(Own(t)', Own(t)', Own(t)')
      BY <1>5, <2>1 DEF LockInv, RanOnce, Answered
    <3> QED
      BY <2>1, <3>1 DEF Own
  <2>3. CallOf(t) = "executed"
    BY <2>1, <2>2 DEF CallOf, Waiting
  <2>4. CallOf(t)' = "answered"
    BY <1>5, <2>1, <2>2 DEF CallOf, Own
  <2>5. \A u \in Callers \ {t} : CallOf(u)' = CallOf(u)
    BY <2>1, CallStays
  <2>6. call[t] = "executed" /\ call' = [call EXCEPT ![t] = "answered"]
    BY <2>3, <2>4, <2>5
  <2> QED
    BY <2>1, <2>6 DEF Commands!Next, Commands!Answer
<1>6. ASSUME NEW t \in Callers, ReturnResponse(t)
      PROVE  Commands!Next
  <2>1. /\ pc[t] = "return" /\ pc'[t] = "idle"
        /\ serial' = [serial EXCEPT ![t] = 1 - @]
        /\ \A u \in Callers \ {t} :
             /\ ran'[u] = ran[u]
             /\ pc'[u] = pc[u] \/ (pc[u] = "lock" /\ pc'[u] = "payload")
        /\ rsp' = rsp
    BY <1>6 DEF ReturnResponse, Heirs, WaitsForMutex, Typed
  <2>2. CallOf(t) = "answered" /\ CallOf(t)' = "none"
    BY <1>1, <2>1, LockedCall DEF CallOf
  <2>3. ASSUME NEW u \in Callers \ {t} PROVE CallOf(u)' = CallOf(u)
    <3>1. CASE pc'[u] = pc[u]
      BY <2>1, <3>1, CallStays DEF Typed
    <3>2. CASE pc[u] = "lock" /\ pc'[u] = "payload"
      <4>1. ran[u] = 0
        BY <1>1, <3>2 DEF RanOnce, Waiting
      <4> QED
        BY <2>1, <3>2, <4>1 DEF CallOf
    <3> QED
      BY <2>1, <3>1, <3>2
  <2>4. call[t] = "answered" /\ call' = [call EXCEPT ![t] = "none"]
    BY <2>2, <2>3
  <2> QED
    BY <2>1, <2>4 DEF Commands!Next, Commands!Return
<1>7. ASSUME NEW t \in Callers, CallerStep(t), ~ReturnResponse(t),
             pc'[t] # "return"
      PROVE  UNCHANGED Commands!commandVars
  <2>1. /\ pc[t] \notin {"idle", "return"} /\ pc'[t] \notin {"idle", "return"}
        /\ \A u \in Callers \ {t} : pc'[u] = pc[u]
        /\ UNCHANGED <<serial, ran, rsp>>
    BY <1>7 DEF CallerStep, WritePayload, WriteMsgHeader, SetHeader,
                SetHandler, PostCommand, PendResponse, ResumeResponse, Goto,
                Typed
  <2>2. \A u \in Callers \ {t} : CallOf(u)' = CallOf(u)
    BY <2>1, CallStays
  <2>3. CallOf(t)' = CallOf(t)
    BY <2>1 DEF CallOf
  <2> QED
    BY <2>1, <2>2, <2>3, Stutter
<1>8. ASSUME NEW t \in Callers, CallerStep(t), ~ReturnResponse(t),
             pc'[t] = "return"
      PROVE  Commands!Next
  <2>1. PendResponse(t) \/ ResumeResponse(t)
    BY <1>8 DEF CallerStep, WritePayload, WriteMsgHeader, SetHeader,
                SetHandler, PostCommand, Goto, Typed
  <2> QED
    BY <1>5, <1>8, <2>1
<1> QED
  BY <1>2, <1>3, <1>4, <1>6, <1>7, <1>8, IdleSteps DEF Next, BtStep

\* With BluetoothMutex the callers are served as by a stack that executes
\* each command exactly once between its call and its return and answers it
\* with its own response: the refinement of the gecko_cmd_* functions, for
\* every set of callers.
THEOREM RefinesCommands == Spec => ServesCommands
<1> QED
  BY CommandsInvariant, RefinementInit, RefinementNext, PTL
  DEF Spec, ServesCommands
-----------------------------------------------------------------------------
(* The application task, without the mutex.                                *)

\* The Bluetooth task blocks only when it has taken all its flags and has
\* executed what it was told to.
Blocks ==
  /\ wants["bt"] # {} => wants["bt"] = BtWanted /\ flags \cap BtWanted = {}
  /\ btPc # "command" => "CMD" \notin btFlags

\* Nobody takes the mutex.
Unlocked == owner = Nobody /\ \A t \in Callers : pc[t] # "lock"

Writing == {"payload", "msgHeader", "header", "handler", "post"}

NoCmd == "CMD" \notin flags \cup btFlags

\* The Bluetooth task has been woken for the command of the application task.
Posted ==
  /\ ran["app"] = 0 /\ handler = Own("app")
  /\ wants["bt"] = {}
  /\ \/ "CMD" \in flagsRdy["bt"] /\ "CMD" \notin btFlags
     \/ "CMD" \in btFlags /\ "CMD" \notin flags

\* The response is there before the application task asks for it.
Served == NoCmd /\ Answered("app") /\ "RSP" \in flags /\ handler.by # "app"

\* What the slot holds, by how far the application task is with its command.
AppSlot ==
  /\ pc["app"] \notin {"idle", "payload"} => msg.payload = Own("app")
  /\ pc["app"] \notin {"idle", "payload", "msgHeader"} =>
       msg.header = Own("app")
  /\ pc["app"] \in {"handler", "post", "pend", "return"} =>
       header = Own("app")
  /\ pc["app"] = "post" => handler = Own("app")

\* How far the command is executed: the application task finds no command
\* under way when it begins one, and never waits for the response.
AppRun ==
  /\ pc["app"] \in {"idle"} \cup Writing => ran["app"] = 0
  /\ pc["app"] \in Writing => NoCmd
  /\ pc["app"] \in {"idle", "return"} \cup (Writing \ {"post"}) =>
       handler.by # "app"
  /\ pc["app"] = "pend" => Posted \/ Served
  /\ pc["app"] = "return" => NoCmd /\ Answered("app")
  /\ pc["app"] # "resume"

AppInv == "app" \in Callers /\ ~locked => Unlocked /\ AppSlot /\ AppRun

LEMMA BlocksNext == Typed /\ Waits /\ Blocks /\ [Next]_vars => Blocks'
<1> SUFFICES ASSUME Typed, Waits, Blocks, [Next]_vars PROVE Blocks'
  OBVIOUS
<1> USE TaskFacts
<1>1. ASSUME UNCHANGED flagVars, btPc' = btPc \/ btPc = "update",
             btFlags' \subseteq btFlags \/ btPc' = "command",
             btPc = "command" => btPc' = "command"
      PROVE  Blocks'
  BY <1>1 DEF Blocks, flagVars
<1>2. ASSUME NEW f \in Flag, Post(f), btPc' = btPc \/ btPc' # "command",
             "CMD" \in btFlags' => "CMD" \in btFlags /\ btPc' = btPc
      PROVE  Blocks'
  <2>1. /\ flags' = flags \cup {f}
        /\ \/ f \in wants["bt"] /\ wants'["bt"] = {}
           \/ f \notin wants["bt"] /\ wants'["bt"] = wants["bt"]
    BY <1>2, PostStep
  <2> QED
    BY <1>2, <2>1 DEF Blocks
<1>3. ASSUME NEW t \in Tasks \ {"bt"}, NEW w \in SUBSET Flag,
             PendTakes(w) \/ PendBlocks(t, w) \/ PendResumes(t),
             UNCHANGED <<btPc, btFlags>>
      PROVE  Blocks'
  <2>1. wants'["bt"] = wants["bt"] /\ flags' \subseteq flags
    BY <1>3, PendStep
  <2> QED
    BY <1>3, <2>1 DEF Blocks
<1>4. ASSUME NEW t \in Callers, Begin(t) \/ CallerStep(t) PROVE Blocks'
  <2>1. UNCHANGED <<btPc, btFlags>>
    BY <1>4 DEF Begin, CallerStep, WritePayload, WriteMsgHeader, SetHeader,
                SetHandler, PostCommand, PendResponse, ResumeResponse,
                ReturnResponse
  <2>2. CASE PostCommand(t)
    BY <1>2, <2>1, <2>2 DEF PostCommand, Flag
  <2>3. CASE PendResponse(t) \/ ResumeResponse(t)
    <3>1. PendTakes({"RSP"}) \/ PendBlocks(t, {"RSP"}) \/ PendResumes(t)
      BY <2>3 DEF PendResponse, ResumeResponse
    <3>2. t \in Tasks \ {"bt"} /\ {"RSP"} \in SUBSET Flag
      BY DEF Flag
    <3> QED
      BY <1>3, <2>1, <3>1, <3>2
  <2>4. CASE UNCHANGED flagVars
    BY <2>1, <2>4 DEF Blocks, flagVars
  <2> QED
    BY <1>4, <2>2, <2>3, <2>4 DEF Begin, CallerStep, WritePayload,
       WriteMsgHeader, SetHeader, SetHandler, ReturnResponse
<1>5. CASE BtNoCommand \/ BtNoEvent \/ BtAgain
  BY <1>5 DEF BtNoCommand, BtNoEvent, BtAgain, BtGoto, MayUpdate, flagVars,
              Blocks
<1>6. CASE BtCommand
  BY <1>2, <1>6 DEF BtCommand, BtGoto, Flag
<1>7. CASE BtEvent
  <2>1. btPc = "update" /\ "CMD" \notin btFlags /\ btFlags' \subseteq btFlags
        /\ btPc' = "sleep" /\ Post("EVTW")
    BY <1>7 DEF BtEvent, BtGoto, Blocks
  <2> QED
    BY <1>2, <2>1 DEF Flag
<1>8. CASE BtPend
  <2>1. CASE BtGoto("sleep", "command") /\ PendTakes(BtWanted)
    <3>1. wants' = wants /\ flags' = flags \ BtWanted /\ btPc' = "command"
      BY <2>1 DEF BtGoto, PendTakes
    <3> QED
      BY <3>1 DEF Blocks
  <2>2. CASE BtGoto("sleep", "resume") /\ PendBlocks("bt", BtWanted)
             /\ UNCHANGED btFlags
    <3>1. /\ wants'["bt"] = BtWanted /\ flags' = flags
          /\ flags \cap BtWanted = {} /\ btPc = "sleep"
      BY <2>2 DEF BtGoto, PendBlocks, Typed
    <3> QED
      BY <2>2, <3>1 DEF Blocks
  <2> QED
    BY <1>8, <2>1, <2>2 DEF BtPend
<1>9. CASE BtResume \/ BtTimeout
  BY <1>9 DEF BtResume, BtTimeout, BtGoto, PendResumes, Blocks, Typed, Waits
<1>10. CASE AppPend \/ AppResume
  <2>1. {"EVTW"} \in SUBSET Flag /\ "appLoop" \in Tasks \ {"bt"}
    BY DEF Flag, Tasks
  <2>2. \/ PendTakes({"EVTW"}) \/ PendBlocks("appLoop", {"EVTW"})
        \/ PendResumes("appLoop")
    BY <1>10 DEF AppPend, AppResume
  <2>3. UNCHANGED <<btPc, btFlags>>
    BY <1>10 DEF AppPend, AppResume
  <2> QED
    BY <1>3, <2>1, <2>2, <2>3
<1>11. CASE AppHandled \/ BluetoothUpdate
  <2>1. (Post("EVTH") \/ Post("STACK")) /\ UNCHANGED <<btPc, btFlags>>
    BY <1>11 DEF AppHandled, BluetoothUpdate
  <2>2. "EVTH" \in Flag /\ "STACK" \in Flag
    BY DEF Flag
  <2> QED
    BY <1>2, <2>1, <2>2
<1>12. CASE UNCHANGED vars
  BY <1>12 DEF vars, flagVars, Blocks
<1> QED
  BY <1>4, <1>5, <1>6, <1>7, <1>8, <1>9, <1>10, <1>11, <1>12
     DEF Next, BtStep, AppStep

\* Without the mutex nobody inherits a priority.
LEMMA OwnPriority ==
  ASSUME Unlocked, NEW t \in Callers
  PROVE  Priorities(t) = {Prio[t]}
BY TaskFacts DEF Unlocked, Priorities

\* A caller that runs finds the Bluetooth task blocked.
LEMMA BtBlocked ==
  ASSUME Waits, Blocks, Unlocked, NEW t \in Callers, CanRun(t)
  PROVE  NoCmd /\ wants["bt"] = BtWanted /\ flags \cap BtWanted = {}
<1>1. "bt" \in Tasks \ {t} /\ t \in AllCallers
  BY TaskFacts, ConstantsAssumption
<1>2. Outranks("bt", t)
  <2>1. Prio["bt"] \in Priorities("bt") /\ Priorities(t) = {Prio[t]}
    BY OwnPriority DEF Priorities
  <2>2. Prio["bt"] < Prio[t]
    BY <1>1 DEF Prio, AllCallers
  <2> QED
    BY <2>1, <2>2 DEF Outranks
<1>3. ~Ready("bt")
  BY <1>1, <1>2 DEF CanRun
<1>4. wants["bt"] # {}
  BY <1>3 DEF Ready
<1>5. "CMD" \in BtWanted /\ btPc = "resume"
  BY <1>4 DEF BtWanted, Waits
<1> QED
  BY <1>4, <1>5 DEF Blocks, NoCmd

\* While the application task is inside a command no other caller runs.
LEMMA AppFirst ==
  ASSUME Typed, Waits, Unlocked, "app" \in Callers,
         pc["app"] \notin {"idle", "resume"},
         NEW t \in Callers \ {"app"}
  PROVE  ~CanRun(t)
<1>1. "app" \in Tasks \ {t} /\ t \in AllCallers \ {"app"}
  BY TaskFacts, ConstantsAssumption
<1>2. Outranks("app", t)
  <2>1. Prio["app"] \in Priorities("app") /\ Priorities(t) = {Prio[t]}
    BY OwnPriority DEF Priorities
  <2>2. Prio["app"] < Prio[t]
    BY <1>1 DEF Prio, AllCallers
  <2> QED
    BY <2>1, <2>2 DEF Outranks
<1>3. Ready("app")
  <2>1. wants["app"] = {} /\ pc["app"] # "lock"
    BY DEF Waits, Unlocked
  <2> QED
    BY <2>1 DEF Ready, WaitsForMutex
<1> QED
  BY <1>1, <1>2, <1>3 DEF CanRun

\* The inside of AppInv.
AppState == Unlocked /\ AppSlot /\ AppRun

\* Steps of the other tasks, which only move flags.
LEMMA AppQuiet ==
  ASSUME AppState, UNCHANGED <<pc, serial, slotVars, rsp, ran, owner>>,
         NoCmd => NoCmd', Posted => Posted',
         "RSP" \in flags => "RSP" \in flags'
  PROVE  AppState'
<1>1. Unlocked' /\ AppSlot'
  BY DEF AppState, Unlocked, AppSlot, Own, slotVars
<1>2. AppRun'
  BY DEF AppState, AppRun, Served, Answered, Own, slotVars
<1> QED
  BY <1>1, <1>2 DEF AppState

LEMMA PostKeepsApp ==
  ASSUME Typed, AppState, UNCHANGED <<pc, serial, slotVars, rsp, ran, owner>>,
         NEW f \in Flag \ {"CMD"}, Post(f),
         "CMD" \in btFlags' <=> "CMD" \in btFlags
  PROVE  AppState'
<1>1. /\ flags' = flags \cup {f}
      /\ wants["bt"] = {} => wants'["bt"] = {}
                             /\ flagsRdy'["bt"] = flagsRdy["bt"]
  BY PostStep, TaskFacts
<1>2. NoCmd => NoCmd'
  BY <1>1 DEF NoCmd
<1>3. Posted => Posted'
  BY <1>1 DEF Posted, Own, slotVars
<1> QED
  BY <1>1, <1>2, <1>3, AppQuiet

\* The steps of the other callers: the application task is outside.
LEMMA OthersKeepApp ==
  ASSUME Typed, Waits, AppState, "app" \in Callers, ~locked,
         NEW t \in Callers \ {"app"}, Begin(t) \/ CallerStep(t)
  PROVE  AppState'
<1>1. CanRun(t)
  BY DEF Begin, CallerStep, WritePayload, WriteMsgHeader, SetHeader,
         SetHandler, PostCommand, PendResponse, ResumeResponse,
         ReturnResponse, Goto
<1>2. pc["app"] = "idle"
  BY <1>1, AppFirst DEF AppState, AppRun
<1>3. Heirs = {}
  BY DEF Heirs, WaitsForMutex, AppState, Unlocked
<1>4. /\ \A u \in Callers \ {t} : pc'[u] = pc[u]
      /\ pc'[t] # "lock"
  <2>1. CASE Begin(t)
    BY <2>1 DEF Begin, Goto, Typed, AppState, Unlocked
  <2>2. CASE ReturnResponse(t)
    BY <1>3, <2>2 DEF ReturnResponse, Typed
  <2>3. CASE CallerStep(t) /\ ~ReturnResponse(t)
    BY <2>3 DEF CallerStep, WritePayload, WriteMsgHeader, SetHeader,
                SetHandler, PostCommand, PendResponse, ResumeResponse, Goto,
                Typed
  <2> QED
    BY <2>1, <2>2, <2>3
<1>5. owner' = Nobody
  BY <1>3 DEF Begin, CallerStep, WritePayload, WriteMsgHeader, SetHeader,
         SetHandler, PostCommand, PendResponse, ResumeResponse,
         ReturnResponse, AppState, Unlocked
<1>6. ran'["app"] = ran["app"]
  BY DEF Begin, CallerStep, WritePayload, WriteMsgHeader, SetHeader,
         SetHandler, PostCommand, PendResponse, ResumeResponse,
         ReturnResponse, Typed
<1>7. handler' = handler \/ handler' = Own(t)
  BY DEF Begin, CallerStep, WritePayload, WriteMsgHeader, SetHeader,
         SetHandler, PostCommand, PendResponse, ResumeResponse,
         ReturnResponse, slotVars
<1>8. handler'.by # "app"
  BY <1>2, <1>7 DEF AppState, AppRun, Own
<1>9. pc'["app"] = "idle" /\ \A u \in Callers : pc'[u] # "lock"
  BY <1>2, <1>4 DEF AppState, Unlocked
<1>10. ran'["app"] = 0
  BY <1>2, <1>6 DEF AppState, AppRun
<1> QED
  BY <1>5, <1>8, <1>9, <1>10 DEF AppState, Unlocked, AppSlot, AppRun, Writing

\* The steps of the application task.
LEMMA AppKeepsApp ==
  ASSUME Typed, Waits, Blocks, AppState, "app" \in Callers, ~locked,
         Begin("app") \/ CallerStep("app")
  PROVE  AppState'
<1> DEFINE t == "app"
<1>1. CanRun("app")
  BY DEF Begin, CallerStep, WritePayload, WriteMsgHeader, SetHeader,
         SetHandler, PostCommand, PendResponse, ResumeResponse,
         ReturnResponse, Goto
<1>2. NoCmd /\ wants["bt"] = BtWanted /\ flags \cap BtWanted = {}
  BY <1>1, BtBlocked DEF AppState
<1>3. ~Posted
  BY <1>2 DEF Posted, BtWanted
<1>4. Own("app").by = "app" /\ Heirs = {}
  BY DEF Own, Heirs, WaitsForMutex, AppState, Unlocked
<1>5. CASE Begin("app")
  <2>1. /\ pc["app"] = "idle" /\ pc'["app"] = "payload"
        /\ \A u \in Callers \ {"app"} : pc'[u] = pc[u]
        /\ owner' = owner
        /\ UNCHANGED <<flagVars, slotVars, serial, rsp, ran, btFlags>>
    BY <1>5 DEF Begin, Goto, Typed, AppState, Unlocked
  <2>2. NoCmd' /\ Unlocked'
    BY <1>2, <2>1 DEF NoCmd, AppState, Unlocked, flagVars
  <2> QED
    BY <2>1, <2>2 DEF AppState, AppSlot, AppRun, Writing, slotVars
<1>6. CASE WritePayload("app") \/ WriteMsgHeader("app") \/ SetHeader("app")
           \/ SetHandler("app")
  <2>1. /\ \A u \in Callers \ {"app"} : pc'[u] = pc[u]
        /\ UNCHANGED <<flagVars, serial, rsp, ran, btFlags, owner>>
        /\ pc["app"] \in Writing /\ pc'["app"] \in Writing
    BY <1>6 DEF WritePayload, WriteMsgHeader, SetHeader, SetHandler, Goto,
                Typed, Writing
  <2>2. NoCmd' /\ Unlocked'
    BY <1>2, <2>1 DEF NoCmd, AppState, Unlocked, flagVars, Writing
  <2>3. AppSlot'
    BY <1>6 DEF WritePayload, WriteMsgHeader, SetHeader, SetHandler, Goto,
                Typed, AppState, AppSlot, Own
  <2>4. ran'["app"] = 0
    BY <2>1 DEF AppState, AppRun
  <2>5. handler'.by # "app" \/ pc'["app"] = "post"
    BY <1>6 DEF WritePayload, WriteMsgHeader, SetHeader, SetHandler, Goto,
                Typed, AppState, AppRun, Writing
  <2> QED
    BY <2>1, <2>2, <2>3, <2>4, <2>5 DEF AppState, AppRun, Writing
<1>7. CASE PostCommand("app")
  <2>1. /\ \A u \in Callers \ {"app"} : pc'[u] = pc[u]
        /\ UNCHANGED <<slotVars, serial, rsp, ran, btFlags, owner>>
        /\ pc["app"] = "post" /\ pc'["app"] = "pend" /\ Post("CMD")
    BY <1>7 DEF PostCommand, Goto, Typed
  <2>2. wants'["bt"] = {} /\ "CMD" \in flagsRdy'["bt"]
    BY <1>2, <2>1, PostStep, TaskFacts DEF BtWanted
  <2>3. Posted'
    BY <1>2, <2>1, <2>2
       DEF Posted, AppState, AppSlot, AppRun, Writing, NoCmd, Own, slotVars
  <2>4. Unlocked' /\ AppSlot'
    BY <2>1 DEF AppState, Unlocked, AppSlot, Own, slotVars
  <2> QED
    BY <2>1, <2>3, <2>4 DEF AppState, AppRun, Writing
<1>8. CASE PendResponse("app")
  <2>1. pc["app"] = "pend" /\ Served
    BY <1>3, <1>8 DEF PendResponse, Goto, AppState, AppRun
  <2>2. /\ pc'["app"] = "return" /\ flags' = flags \ {"RSP"}
        /\ \A u \in Callers \ {"app"} : pc'[u] = pc[u]
        /\ UNCHANGED <<slotVars, serial, rsp, ran, btFlags, owner>>
    BY <1>8, <2>1 DEF PendResponse, Goto, Typed, Served, PendTakes, PendBlocks
  <2>3. NoCmd' /\ Answered("app")' /\ handler'.by # "app"
    BY <2>1, <2>2 DEF Served, NoCmd, Answered, Own, slotVars
  <2>4. Unlocked' /\ AppSlot'
    BY <2>1, <2>2 DEF AppState, Unlocked, AppSlot, Own, slotVars
  <2> QED
    BY <2>2, <2>3, <2>4 DEF AppState, AppRun, Writing
<1>9. CASE ResumeResponse("app")
  BY <1>9 DEF ResumeResponse, Goto, AppState, AppRun
<1>10. CASE ReturnResponse("app")
  <2>1. /\ pc["app"] = "return" /\ pc'["app"] = "idle" /\ owner' = Nobody
        /\ \A u \in Callers \ {"app"} : pc'[u] = pc[u]
        /\ ran'["app"] = 0 /\ handler' = handler
    BY <1>4, <1>10 DEF ReturnResponse, Typed, slotVars
  <2>2. handler'.by # "app"
    BY <2>1 DEF AppState, AppRun
  <2> QED
    BY <2>1, <2>2 DEF AppState, Unlocked, AppSlot, AppRun, Writing
<1> QED
  BY <1>5, <1>6, <1>7, <1>8, <1>9, <1>10 DEF CallerStep

LEMMA BtCommandKeepsApp ==
  ASSUME Typed, Waits, Blocks, AppState, "app" \in Callers, BtCommand
  PROVE  AppState'
<1>1. /\ "CMD" \in btFlags /\ rsp' = Executed(msg.payload, header, handler)
      /\ handler' = NoCommand /\ btFlags' = btFlags \ {"CMD"}
      /\ ran'["app"] = IF handler.by = "app" /\ ran["app"] < 2
                       THEN ran["app"] + 1 ELSE ran["app"]
      /\ Post("RSP") /\ UNCHANGED <<msg, header, pc, serial, owner>>
  BY DEF BtCommand
<1>2. flags' = flags \cup {"RSP"} /\ handler'.by # "app"
  BY <1>1, PostStep, TaskFacts DEF NoCommand
<1>3. Unlocked'
  BY <1>1 DEF AppState, Unlocked
<1>4. ~NoCmd
  BY <1>1 DEF NoCmd
<1>5. CASE pc["app"] = "idle"
  <2>1. ran'["app"] = 0
    BY <1>1, <1>5 DEF AppState, AppRun
  <2> QED
    BY <1>1, <1>2, <1>3, <1>5, <2>1 DEF AppState, AppSlot, AppRun, Writing
<1>6. CASE pc["app"] = "pend"
  <2>1. Posted /\ "CMD" \notin flags
    BY <1>1, <1>4, <1>6 DEF AppState, AppRun, Served, Posted
  <2>2. NoCmd'
    BY <1>1, <1>2, <2>1 DEF NoCmd
  <2>3. ran'["app"] = 1
    <3>1. handler.by = "app" /\ ran["app"] = 0
      BY <2>1 DEF Posted, Own
    <3> QED
      BY <1>1, <3>1
  <2>4. rsp' = Executed(Own("app"), Own("app"), Own("app"))'
    BY <1>1, <1>6, <2>1 DEF AppState, AppSlot, Posted, Own, Executed
  <2>5. Served'
    BY <1>2, <2>2, <2>3, <2>4 DEF Served, Answered
  <2>6. AppSlot'
    BY <1>1, <1>6 DEF AppState, AppSlot, Own
  <2> QED
    BY <1>1, <1>3, <1>6, <2>5, <2>6 DEF AppState, AppRun, Writing
<1>7. pc["app"] \in {"idle", "pend"}
  <2>1. pc["app"] \in CallerPc /\ pc["app"] # "lock"
    BY DEF Typed, AppState, Unlocked
  <2> QED
    BY <1>4, <2>1 DEF AppState, AppRun, CallerPc, Writing
<1> QED
  BY <1>5, <1>6, <1>7

LEMMA AppNext == Typed /\ Waits /\ Blocks /\ AppInv /\ [Next]_vars => AppInv'
<1> SUFFICES ASSUME Typed, Waits, Blocks, AppInv, [Next]_vars,
                    "app" \in Callers, ~locked'
             PROVE  AppState'
  BY DEF AppInv, AppState
<1> USE TaskFacts
<1>1. ~locked /\ AppState
  BY DEF AppInv, AppState, Next, BtStep, AppStep, CallerStep, Begin,
         WritePayload, WriteMsgHeader, SetHeader, SetHandler, PostCommand,
         PendResponse, ResumeResponse, ReturnResponse, BtCommand, BtNoCommand,
         BtEvent, BtNoEvent, BtAgain, BtPend, BtResume, BtTimeout, AppPend,
         AppResume, AppHandled, BluetoothUpdate, vars
<1>2. ASSUME NEW t \in Callers, Begin(t) \/ CallerStep(t) PROVE AppState'
  <2>1. CASE t = "app"
    BY <1>1, <1>2, <2>1, AppKeepsApp
  <2>2. CASE t # "app"
    BY <1>1, <1>2, <2>2, OthersKeepApp
  <2> QED
    BY <2>1, <2>2
<1>3. CASE BtCommand
  BY <1>1, <1>3, BtCommandKeepsApp
<1>4. CASE BtNoCommand \/ BtNoEvent \/ BtAgain
  <2>1. /\ UNCHANGED <<pc, serial, slotVars, rsp, ran, owner, flagVars>>
        /\ "CMD" \in btFlags' <=> "CMD" \in btFlags
    BY <1>4 DEF BtNoCommand, BtNoEvent, BtAgain
  <2>2. (NoCmd => NoCmd') /\ (Posted => Posted')
    BY <2>1 DEF NoCmd, Posted, Own, flagVars, slotVars
  <2> QED
    BY <1>1, <2>1, <2>2, AppQuiet DEF flagVars
<1>5. CASE BtEvent
  <2>1. /\ UNCHANGED <<pc, serial, slotVars, rsp, ran, owner>>
        /\ "CMD" \in btFlags' <=> "CMD" \in btFlags
        /\ Post("EVTW") /\ "EVTW" \in Flag \ {"CMD"}
    BY <1>5 DEF BtEvent, Flag
  <2> QED
    BY <1>1, <2>1, PostKeepsApp
<1>6. CASE BtPend
  <2>1. /\ UNCHANGED <<pc, serial, slotVars, rsp, ran, owner>>
        /\ btPc = "sleep" /\ btFlags' \subseteq btFlags \cup flags
    BY <1>6 DEF BtPend, BtGoto
  <2>2. ~Posted
    BY <2>1 DEF Posted, Waits, Blocks
  <2>3. flags' \in {flags, flags \ BtWanted}
    BY <1>6 DEF BtPend, PendTakes, PendBlocks
  <2>4. NoCmd => NoCmd'
    BY <2>1, <2>3 DEF NoCmd
  <2>5. "RSP" \in flags => "RSP" \in flags'
    BY <2>3 DEF BtWanted
  <2> QED
    BY <1>1, <2>1, <2>2, <2>4, <2>5, AppQuiet
<1>7. CASE BtResume
  <2>1. /\ UNCHANGED <<pc, serial, slotVars, rsp, ran, owner, wants>>
        /\ btPc = "resume" /\ btFlags' = btFlags \cup flagsRdy["bt"]
        /\ flags' = flags \ flagsRdy["bt"] /\ flagsRdy["bt"] \subseteq flags
        /\ flagsRdy["bt"] \subseteq BtWanted
    BY <1>7 DEF BtResume, BtGoto, PendResumes, Waits
  <2>2. NoCmd => NoCmd'
    BY <2>1 DEF NoCmd
  <2>3. Posted => Posted'
    <3>1. "CMD" \notin btFlags
      BY <2>1 DEF Blocks
    <3> QED
      BY <2>1, <3>1 DEF Posted, Own, slotVars
  <2>4. "RSP" \in flags => "RSP" \in flags'
    BY <2>1 DEF BtWanted
  <2> QED
    BY <1>1, <2>1, <2>2, <2>3, <2>4, AppQuiet
<1>8. CASE BtTimeout
  <2>1. /\ UNCHANGED <<pc, serial, slotVars, rsp, ran, owner, flags>>
        /\ wants["bt"] # {} /\ btFlags' = btFlags \cup {"STACK"}
    BY <1>8 DEF BtTimeout
  <2>2. ~Posted /\ (NoCmd => NoCmd')
    BY <2>1 DEF Posted, NoCmd
  <2> QED
    BY <1>1, <2>1, <2>2, AppQuiet
<1>9. CASE AppPend \/ AppResume
  <2>1. {"EVTW"} \in SUBSET Flag /\ "appLoop" \in Tasks
    BY DEF Flag, Tasks
  <2>2. \/ PendTakes({"EVTW"}) \/ PendBlocks("appLoop", {"EVTW"})
        \/ PendResumes("appLoop")
    BY <1>9 DEF AppPend, AppResume
  <2>3. UNCHANGED <<pc, serial, slotVars, rsp, ran, owner, btFlags>>
    BY <1>9 DEF AppPend, AppResume
  <2>4. /\ wants'["bt"] = wants["bt"] /\ flagsRdy'["bt"] = flagsRdy["bt"]
        /\ flags' \in {flags, flags \ {"EVTW"}, flags \ flagsRdy["appLoop"]}
    BY <2>1, <2>2, PendStep
  <2>5. flagsRdy["appLoop"] \subseteq {"EVTW"}
    BY DEF Waits
  <2>6. (NoCmd => NoCmd') /\ ("RSP" \in flags => "RSP" \in flags')
        /\ ("CMD" \in flags' <=> "CMD" \in flags)
    BY <2>3, <2>4, <2>5 DEF NoCmd
  <2>7. Posted => Posted'
    BY <2>3, <2>4, <2>6 DEF Posted, Own, slotVars
  <2> QED
    BY <1>1, <2>3, <2>6, <2>7, AppQuiet
<1>10. CASE AppHandled \/ BluetoothUpdate
  <2>1. /\ UNCHANGED <<pc, serial, slotVars, rsp, ran, owner, btFlags>>
        /\ Post("EVTH") \/ Post("STACK")
    BY <1>10 DEF AppHandled, BluetoothUpdate
  <2>2. "EVTH" \in Flag \ {"CMD"} /\ "STACK" \in Flag \ {"CMD"}
    BY DEF Flag
  <2> QED
    BY <1>1, <2>1, <2>2, PostKeepsApp
<1>11. CASE UNCHANGED vars
  <2>1. UNCHANGED <<pc, serial, slotVars, rsp, ran, owner, flagVars, btFlags>>
    BY <1>11 DEF vars
  <2>2. (NoCmd => NoCmd') /\ (Posted => Posted')
    BY <2>1 DEF NoCmd, Posted, Own, flagVars, slotVars
  <2> QED
    BY <1>1, <2>1, <2>2, AppQuiet DEF flagVars
<1> QED
  BY <1>2, <1>3, <1>4, <1>5, <1>6, <1>7, <1>8, <1>9, <1>10, <1>11
     DEF Next, BtStep, AppStep

LEMMA AppInit == Init => Blocks /\ AppInv
<1> SUFFICES ASSUME Init PROVE Blocks /\ AppInv
  OBVIOUS
<1>1. wants["bt"] = {} /\ NoCommand.by # "app"
  BY TaskFacts, ConstantsAssumption DEF Init, NoCommand, AllCallers
<1> QED
  BY <1>1 DEF Init, Blocks, AppInv, Unlocked, AppSlot, AppRun, Writing

\* The application task reads the response to its own command, executed once
\* from its own payload, header and handler, although the firmware never takes
\* BluetoothMutex: for every set of less urgent callers in whatever state of
\* their commands, and for any number of events (BluetoothEventHandler,
\* sli_bt_cmd_handler_rtos_delegate, the priorities of rtos_bluetooth.c).
THEOREM AppCommandsAreOwn == Spec => []AppResponse
<1>1. Init => Typed /\ Waits /\ Blocks /\ AppInv
  BY TypedInit, WaitsInit, AppInit
<1>2. Typed /\ Waits /\ Blocks /\ AppInv /\ [Next]_vars
        => (Typed /\ Waits /\ Blocks /\ AppInv)'
  BY TypedNext, WaitsNext, BlocksNext, AppNext
<1>3. AppInv /\ LockInv => AppResponse
  <2> SUFFICES ASSUME AppInv, LockInv, "app" \in Callers, pc["app"] = "return"
               PROVE  Answered("app")
    BY DEF AppResponse, ResponseOf, Answered
  <2>1. CASE locked
    BY <2>1 DEF LockInv, RanOnce
  <2>2. CASE ~locked
    BY <2>2 DEF AppInv, AppRun
  <2> QED
    BY <2>1, <2>2
<1> QED
  BY <1>1, <1>2, <1>3, CommandsInvariant, PTL DEF Spec

=============================================================================
