--------------------------- MODULE UpgradeProofs ---------------------------
(***************************************************************************)
(* Upgrade for every set of images, every number of sessions and every     *)
(* number of faults: what is installed, what is reported, its types, and   *)
(* what the slot holds.                                                    *)
(***************************************************************************)
EXTENDS Upgrade, ListLemmas

\* Which steps can touch the slot, the record and the boot.
FlashIdle == UNCHANGED <<pc, flash, boot>>

LEMMA QuietSteps ==
  ASSUME Poll \/ RefuseUpgrade \/ HostStart \/ HostReceive \/ Lose \/ Corrupt
  PROVE  FlashIdle
BY DEF Poll, Transmit, Close, RefuseUpgrade, HostStart, HostReceive, Lose,
       Corrupt, FlashIdle, parse, flash, boot

-----------------------------------------------------------------------------
(* Only complete images are installed.                                     *)

\* Between verification and restart nothing writes the slot.
ImageInv == RunsWholeImage /\ (pc = "delay" => Verified)

LEMMA ImageNext == ImageInv /\ [Next]_vars => ImageInv'
<1> SUFFICES ASSUME ImageInv, [Next]_vars PROVE ImageInv'
  OBVIOUS
<1> USE DEF ImageInv, RunsWholeImage, Verified
<1>1. CASE UNCHANGED vars
  BY <1>1 DEF vars, parse, flash
<1>2. CASE Poll \/ RefuseUpgrade \/ HostStart \/ HostReceive \/ Lose \/ Corrupt
  BY <1>2, QuietSteps DEF FlashIdle, flash
<1>3. CASE Finish
  BY <1>3 DEF Finish
<1>4. CASE BeginUpgrade \/ Erase \/ AcceptUpgrade \/ Data \/ NextPiece \/ Mark
           \/ Reject
  <2>1. installed' = installed /\ pc' # "delay"
    BY <1>4 DEF BeginUpgrade, Erase, AcceptUpgrade, Data, NextPiece, Mark,
                Reject, flash
  <2> QED
    BY <2>1
<1>5. CASE RebootAndInstall
  BY <1>5 DEF RebootAndInstall, Reset
<1>6. CASE Crash
  BY <1>6 DEF Crash, Reset
<1>7. CASE Boot
  BY <1>7 DEF Boot, BootCheck, BootClear, BootNotify, parse, flash
<1> QED
  BY <1>1, <1>2, <1>3, <1>4, <1>5, <1>6, <1>7 DEF Next, Parse

\* The firmware that is installed is always one complete image: whatever is
\* lost, repeated or mixed on the line, whatever fails in the flash, and
\* whenever the device resets (upg_data_rsp, bootloader_rebootAndInstall).
THEOREM InstallsWholeImages == Spec => []RunsWholeImage
<1>1. Init => ImageInv
  BY DEF Init, ImageInv, RunsWholeImage
<1>2. ImageInv => RunsWholeImage
  BY DEF ImageInv
<1> QED
  BY <1>1, <1>2, ImageNext, PTL DEF Spec

-----------------------------------------------------------------------------
(* Success is reported only for an installation.                           *)

\* Flash record 1 can be cleared, and no other reset hits the second between
\* the record and the installation.
RecordHolds == {"clear", "crashDelay"} \cap Faults = {}

\* The record stands for an installation nobody has heard of yet, except in
\* the second before that installation.
RecordInv ==
  /\ record => unreported \/ pc = "delay"
  /\ pc # "idle" => bootPc = "up"
  /\ bootPc \in {"clear", "notify"} => unreported
  /\ bootPc = "notify" => ~record
  /\ bootPc = "up" /\ record => pc = "delay"

LEMMA RecordNext == RecordHolds /\ RecordInv /\ [Next]_vars => RecordInv'
<1> SUFFICES ASSUME RecordHolds, RecordInv, [Next]_vars PROVE RecordInv'
  OBVIOUS
<1> USE DEF RecordInv, RecordHolds, Fault
<1>1. CASE UNCHANGED vars
  BY <1>1 DEF vars, parse, flash, boot
<1>2. CASE Poll \/ RefuseUpgrade \/ HostStart \/ HostReceive \/ Lose \/ Corrupt
  BY <1>2, QuietSteps DEF FlashIdle, flash, boot
<1>3. CASE BeginUpgrade \/ Data
  BY <1>3 DEF BeginUpgrade, Data, Arrived, flash, boot
<1>4. CASE Erase \/ AcceptUpgrade \/ NextPiece \/ Mark \/ Reject
  BY <1>4 DEF Erase, AcceptUpgrade, NextPiece, Mark, Reject, flash, boot
<1>5. CASE Finish
  BY <1>5 DEF Finish, boot
<1>6. CASE RebootAndInstall
  BY <1>6 DEF RebootAndInstall, Reset
<1>7. CASE Crash
  BY <1>7 DEF Crash, Reset
<1>8. CASE Boot
  BY <1>8 DEF Boot, BootCheck, BootClear, BootNotify, parse, flash
<1> QED
  BY <1>1, <1>2, <1>3, <1>4, <1>5, <1>6, <1>7, <1>8 DEF Next, Parse

\* The boot reports success exactly once for each installation and never for
\* none, for every host and line and every reset outside that second: the
\* run upg_delay shows that a reset inside it cannot be allowed
\* (App_Main_Task, upg_data_rsp).
THEOREM ReportsOnlyInstallations ==
  RecordHolds => (Spec => ReportsInstallation)
<1> SUFFICES ASSUME RecordHolds PROVE Spec => ReportsInstallation
  OBVIOUS
<1>1. Init => RecordInv
  BY DEF Init, RecordInv
<1>2. RecordInv /\ [Next]_vars => RecordInv'
  BY RecordNext
<1>3. RecordInv => [BootNotify => unreported]_vars
  BY DEF RecordInv, BootNotify
<1> QED
  BY <1>1, <1>2, <1>3, PTL DEF Spec, ReportsInstallation

-----------------------------------------------------------------------------
(* Type correctness.                                                       *)

Sn == 0 .. SnMod - 1

Pieces == [type : {"RSP"}, sn : Sn, off : 0 .. Limit, img : Image,
           len : 0 .. PageLen, intact : BOOLEAN]
DevFrame == [type : {"UPG"}, img : Image] \cup Pieces
HostFrame == [type : {"ASK"}] \cup [type : {"NTF"}, done : {0, 1}]
               \cup [type : {"REQ"}, sn : Sn, off : 0 .. Limit]

\* The requests on the transmit path.
RequestsOK ==
  /\ sn \in Sn /\ Open \subseteq Sn /\ Cardinality(Open) <= PoolSize
  /\ DOMAIN tries = Open /\ answered \subseteq Open
  /\ \A s \in Open : asked[s] \in 0 .. Limit /\ tries[s] \in 0 .. MaxTimes

\* The frames on the line.
LineOK == toDev \in Seq(DevFrame) /\ toHost \in Seq(HostFrame)

\* The memory of the device.
DeviceOK ==
  /\ fwLen \in 0 .. Limit /\ offset \in 0 .. Reach /\ pageLen \in {0, PageLen}
  /\ pc \in {"idle", "init", "erased", "next", "mark", "delay"}
  /\ answerTo \in Sn
  /\ slot \in Seq(Units) /\ installed \in Seq(Units)
  /\ record \in BOOLEAN /\ unreported \in BOOLEAN
  /\ bootPc \in {"check", "clear", "notify", "up"}

\* The host, which offers an image when it does anything at all.
HostOK ==
  /\ hostPc \in {"idle", "asking", "serving", "done", "failed"}
  /\ offer \in Image \cup {NoImage} /\ (hostPc # "idle" => offer \in Image)
  /\ sessions \in 0 .. Sessions /\ faults \in 0 .. MaxFaults

TypeInv == RequestsOK /\ LineOK /\ DeviceOK /\ HostOK

LEMMA TypeInvOK == TypeInv => TypeOK
BY DEF TypeInv, RequestsOK, DeviceOK, HostOK, TypeOK, Sn

LEMMA FaultBudget ==
  ASSUME faults \in 0 .. MaxFaults, NEW k, Fault(k) \/ UNCHANGED faults
  PROVE  faults' \in 0 .. MaxFaults
BY UpgradeAssumption DEF Fault

LEMMA FiniteOpen == RequestsOK => IsFiniteSet(Open) /\ Cardinality(Open) \in Nat
<1> SUFFICES ASSUME RequestsOK
             PROVE  IsFiniteSet(Open) /\ Cardinality(Open) \in Nat
  OBVIOUS
<1>1. IsFiniteSet(Sn)
  BY FS_Interval, UpgradeAssumption DEF Sn
<1> QED
  BY <1>1, FS_Subset, FS_CardinalityType DEF RequestsOK

\* A handler never gets more buffers than there are.
LEMMA GetsRoom ==
  ASSUME RequestsOK, faults \in 0 .. MaxFaults,
         NEW k \in Nat, NEW n \in Nat, Gets(n, k)
  PROVE  n <= PoolSize - Cardinality(Open) /\ faults' \in 0 .. MaxFaults
BY FiniteOpen, UpgradeAssumption DEF Gets, Fault, RequestsOK

LEMMA TypeRequest ==
  ASSUME RequestsOK, NEW off \in 0 .. Limit, NEW granted \in BOOLEAN,
         Request(off, granted), granted => Cardinality(Open) < PoolSize,
         answered' = answered
  PROVE  RequestsOK'
<1>1. CASE ~granted
  BY <1>1 DEF Request, RequestsOK, Open
<1>2. CASE granted
  <2>1. /\ asked' = With(asked, sn, off) /\ tries' = With(tries, sn, 0)
        /\ sn' = (sn + 1) % SnMod
    BY <1>2 DEF Request
  <2>2. Open' = Open \cup {sn} /\ DOMAIN tries' = Open \cup {sn}
    BY <2>1 DEF Open, With, RequestsOK
  <2>3. \A s \in Open \cup {sn} : asked'[s] \in 0 .. Limit
                                  /\ tries'[s] \in 0 .. MaxTimes
    BY <2>1, UpgradeAssumption DEF Open, With, RequestsOK
  <2>4. Cardinality(Open \cup {sn}) <= Cardinality(Open) + 1
    <3> DEFINE more == Open \cup {sn}
    <3>1. IsFiniteSet(Open) /\ Cardinality(Open) \in Nat
      BY FiniteOpen
    <3>2. sn \in Open => more = Open
      OBVIOUS
    <3>3. sn \notin Open => Cardinality(more) = Cardinality(Open) + 1
      BY <3>1, FS_AddElement
    <3> HIDE DEF more
    <3>4. Cardinality(more) <= Cardinality(Open) + 1
      BY <3>1, <3>2, <3>3
    <3> QED
      BY <3>4 DEF more
  <2>5. sn' \in Sn /\ sn \in Sn
    BY <2>1, UpgradeAssumption DEF RequestsOK, Sn
  <2>6. Cardinality(Open \cup {sn}) <= PoolSize
    <3>1. /\ IsFiniteSet(Open \cup {sn}) /\ Cardinality(Open) \in Nat
      BY FiniteOpen, FS_AddElement
    <3>2. Cardinality(Open \cup {sn}) \in Nat
      BY <3>1, FS_CardinalityType
    <3> QED
      BY <1>2, <2>4, <3>1, <3>2, UpgradeAssumption
  <2> QED
    BY <2>2, <2>3, <2>5, <2>6 DEF RequestsOK
<1> QED
  BY <1>1, <1>2

LEMMA TypePoll == TypeInv /\ Poll => TypeInv'
<1> SUFFICES ASSUME TypeInv, NEW s \in Open, Transmit(s) \/ Close(s)
             PROVE  TypeInv'
  BY DEF Poll
<1>1. CASE Transmit(s)
  <2>1. /\ tries[s] < MaxTimes /\ tries' = [tries EXCEPT ![s] = @ + 1]
        /\ toHost' = Append(toHost,
                            [type |-> "REQ", sn |-> s, off |-> asked[s]])
        /\ UNCHANGED <<iap, parse, sn, asked, answered, flash, boot, toDev,
                       host>>
    BY <1>1 DEF Transmit
  <2>2. faults' \in 0 .. MaxFaults
    <3>1. Fault("late") \/ UNCHANGED faults
      BY <1>1 DEF Transmit, TimedOut
    <3> QED
      BY <3>1, FaultBudget DEF TypeInv, HostOK
  <2>3. RequestsOK'
    BY <2>1, UpgradeAssumption DEF TypeInv, RequestsOK, Open
  <2>4. [type |-> "REQ", sn |-> s, off |-> asked[s]] \in HostFrame
    BY DEF TypeInv, RequestsOK, HostFrame
  <2>5. LineOK'
    BY <2>1, <2>4 DEF TypeInv, LineOK
  <2> QED
    BY <2>1, <2>2, <2>3, <2>5
       DEF TypeInv, DeviceOK, HostOK, iap, parse, flash, boot, host
<1>2. CASE Close(s)
  <2>1. /\ asked' = Without(asked, {s}) /\ tries' = Without(tries, {s})
        /\ answered' = answered \ {s}
        /\ UNCHANGED <<iap, parse, sn, flash, boot, toDev, toHost, host>>
    BY <1>2 DEF Close
  <2>2. faults' \in 0 .. MaxFaults
    <3>1. Fault("late") \/ UNCHANGED faults
      BY <1>2 DEF Close, TimedOut
    <3> QED
      BY <3>1, FaultBudget DEF TypeInv, HostOK
  <2>3. RequestsOK'
    <3>1. Open' = Open \ {s} /\ DOMAIN tries' = Open \ {s}
      BY <2>1 DEF Open, Without, TypeInv, RequestsOK
    <3>2. \A x \in Open \ {s} : asked'[x] \in 0 .. Limit
                                /\ tries'[x] \in 0 .. MaxTimes
      BY <2>1 DEF Open, Without, TypeInv, RequestsOK
    <3>3. Cardinality(Open \ {s}) <= PoolSize
      <4>1. /\ IsFiniteSet(Open) /\ Open \ {s} \subseteq Open
        BY FiniteOpen DEF TypeInv
      <4>2. /\ Cardinality(Open \ {s}) <= Cardinality(Open)
            /\ Cardinality(Open \ {s}) \in Nat /\ Cardinality(Open) \in Nat
        BY <4>1, FS_Subset, FS_CardinalityType
      <4> QED
        BY <4>2, UpgradeAssumption DEF TypeInv, RequestsOK
    <3> QED
      BY <2>1, <3>1, <3>2, <3>3 DEF TypeInv, RequestsOK
  <2> QED
    BY <2>1, <2>2, <2>3
       DEF TypeInv, LineOK, DeviceOK, HostOK, iap, parse, flash, boot, host
<1> QED
  BY <1>1, <1>2

LEMMA PartSeq ==
  ASSUME NEW i \in Image, NEW from \in 0 .. Limit, NEW len \in 0 .. PageLen
  PROVE  /\ Part(i, from, from + len) \in Seq(Units)
         /\ Len(Part(i, from, from + len)) = len
         /\ \A n \in 1 .. len : Part(i, from, from + len)[n] = <<i, from + n>>
<1>1. (from + len) - from = len /\ len \in Nat
  BY UpgradeAssumption
<1>2. Part(i, from, from + len) = [n \in 1 .. len |-> <<i, from + n>>]
  BY <1>1 DEF Part
<1>3. \A n \in 1 .. len : from + n \in 1 .. Reach
  BY UpgradeAssumption DEF Reach
<1>4. \A n \in 1 .. len : <<i, from + n>> \in Units
  BY <1>3 DEF Units
<1> DEFINE f == [n \in 1 .. len |-> <<i, from + n>>]
<1>5. f \in Seq(Units) /\ Len(f) = len
  <2> DEFINE g(n) == <<i, from + n>>
  <2>1. \A n \in 1 .. len : g(n) \in Units
    BY <1>4
  <2> HIDE DEF g
  <2>2. [n \in 1 .. len |-> g(n)] \in Seq(Units)
        /\ Len([n \in 1 .. len |-> g(n)]) = len
    BY <1>1, <2>1
  <2> QED
    BY <2>2 DEF g
<1>6. \A n \in 1 .. len : f[n] = <<i, from + n>>
  OBVIOUS
<1> HIDE DEF f
<1> QED
  BY <1>2, <1>5, <1>6 DEF f

LEMMA FrameType ==
  ASSUME LineOK, toDev # <<>>
  PROVE  /\ Frame \in DevFrame /\ Tail(toDev) \in Seq(DevFrame)
         /\ Frame.type = "UPG" => Frame.img \in Image
         /\ Frame.type = "RSP" => Frame \in Pieces
BY DEF LineOK, Frame, DevFrame, Pieces

LEMMA TypeData == TypeInv /\ Data => TypeInv'
<1> SUFFICES ASSUME TypeInv, Data PROVE TypeInv'
  OBVIOUS
<1>1. /\ Frame \in Pieces /\ toDev' \in Seq(DevFrame) /\ pc' = "next"
      /\ answerTo' = Frame.sn
      /\ UNCHANGED <<fwLen, pageLen, requests, record, installed, boot, toHost,
                     host>>
  BY FrameType DEF Data, Arrived, Consume, TypeInv
<1>2. /\ Frame.sn \in Sn /\ Frame.off \in 0 .. Limit /\ Frame.img \in Image
      /\ Frame.len \in 0 .. PageLen
  BY <1>1 DEF Pieces
<1>3. faults' \in 0 .. MaxFaults
  <2>1. Fault("flash") \/ UNCHANGED faults
    BY DEF Data, Store
  <2> QED
    BY <2>1, FaultBudget DEF TypeInv, HostOK
<1>4. slot' \in Seq(Units) /\ offset' \in 0 .. Reach
  <2>1. CASE /\ Fits
             /\ slot' = slot \o Part(Frame.img, Frame.off,
                                     Frame.off + Frame.len)
             /\ offset' = offset + Frame.len
    <3>1. Part(Frame.img, Frame.off, Frame.off + Frame.len) \in Seq(Units)
      BY <1>2, PartSeq
    <3>2. offset' \in 0 .. Reach
      BY <1>2, <2>1, UpgradeAssumption DEF Fits, Reach
    <3> QED
      BY <2>1, <3>1, <3>2, ConcatProperties DEF TypeInv, DeviceOK
  <2>2. CASE UNCHANGED <<slot, offset>>
    BY <2>2 DEF TypeInv, DeviceOK
  <2> QED
    BY <2>1, <2>2 DEF Data, Store
<1>5. RequestsOK' /\ LineOK'
  BY <1>1 DEF TypeInv, RequestsOK, LineOK, Open, requests
<1>6. DeviceOK' /\ HostOK'
  BY <1>1, <1>2, <1>3, <1>4 DEF TypeInv, DeviceOK, HostOK, boot, host
<1> QED
  BY <1>5, <1>6 DEF TypeInv

LEMMA TypeParse == TypeInv /\ Parse => TypeInv'
<1> SUFFICES ASSUME TypeInv, Parse PROVE TypeInv'
  OBVIOUS
<1>1. CASE RefuseUpgrade \/ BeginUpgrade
  <2>1. /\ Frame.img \in Image /\ toDev' \in Seq(DevFrame)
        /\ UNCHANGED <<offset, pageLen, answerTo, requests, flash, boot, toHost,
                       host, faults>>
        /\ pc' \in {pc, "init"}
        /\ fwLen' = 0 \/ (fwLen' = Size[Frame.img] /\ Size[Frame.img] <= Limit)
    BY <1>1, FrameType DEF RefuseUpgrade, BeginUpgrade, Arrived, Consume,
                           TypeInv, parse
  <2>2. fwLen' \in 0 .. Limit
    BY <2>1, UpgradeAssumption
  <2> QED
    BY <2>1, <2>2 DEF TypeInv, RequestsOK, Open, LineOK, DeviceOK, HostOK,
                      requests, flash, boot, host
<1>2. CASE Erase
  <2>1. /\ UNCHANGED <<iap, answerTo, requests, record, installed, boot,
                       toDev, toHost, host>>
        /\ slot' = <<>> \/ slot' = slot
        /\ pc' \in {"erased", "idle"}
    BY <1>2 DEF Erase, Empty
  <2>2. faults' \in 0 .. MaxFaults
    <3>1. Fault("flash") \/ UNCHANGED faults
      BY <1>2 DEF Erase
    <3> QED
      BY <3>1, FaultBudget DEF TypeInv, HostOK
  <2>3. slot' \in Seq(Units)
    <3>1. slot \in Seq(Units) /\ <<>> \in Seq(Units)
      BY DEF TypeInv, DeviceOK
    <3> QED
      BY <2>1, <3>1
  <2> QED
    BY <2>1, <2>2, <2>3 DEF TypeInv, RequestsOK, Open, LineOK, DeviceOK, HostOK,
                            iap, requests, boot, host
<1>3. CASE AcceptUpgrade
  <2>1. PICK n \in 0 .. 2 :
          /\ Gets(n, 2)
          /\ toHost' = IF n = 0 THEN toHost
                       ELSE Append(toHost, [type |-> "ASK"])
          /\ Request(0, n = 2)
    BY <1>3 DEF AcceptUpgrade
  <2>2. /\ n \in Nat /\ n <= PoolSize - Cardinality(Open)
        /\ faults' \in 0 .. MaxFaults
    BY <2>1, GetsRoom DEF TypeInv, HostOK
  <2>3. /\ offset' = 0 /\ pageLen' = PageLen /\ pc' = "idle"
        /\ UNCHANGED <<fwLen, answerTo, answered, flash, boot, toDev, host>>
    BY <1>3 DEF AcceptUpgrade
  <2>4. RequestsOK'
    <3>1. n = 2 => Cardinality(Open) < PoolSize
      BY <2>2, FiniteOpen, UpgradeAssumption DEF TypeInv
    <3>2. 0 \in 0 .. Limit /\ (n = 2) \in BOOLEAN /\ answered' = answered
      BY <2>3, UpgradeAssumption
    <3> QED
      BY <2>1, <3>1, <3>2, TypeRequest DEF TypeInv
  <2>5. LineOK'
    <3>1. [type |-> "ASK"] \in HostFrame
      BY DEF HostFrame
    <3> QED
      BY <2>1, <2>3, <3>1 DEF TypeInv, LineOK
  <2>6. DeviceOK' /\ HostOK'
    BY <2>2, <2>3, UpgradeAssumption
       DEF TypeInv, DeviceOK, HostOK, Reach, flash, boot, host
  <2> QED
    BY <2>4, <2>5, <2>6 DEF TypeInv
<1>4. CASE Data
  BY <1>4, TypeData
<1>5. CASE NextPiece
  <2>1. PICK n \in 0 .. 1 : Gets(n, 1) /\ Request(offset, n = 1)
    BY <1>5 DEF NextPiece
  <2>2. /\ n \in Nat /\ n <= PoolSize - Cardinality(Open)
        /\ faults' \in 0 .. MaxFaults
    BY <2>1, GetsRoom DEF TypeInv, HostOK
  <2>3. /\ pc' = "mark" /\ offset < fwLen
        /\ UNCHANGED <<iap, answerTo, answered, flash, boot, toDev, toHost,
                       host>>
    BY <1>5 DEF NextPiece
  <2>4. RequestsOK'
    <3>1. n = 1 => Cardinality(Open) < PoolSize
      BY <2>2, FiniteOpen, UpgradeAssumption DEF TypeInv
    <3>2. offset \in 0 .. Limit /\ (n = 1) \in BOOLEAN /\ answered' = answered
      BY <2>3, UpgradeAssumption DEF TypeInv, DeviceOK, Reach
    <3> QED
      BY <2>1, <3>1, <3>2, TypeRequest DEF TypeInv
  <2> QED
    BY <2>2, <2>3, <2>4 DEF TypeInv, LineOK, DeviceOK, HostOK, iap, flash, boot,
                            host
<1>6. CASE Mark
  <2>1. answered' \subseteq Open
    BY <1>6 DEF Mark, TypeInv, RequestsOK
  <2> QED
    BY <1>6, <2>1 DEF Mark, TypeInv, RequestsOK, Open, LineOK, DeviceOK, HostOK,
                      iap, flash, boot, host
<1>7. CASE Finish
  <2>1. /\ record' \in BOOLEAN /\ pc' = "delay"
        /\ UNCHANGED <<iap, answerTo, requests, slot, installed, boot, toDev,
                       toHost, host>>
    BY <1>7 DEF Finish, TypeInv, DeviceOK
  <2>2. faults' \in 0 .. MaxFaults
    <3>1. Fault("mark") \/ UNCHANGED faults
      BY <1>7 DEF Finish
    <3> QED
      BY <3>1, FaultBudget DEF TypeInv, HostOK
  <2> QED
    BY <2>1, <2>2 DEF TypeInv, RequestsOK, Open, LineOK, DeviceOK, HostOK,
                      iap, requests, boot, host
<1>8. CASE Reject
  <2>1. PICK n \in 0 .. 1 :
          /\ Gets(n, 1)
          /\ toHost' = IF n = 0 THEN toHost
                       ELSE Append(toHost, [type |-> "NTF", done |-> 1])
    BY <1>8 DEF Reject
  <2>2. n \in Nat /\ faults' \in 0 .. MaxFaults
    BY <2>1, GetsRoom DEF TypeInv, HostOK
  <2>3. /\ pc' = "mark"
        /\ UNCHANGED <<iap, answerTo, requests, flash, boot, toDev, host>>
    BY <1>8 DEF Reject
  <2>4. [type |-> "NTF", done |-> 1] \in HostFrame
    BY DEF HostFrame
  <2>5. LineOK'
    BY <2>1, <2>3, <2>4 DEF TypeInv, LineOK
  <2> QED
    BY <2>2, <2>3, <2>5 DEF TypeInv, RequestsOK, Open, DeviceOK, HostOK,
                            iap, requests, flash, boot, host
<1> QED
  BY <1>1, <1>2, <1>3, <1>4, <1>5, <1>6, <1>7, <1>8 DEF Parse

LEMMA TypeReset == TypeInv /\ Reset => RequestsOK' /\ LineOK'
<1> SUFFICES ASSUME TypeInv, Reset PROVE RequestsOK' /\ LineOK'
  OBVIOUS
<1>1. RequestsOK'
  <2>1. asked' = <<>> /\ tries' = <<>> /\ answered' = {} /\ sn' = 0
    BY DEF Reset
  <2>2. Open' = {} /\ DOMAIN tries' = {}
    BY <2>1 DEF Open
  <2>3. Cardinality({}) = 0 /\ 0 \in Sn
    BY FS_EmptySet, UpgradeAssumption DEF Sn
  <2> QED
    BY <2>1, <2>2, <2>3, UpgradeAssumption DEF RequestsOK
<1>2. LineOK'
  <2>1. PICK n \in 0 .. Len(toDev) : toDev' = SubSeq(toDev, n + 1, Len(toDev))
    BY DEF Reset
  <2>2. PICK m \in 0 .. Len(toHost) : toHost' = SubSeq(toHost, 1, m)
    BY DEF Reset
  <2> QED
    BY <2>1, <2>2, SuffixType, PrefixType DEF TypeInv, LineOK
<1> QED
  BY <1>1, <1>2

LEMMA TypeRestart == TypeInv /\ (RebootAndInstall \/ Crash) => TypeInv'
<1> SUFFICES ASSUME TypeInv, RebootAndInstall \/ Crash PROVE TypeInv'
  OBVIOUS
<1>1. Reset
  BY DEF RebootAndInstall, Crash
<1>2. faults' \in 0 .. MaxFaults
  <2>1. Fault("crash") \/ Fault("crashDelay") \/ UNCHANGED faults
    BY DEF RebootAndInstall, Crash
  <2> QED
    BY <2>1, FaultBudget DEF TypeInv, HostOK
<1>3. DeviceOK'
  <2>1. installed' \in {slot, installed} /\ unreported' \in {TRUE, unreported}
    BY DEF RebootAndInstall, Crash
  <2>2. installed' \in Seq(Units) /\ unreported' \in BOOLEAN
    BY <2>1 DEF TypeInv, DeviceOK
  <2>3. 0 \in Sn /\ 0 \in 0 .. Limit /\ 0 \in 0 .. Reach
    BY UpgradeAssumption DEF Sn, Reach
  <2>4. /\ fwLen' = 0 /\ offset' = 0 /\ pageLen' = 0 /\ pc' = "idle"
        /\ answerTo' = 0 /\ bootPc' = "check" /\ slot' = slot
        /\ record' = record
    BY <1>1 DEF Reset
  <2> QED
    BY <2>2, <2>3, <2>4 DEF TypeInv, DeviceOK
<1> QED
  BY <1>1, <1>2, <1>3, TypeReset DEF Reset, TypeInv, HostOK, host

LEMMA TypeBoot == TypeInv /\ Boot => TypeInv'
<1> SUFFICES ASSUME TypeInv, Boot PROVE TypeInv'
  OBVIOUS
<1>1. UNCHANGED <<iap, parse, requests, slot, installed, toDev, host>>
  BY DEF Boot, BootCheck, BootClear, BootNotify, flash
<1>2. /\ record' \in BOOLEAN /\ unreported' \in BOOLEAN
      /\ bootPc' \in {"check", "clear", "notify", "up"}
  BY DEF Boot, BootCheck, BootClear, BootNotify, flash, TypeInv, DeviceOK
<1>3. faults' \in 0 .. MaxFaults
  <2>1. Fault("clear") \/ UNCHANGED faults
    BY DEF Boot, BootCheck, BootClear, BootNotify
  <2> QED
    BY <2>1, FaultBudget DEF TypeInv, HostOK
<1>4. LineOK'
  <2>1. [type |-> "NTF", done |-> 0] \in HostFrame
    BY DEF HostFrame
  <2>2. \/ toHost' = toHost
        \/ toHost' = Append(toHost, [type |-> "NTF", done |-> 0])
    BY DEF Boot, BootCheck, BootClear, BootNotify
  <2> QED
    BY <1>1, <2>1, <2>2 DEF TypeInv, LineOK
<1> QED
  BY <1>1, <1>2, <1>3, <1>4 DEF TypeInv, RequestsOK, Open, DeviceOK, HostOK,
                                iap, parse, requests, host

LEMMA TypeHost == TypeInv /\ (HostStart \/ HostReceive) => TypeInv'
<1> SUFFICES ASSUME TypeInv, HostStart \/ HostReceive PROVE TypeInv'
  OBVIOUS
<1>1. CASE HostStart
  <2>1. [type |-> "UPG", img |-> offer'] \in DevFrame
    BY <1>1 DEF HostStart, DevFrame
  <2>2. LineOK'
    BY <1>1, <2>1 DEF HostStart, TypeInv, LineOK
  <2>3. HostOK'
    BY <1>1, UpgradeAssumption DEF HostStart, TypeInv, HostOK
  <2> QED
    BY <1>1, <2>2, <2>3 DEF HostStart, TypeInv, RequestsOK, Open, DeviceOK,
                            iap, parse, requests, flash, boot
<1>2. CASE HostReceive
  <2> DEFINE f == Head(toHost)
  <2>1. f \in HostFrame /\ toHost' \in Seq(HostFrame)
    BY <1>2 DEF HostReceive, TypeInv, LineOK
  <2>2. ASSUME f.type = "REQ", hostPc = "serving" PROVE Answer(f) \in DevFrame
    <3>1. f.sn \in Sn /\ f.off \in 0 .. Limit /\ offer \in Image
      BY <2>1, <2>2 DEF HostFrame, TypeInv, HostOK
    <3>2. Piece(f.off) \in 0 .. PageLen
      BY <3>1, UpgradeAssumption DEF Piece
    <3> HIDE DEF f
    <3> QED
      BY <3>1, <3>2 DEF Answer, DevFrame, Pieces
  <2>3. toDev' \in Seq(DevFrame)
    BY <1>2, <2>2, SMTT(30) DEF HostReceive, TypeInv, LineOK
  <2>4. /\ hostPc' \in {"idle", "asking", "serving", "done", "failed"}
        /\ hostPc' # "idle" => hostPc # "idle"
        /\ UNCHANGED <<iap, parse, requests, flash, boot, offer, sessions,
                       faults>>
    BY <1>2 DEF HostReceive, TypeInv, HostOK
  <2> QED
    BY <2>1, <2>3, <2>4 DEF TypeInv, LineOK, RequestsOK, Open, DeviceOK, HostOK,
                            iap, parse, requests, flash, boot
<1> QED
  BY <1>1, <1>2

LEMMA TypeLine == TypeInv /\ (Lose \/ Corrupt) => TypeInv'
<1> SUFFICES ASSUME TypeInv, Lose \/ Corrupt PROVE TypeInv'
  OBVIOUS
<1>1. UNCHANGED <<iap, parse, requests, flash, boot, host>>
  BY DEF Lose, Corrupt
<1>2. faults' \in 0 .. MaxFaults
  <2>1. Fault("lose") \/ Fault("corrupt")
    BY DEF Lose, Corrupt
  <2> QED
    BY <2>1, FaultBudget DEF TypeInv, HostOK
<1>3. LineOK'
  <2>1. CASE Lose
    <3>1. CASE toDev # <<>> /\ toDev' = Tail(toDev) /\ UNCHANGED toHost
      BY <3>1 DEF TypeInv, LineOK
    <3>2. CASE toHost # <<>> /\ toHost' = Tail(toHost) /\ UNCHANGED toDev
      BY <3>2 DEF TypeInv, LineOK
    <3> QED
      BY <2>1, <3>1, <3>2 DEF Lose
  <2>2. CASE Corrupt
    <3>1. /\ toDev # <<>> /\ Frame \in Pieces /\ toHost' = toHost
          /\ toDev' = [toDev EXCEPT ![1] = [Frame EXCEPT !.intact = FALSE]]
      BY <2>2, FrameType DEF Corrupt, Frame, TypeInv
    <3>2. [Frame EXCEPT !.intact = FALSE] \in DevFrame
      BY <3>1 DEF Pieces, DevFrame
    <3> QED
      BY <3>1, <3>2 DEF TypeInv, LineOK
  <2> QED
    BY <2>1, <2>2
<1> QED
  BY <1>1, <1>2, <1>3 DEF TypeInv, RequestsOK, Open, DeviceOK, HostOK,
                          iap, parse, requests, flash, boot, host

LEMMA TypeNext == TypeInv /\ [Next]_vars => TypeInv'
<1> SUFFICES ASSUME TypeInv, [Next]_vars PROVE TypeInv'
  OBVIOUS
<1>1. CASE UNCHANGED vars
  BY <1>1 DEF vars, TypeInv, RequestsOK, Open, LineOK, DeviceOK, HostOK,
              iap, parse, requests, flash, boot, host
<1> QED
  BY <1>1, TypePoll, TypeParse, TypeRestart, TypeBoot, TypeHost, TypeLine
     DEF Next

LEMMA TypeInit == Init => TypeInv
<1> SUFFICES ASSUME Init PROVE TypeInv
  OBVIOUS
<1>1. Open = {} /\ DOMAIN tries = {} /\ Cardinality({}) = 0
  BY FS_EmptySet DEF Init, Open
<1>2. RequestsOK
  BY <1>1, UpgradeAssumption DEF Init, RequestsOK, Sn
<1>3. LineOK
  <2>1. <<>> \in Seq(DevFrame) /\ <<>> \in Seq(HostFrame)
    OBVIOUS
  <2> QED
    BY <2>1 DEF Init, LineOK
<1>4. DeviceOK
  <2>1. 0 \in Sn /\ 0 \in 0 .. Limit /\ 0 \in 0 .. Reach
    BY UpgradeAssumption DEF Sn, Reach
  <2>2. <<>> \in Seq(Units)
    OBVIOUS
  <2> QED
    BY <2>1, <2>2 DEF Init, DeviceOK, Empty
<1>5. HostOK
  BY UpgradeAssumption DEF Init, HostOK
<1> QED
  BY <1>2, <1>3, <1>4, <1>5 DEF TypeInv

LEMMA TypeInvariant == Spec => []TypeInv
BY TypeInit, TypeNext, PTL DEF Spec

\* The types of Upgrade, for all images, sessions and faults: in particular
\* no more buffers are taken than the pool has, a mark never outlives its
\* request (uart_protocol_parse, App_Uart_Poll_Task), and the offset passes
\* the limit of upg_request_rsp by less than a page.
THEOREM TypeCorrect == Spec => []TypeOK
BY TypeInvariant, TypeInvOK, PTL

-----------------------------------------------------------------------------
(* The slot holds the beginning of one image.                              *)

\* The offset is how much of the image is stored, once a transfer has begun.
FillInv ==
  /\ pc = "erased" => slot = Empty
  /\ pageLen > 0 /\ pc # "erased" => offset = Len(slot)

\* The frames of a session that serves image x: its begin, and pieces that
\* reach no further than the image.
Begins == [type : {"UPG"}, img : Image]
PiecesOf(x) ==
  {f \in Pieces : f.img = x /\ (f.len > 0 => f.off + f.len <= Size[x])}

SlotOf(x) ==
  Len(slot) <= Size[x] /\ \A n \in 1 .. Len(slot) : slot[n] = <<x, n>>

\* At most one acceptance is on its way to the host, or none at all.
NoAsk == toHost \in Seq(HostFrame \ {[type |-> "ASK"]})
OneAsk == \A m, n \in 1 .. Len(toHost) :
            toHost[m].type = "ASK" /\ toHost[n].type = "ASK" => m = n

Working == pc \in {"init", "erased"}

NotBegun ==
  hostPc = "idle" /\ toDev = <<>> /\ NoAsk /\ slot = <<>> /\ ~Working

\* The first session until the host hears of its acceptance: its begin, the
\* handler at work on it and its acceptance exclude each other.
FirstAsked ==
  /\ hostPc = "asking" /\ slot = <<>>
  /\ \/ Len(toDev) = 1 /\ toDev \in Seq(Begins) /\ ~Working /\ NoAsk
     \/ toDev = <<>> /\ Working /\ NoAsk
     \/ toDev = <<>> /\ ~Working /\ OneAsk

\* The first session from then on.
FirstServed ==
  /\ hostPc \notin {"idle", "asking"}
  /\ toDev \in Seq(PiecesOf(offer)) /\ SlotOf(offer)
  /\ ~Working /\ NoAsk

\* The second session, when the slot and the line are free of the first.
SecondAlone ==
  /\ hostPc # "idle"
  /\ toDev \in Seq(Begins \cup PiecesOf(offer)) /\ SlotOf(offer)

\* The second session, when the transfer of the first goes on behind its back:
\* the host sends nothing before the begin of the second has passed the last
\* piece of the first.
SecondOvertakes ==
  /\ hostPc = "asking"
  /\ \E x \in Image : toDev \in Seq(Begins \cup PiecesOf(x)) /\ SlotOf(x)
  /\ \A n \in 1 .. Len(toDev) : toDev[n].type = "UPG" => n = Len(toDev)
  /\ pc = "init" => toDev = <<>>
  /\ pc # "erased" /\ NoAsk

SessionInv ==
  \/ sessions = 0 /\ NotBegun
  \/ sessions = 1 /\ (FirstAsked \/ FirstServed)
  \/ sessions = 2 /\ (SecondAlone \/ SecondOvertakes)
  \/ sessions > 2

LEMMA FillNext == TypeInv /\ FillInv /\ [Next]_vars => FillInv'
<1> SUFFICES ASSUME TypeInv, FillInv, [Next]_vars PROVE FillInv'
  OBVIOUS
<1>1. CASE UNCHANGED <<pc, slot, offset, pageLen>>
  BY <1>1 DEF FillInv
<1>2. CASE Erase
  <2>1. /\ UNCHANGED <<offset, pageLen>>
        /\ \/ slot' = Empty /\ pc' = "erased"
           \/ slot' = slot /\ pc' = "idle"
    BY <1>2 DEF Erase, iap
  <2> QED
    BY <1>2, <2>1 DEF Erase, FillInv
<1>3. CASE AcceptUpgrade
  <2>1. offset' = 0 /\ pc' = "idle" /\ slot' = <<>>
    BY <1>3 DEF AcceptUpgrade, flash, FillInv, Empty
  <2> QED
    BY <2>1 DEF FillInv
<1>4. CASE Data
  <2>1. pageLen' = pageLen /\ pc = "idle" /\ pc' = "next"
    BY <1>4 DEF Data, Arrived
  <2>2. CASE UNCHANGED <<slot, offset>>
    BY <2>1, <2>2 DEF FillInv
  <2>3. CASE /\ slot' = slot \o Part(Frame.img, Frame.off,
                                     Frame.off + Frame.len)
             /\ offset' = offset + Frame.len
    <3>1. Frame \in Pieces
      BY <1>4, FrameType DEF Data, Arrived, TypeInv
    <3>2. /\ Frame.off \in 0 .. Limit /\ Frame.img \in Image
          /\ Frame.len \in 0 .. PageLen
      BY <3>1 DEF Pieces
    <3> DEFINE part == Part(Frame.img, Frame.off, Frame.off + Frame.len)
    <3>3. part \in Seq(Units) /\ Len(part) = Frame.len
      BY <3>2, PartSeq
    <3>4. slot \in Seq(Units)
      BY DEF TypeInv, DeviceOK
    <3> HIDE DEF part
    <3>5. Len(slot \o part) = Len(slot) + Frame.len
      BY <3>3, <3>4, ConcatProperties
    <3>6. Len(slot') = Len(slot) + Frame.len
      BY <2>3, <3>5 DEF part
    <3> QED
      BY <2>1, <2>3, <3>6 DEF FillInv
  <2> QED
    BY <1>4, <2>2, <2>3 DEF Data, Store
<1>5. CASE RebootAndInstall \/ Crash
  BY <1>5 DEF RebootAndInstall, Crash, Reset, FillInv
<1>6. CASE BeginUpgrade \/ NextPiece \/ Mark \/ Finish \/ Reject
  <2>1. UNCHANGED <<slot, offset, pageLen>> /\ pc # "erased" /\ pc' # "erased"
    BY <1>6 DEF BeginUpgrade, NextPiece, Mark, Finish, Reject, Arrived, iap,
                flash
  <2> QED
    BY <2>1 DEF FillInv
<1>7. CASE Poll \/ RefuseUpgrade \/ Boot \/ HostStart \/ HostReceive \/ Lose
           \/ Corrupt \/ UNCHANGED vars
  <2>1. UNCHANGED <<pc, slot, offset, pageLen>>
    BY <1>7 DEF Poll, Transmit, Close, RefuseUpgrade, Boot, BootCheck,
                BootClear,
                BootNotify, HostStart, HostReceive, Lose, Corrupt, vars, iap,
                parse, flash
  <2> QED
    BY <1>1, <2>1
<1> QED
  BY <1>2, <1>3, <1>4, <1>5, <1>6, <1>7 DEF Next, Parse

\* What happens to the acceptances on the line.
LEMMA AskKept ==
  ASSUME TypeInv,
         \/ UNCHANGED toHost
         \/ toHost # <<>> /\ toHost' = Tail(toHost)
         \/ \E m \in 0 .. Len(toHost) : toHost' = SubSeq(toHost, 1, m)
         \/ \E f \in HostFrame : f.type # "ASK" /\ toHost' = Append(toHost, f)
  PROVE  (NoAsk => NoAsk') /\ (OneAsk => OneAsk')
<1> DEFINE told == HostFrame \ {[type |-> "ASK"]}
<1>1. toHost \in Seq(HostFrame) /\ Len(toHost) \in Nat
  BY DEF TypeInv, LineOK
<1> SUFFICES /\ toHost \in Seq(told) => toHost' \in Seq(told)
             /\ OneAsk => OneAsk'
  BY DEF NoAsk
<1>2. CASE UNCHANGED toHost
  BY <1>2 DEF OneAsk
<1>3. CASE toHost # <<>> /\ toHost' = Tail(toHost)
  <2> HIDE DEF told
  <2>1. /\ Len(toHost') = Len(toHost) - 1
        /\ \A i \in 1 .. Len(toHost) - 1 : toHost'[i] = toHost[i + 1]
    BY <1>1, <1>3
  <2>2. toHost \in Seq(told) => toHost' \in Seq(told)
    BY <1>3
  <2>3. ASSUME OneAsk PROVE OneAsk'
    <3> SUFFICES ASSUME NEW i \in 1 .. Len(toHost'),
                        NEW j \in 1 .. Len(toHost'),
                        toHost'[i].type = "ASK", toHost'[j].type = "ASK"
                 PROVE  i = j
      BY DEF OneAsk
    <3>1. i + 1 \in 1 .. Len(toHost) /\ j + 1 \in 1 .. Len(toHost)
      BY <1>1, <2>1
    <3>2. toHost[i + 1].type = "ASK" /\ toHost[j + 1].type = "ASK"
      BY <1>1, <2>1
    <3>3. i + 1 = j + 1
      BY <2>3, <3>1, <3>2 DEF OneAsk
    <3> QED
      BY <3>3
  <2> QED
    BY <2>2, <2>3
<1>4. CASE \E m \in 0 .. Len(toHost) : toHost' = SubSeq(toHost, 1, m)
  <2>1. PICK m \in 0 .. Len(toHost) : toHost' = SubSeq(toHost, 1, m)
    BY <1>4
  <2> HIDE DEF told
  <2>2. Len(toHost') = m /\ \A i \in 1 .. m : toHost'[i] = toHost[i]
    BY <1>1, <2>1, PrefixType
  <2>3. toHost \in Seq(told) => toHost' \in Seq(told)
    BY <2>1, PrefixType
  <2>4. ASSUME OneAsk PROVE OneAsk'
    BY <1>1, <2>2, <2>4 DEF OneAsk
  <2> QED
    BY <2>3, <2>4
<1>5. CASE \E f \in HostFrame : f.type # "ASK" /\ toHost' = Append(toHost, f)
  <2>1. PICK f \in HostFrame : f.type # "ASK" /\ toHost' = Append(toHost, f)
    BY <1>5
  <2>2. f \in told
    BY <2>1
  <2> HIDE DEF told
  <2>3. toHost \in Seq(told) => toHost' \in Seq(told)
    BY <2>1, <2>2
  <2>4. /\ Len(toHost') = Len(toHost) + 1 /\ toHost'[Len(toHost) + 1] = f
        /\ \A i \in 1 .. Len(toHost) : toHost'[i] = toHost[i]
    BY <1>1, <2>1, AppendProperties
  <2>5. ASSUME OneAsk PROVE OneAsk'
    BY <1>1, <2>1, <2>4, <2>5 DEF OneAsk
  <2> QED
    BY <2>3, <2>5
<1> QED
  BY <1>2, <1>3, <1>4, <1>5

LEMMA NoAskIsOneAsk == TypeInv /\ NoAsk => OneAsk
<1> SUFFICES ASSUME TypeInv, NoAsk PROVE OneAsk
  OBVIOUS
<1>1. \A f \in HostFrame \ {[type |-> "ASK"]} : f.type # "ASK"
  BY DEF HostFrame
<1>2. \A n \in 1 .. Len(toHost) : toHost[n] \in HostFrame \ {[type |-> "ASK"]}
  BY DEF NoAsk
<1> QED
  BY <1>1, <1>2 DEF OneAsk

\* A step that at most takes frames off the line, and at most ends the work on
\* a request for an upgrade, keeps the session where it is.
LEMMA SessionKept ==
  ASSUME TypeInv, SessionInv, UNCHANGED <<slot, host>>,
         NEW n \in 0 .. Len(toDev), toDev' = SubSeq(toDev, n + 1, Len(toDev)),
         (NoAsk => NoAsk') /\ (OneAsk => OneAsk'),
         pc' = pc \/ ~Working'
  PROVE  SessionInv'
<1>1. toDev \in Seq(DevFrame) /\ Len(toDev) \in Nat
  BY DEF TypeInv, LineOK
<1>2. /\ Len(toDev') = Len(toDev) - n
      /\ \A i \in 1 .. Len(toDev) - n : toDev'[i] = toDev[n + i]
      /\ toDev' \in Seq(DevFrame)
  BY <1>1, SuffixType
<1>3. n = 0 => toDev' = toDev
  BY <1>1
<1>4. Len(toDev) = n => toDev' = <<>>
  BY <1>2
<1>5. toDev = <<>> => toDev' = <<>>
  BY <1>1, <1>2, <1>4
<1>6. ~Working => ~Working'
  BY DEF Working
<1>7. sessions' = sessions /\ hostPc' = hostPc /\ offer' = offer /\ slot' = slot
  BY DEF host
<1>8. CASE sessions = 0 /\ NotBegun
  BY <1>5, <1>6, <1>7, <1>8 DEF NotBegun, SessionInv
<1>9. CASE sessions = 1 /\ FirstAsked
  <2>1. CASE Len(toDev) = 1 /\ toDev \in Seq(Begins) /\ ~Working /\ NoAsk
    <3>1. n = 0 \/ n = 1
      BY <2>1
    <3>2. CASE n = 0
      BY <1>3, <1>6, <1>7, <1>9, <2>1, <3>2 DEF FirstAsked, SessionInv
    <3>3. CASE n = 1
      <4>1. toDev' = <<>> /\ OneAsk'
        BY <1>4, <2>1, <3>3, NoAskIsOneAsk
      <4> QED
        BY <1>6, <1>7, <1>9, <2>1, <4>1 DEF FirstAsked, SessionInv
    <3> QED
      BY <3>1, <3>2, <3>3
  <2>2. CASE toDev = <<>> /\ Working /\ NoAsk
    <3>1. NoAsk' /\ OneAsk' /\ toDev' = <<>>
      BY <1>5, <2>2, NoAskIsOneAsk
    <3> QED
      BY <1>7, <1>9, <3>1 DEF FirstAsked, SessionInv
  <2>3. CASE toDev = <<>> /\ ~Working /\ OneAsk
    BY <1>5, <1>6, <1>7, <1>9, <2>3 DEF FirstAsked, SessionInv
  <2> QED
    BY <1>9, <2>1, <2>2, <2>3 DEF FirstAsked
<1>10. CASE sessions = 1 /\ FirstServed
  <2>1. toDev' \in Seq(PiecesOf(offer))
    BY <1>10, SuffixType DEF FirstServed
  <2>2. toDev' \in Seq(PiecesOf(offer)') /\ SlotOf(offer)'
    BY <1>7, <1>10, <2>1 DEF FirstServed, SlotOf, PiecesOf, Pieces, Sn
  <2> QED
    BY <1>6, <1>7, <1>10, <2>2 DEF FirstServed, SessionInv
<1>11. CASE sessions = 2 /\ SecondAlone
  <2>1. toDev' \in Seq(Begins \cup PiecesOf(offer))
    BY <1>11, SuffixType DEF SecondAlone
  <2>2. toDev' \in Seq(Begins \cup PiecesOf(offer)') /\ SlotOf(offer)'
    BY <1>7, <1>11, <2>1 DEF SecondAlone, SlotOf, PiecesOf, Pieces, Sn
  <2> QED
    BY <1>7, <1>11, <2>2 DEF SecondAlone, SessionInv, Begins
<1>12. CASE sessions = 2 /\ SecondOvertakes
  <2>1. PICK x \in Image : toDev \in Seq(Begins \cup PiecesOf(x)) /\ SlotOf(x)
    BY <1>12 DEF SecondOvertakes
  <2>2. toDev' \in Seq(Begins \cup PiecesOf(x)) /\ SlotOf(x)'
    BY <1>7, <2>1, SuffixType DEF SlotOf
  <2>3. \A i \in 1 .. Len(toDev') : toDev'[i].type = "UPG" => i = Len(toDev')
    <3> SUFFICES ASSUME NEW i \in 1 .. Len(toDev'), toDev'[i].type = "UPG"
                 PROVE  i = Len(toDev')
      OBVIOUS
    <3>1. n + i \in 1 .. Len(toDev) /\ toDev'[i] = toDev[n + i]
      BY <1>1, <1>2
    <3>2. n + i = Len(toDev)
      BY <1>12, <3>1 DEF SecondOvertakes
    <3> QED
      BY <1>1, <1>2, <3>2
  <2>4. pc' = "init" => toDev' = <<>>
    BY <1>5, <1>12 DEF SecondOvertakes, Working
  <2>5. pc' # "erased" /\ NoAsk'
    BY <1>12 DEF SecondOvertakes, Working
  <2> QED
    BY <1>7, <1>12, <2>2, <2>3, <2>4, <2>5
       DEF SecondOvertakes, SessionInv, Begins, PiecesOf, Pieces
<1>13. CASE sessions > 2
  BY <1>7, <1>13 DEF SessionInv
<1> QED
  BY <1>8, <1>9, <1>10, <1>11, <1>12, <1>13 DEF SessionInv

LEMMA SessionQuiet ==
  ASSUME TypeInv, SessionInv,
         Poll \/ RefuseUpgrade \/ NextPiece \/ Mark \/ Finish \/ Reject
           \/ RebootAndInstall \/ Crash \/ Boot \/ Lose \/ UNCHANGED vars
  PROVE  SessionInv'
<1>1. toDev \in Seq(DevFrame) /\ Len(toDev) \in Nat
  BY DEF TypeInv, LineOK
<1>2. UNCHANGED <<slot, host>>
  BY DEF Poll, Transmit, Close, RefuseUpgrade, NextPiece, Mark, Finish, Reject,
         RebootAndInstall, Crash, Reset, Boot, BootCheck, BootClear, BootNotify,
         Lose, vars, flash
<1>3. pc' = pc \/ ~Working'
  BY DEF Poll, Transmit, Close, RefuseUpgrade, NextPiece, Mark, Finish, Reject,
         RebootAndInstall, Crash, Reset, Boot, BootCheck, BootClear, BootNotify,
         Lose, vars, parse, Working
<1>4. \E n \in 0 .. Len(toDev) : toDev' = SubSeq(toDev, n + 1, Len(toDev))
  <2>1. CASE UNCHANGED toDev
    <3>1. toDev = SubSeq(toDev, 0 + 1, Len(toDev)) /\ 0 \in 0 .. Len(toDev)
      BY <1>1
    <3> QED
      BY <2>1, <3>1
  <2>2. CASE toDev # <<>> /\ toDev' = Tail(toDev)
    <3>1. /\ Tail(toDev) = SubSeq(toDev, 1 + 1, Len(toDev))
          /\ 1 \in 0 .. Len(toDev)
      BY <1>1, <2>2
    <3> QED
      BY <2>2, <3>1
  <2>3. CASE RebootAndInstall \/ Crash
    BY <2>3 DEF RebootAndInstall, Crash, Reset
  <2> QED
    BY <2>1, <2>2, <2>3
       DEF Poll, Transmit, Close, RefuseUpgrade, Arrived, Consume, NextPiece,
           Mark, Finish, Reject, Boot, BootCheck, BootClear, BootNotify, Lose,
           vars
<1>5. \/ UNCHANGED toHost
      \/ toHost # <<>> /\ toHost' = Tail(toHost)
      \/ \E m \in 0 .. Len(toHost) : toHost' = SubSeq(toHost, 1, m)
      \/ \E f \in HostFrame : f.type # "ASK" /\ toHost' = Append(toHost, f)
  <2>1. CASE Poll
    <3>1. PICK s \in Open : Transmit(s) \/ Close(s)
      BY <2>1 DEF Poll
    <3>2. [type |-> "REQ", sn |-> s, off |-> asked[s]] \in HostFrame
      BY DEF TypeInv, RequestsOK, HostFrame
    <3> QED
      BY <3>1, <3>2 DEF Transmit, Close
  <2>2. CASE Reject \/ Boot
    <3>1. \A d \in {0, 1} : [type |-> "NTF", done |-> d] \in HostFrame
      BY DEF HostFrame
    <3> QED
      BY <2>2, <3>1 DEF Reject, Boot, BootCheck, BootClear, BootNotify
  <2>3. CASE RebootAndInstall \/ Crash
    BY <2>3 DEF RebootAndInstall, Crash, Reset
  <2>4. CASE RefuseUpgrade \/ NextPiece \/ Mark \/ Finish \/ Lose
             \/ UNCHANGED vars
    BY <2>4 DEF RefuseUpgrade, NextPiece, Mark, Finish, Lose, vars
  <2> QED
    BY <2>1, <2>2, <2>3, <2>4
<1>6. (NoAsk => NoAsk') /\ (OneAsk => OneAsk')
  BY <1>5, AskKept
<1> QED
  BY <1>2, <1>3, <1>4, <1>6, SessionKept

LEMMA SessionErase == TypeInv /\ SessionInv /\ Erase => SessionInv'
<1> SUFFICES ASSUME TypeInv, SessionInv, Erase PROVE SessionInv'
  OBVIOUS
<1>1. toDev \in Seq(DevFrame) /\ Len(toDev) \in Nat
  BY DEF TypeInv, LineOK
<1>2. /\ toDev' = toDev /\ toHost' = toHost /\ sessions' = sessions
      /\ hostPc' = hostPc /\ offer' = offer /\ pc = "init" /\ Working
  BY DEF Erase, host, Working
<1>3. CASE slot' = slot /\ pc' = "idle"
  <2>1. toDev' = SubSeq(toDev, 0 + 1, Len(toDev)) /\ 0 \in 0 .. Len(toDev)
    BY <1>1, <1>2
  <2>2. (NoAsk => NoAsk') /\ (OneAsk => OneAsk') /\ ~Working'
        /\ UNCHANGED <<slot, host>>
    BY <1>2, <1>3 DEF NoAsk, OneAsk, Working, host
  <2> QED
    BY <2>1, <2>2, SessionKept
<1>4. CASE slot' = <<>> /\ pc' = "erased"
  <2>1. Working' /\ (NoAsk => NoAsk')
    BY <1>2, <1>4 DEF Working, NoAsk
  <2>2. CASE sessions = 1 /\ FirstAsked
    BY <1>2, <1>4, <2>1, <2>2 DEF FirstAsked, SessionInv
  <2>3. CASE sessions = 2
    <3>1. offer \in Image /\ hostPc # "idle"
      BY <2>3 DEF SessionInv, SecondAlone, SecondOvertakes, TypeInv, HostOK
    <3>2. toDev \in Seq(Begins \cup PiecesOf(offer))
      <4>1. toDev = <<>> \/ toDev \in Seq(Begins \cup PiecesOf(offer))
        BY <1>2, <2>3 DEF SessionInv, SecondAlone, SecondOvertakes
      <4>2. <<>> \in Seq(Begins \cup PiecesOf(offer))
        OBVIOUS
      <4> QED
        BY <4>1, <4>2
    <3>3. SlotOf(offer)'
      BY <1>2, <1>4, <3>1, UpgradeAssumption DEF SlotOf
    <3>4. toDev' \in Seq(Begins \cup PiecesOf(offer)')
      BY <1>2, <3>2 DEF PiecesOf, Pieces
    <3> QED
      BY <1>2, <2>3, <3>1, <3>3, <3>4 DEF SecondAlone, SessionInv, Begins
  <2>4. CASE sessions > 2
    BY <1>2, <2>4 DEF SessionInv
  <2> QED
    BY <1>2, <2>2, <2>3, <2>4 DEF SessionInv, NotBegun, FirstServed
<1> QED
  BY <1>3, <1>4 DEF Erase, Empty

LEMMA SessionAccept == TypeInv /\ SessionInv /\ AcceptUpgrade => SessionInv'
<1> SUFFICES ASSUME TypeInv, SessionInv, AcceptUpgrade PROVE SessionInv'
  OBVIOUS
<1>1. /\ toDev' = toDev /\ slot' = slot /\ sessions' = sessions
      /\ hostPc' = hostPc /\ offer' = offer /\ pc = "erased" /\ Working
      /\ pc' = "idle" /\ ~Working'
      /\ toHost' = toHost \/ toHost' = Append(toHost, [type |-> "ASK"])
  BY DEF AcceptUpgrade, host, flash, Working
<1>2. CASE sessions = 1 /\ FirstAsked
  <2>1. toDev = <<>> /\ NoAsk /\ OneAsk /\ hostPc = "asking" /\ slot = <<>>
    BY <1>1, <1>2, NoAskIsOneAsk DEF FirstAsked
  <2>2. OneAsk'
    <3>1. CASE toHost' = toHost
      BY <2>1, <3>1 DEF OneAsk
    <3>2. CASE toHost' = Append(toHost, [type |-> "ASK"])
      <4>1. /\ toHost \in Seq(HostFrame) /\ Len(toHost) \in Nat
            /\ [type |-> "ASK"] \in HostFrame
        BY DEF TypeInv, LineOK, HostFrame
      <4>2. /\ Len(toHost') = Len(toHost) + 1
            /\ \A i \in 1 .. Len(toHost) : toHost'[i] = toHost[i]
        BY <3>2, <4>1, AppendProperties
      <4>3. \A i \in 1 .. Len(toHost) :
              toHost[i] \in HostFrame \ {[type |-> "ASK"]}
        BY <2>1 DEF NoAsk
      <4>4. \A i \in 1 .. Len(toHost) : toHost'[i].type # "ASK"
        BY <4>2, <4>3 DEF HostFrame
      <4> QED
        BY <4>1, <4>2, <4>4 DEF OneAsk
    <3> QED
      BY <1>1, <3>1, <3>2
  <2> QED
    BY <1>1, <1>2, <2>1, <2>2 DEF FirstAsked, SessionInv
<1>3. CASE sessions = 2 /\ SecondAlone
  <2>1. SlotOf(offer)' /\ toDev' \in Seq(Begins \cup PiecesOf(offer)')
    BY <1>1, <1>3 DEF SecondAlone, SlotOf, PiecesOf, Pieces
  <2> QED
    BY <1>1, <1>3, <2>1 DEF SecondAlone, SessionInv, Begins
<1> QED
  BY <1>1, <1>2, <1>3
     DEF SessionInv, NotBegun, FirstServed, SecondOvertakes

LEMMA SessionBegin == TypeInv /\ SessionInv /\ BeginUpgrade => SessionInv'
<1> SUFFICES ASSUME TypeInv, SessionInv, BeginUpgrade PROVE SessionInv'
  OBVIOUS
<1>1. toDev \in Seq(DevFrame) /\ Len(toDev) \in Nat
  BY DEF TypeInv, LineOK
<1>2. /\ toDev # <<>> /\ toDev' = Tail(toDev) /\ Frame.type = "UPG"
      /\ Frame = toDev[1] /\ slot' = slot /\ sessions' = sessions
      /\ toHost' = toHost /\ hostPc' = hostPc /\ offer' = offer
      /\ pc = "idle" /\ pc' = "init" /\ Working'
  BY DEF BeginUpgrade, Arrived, Consume, Frame, host, flash, Working
<1>3. Len(toDev) = 1 => toDev' = <<>>
  BY <1>1, <1>2
<1>4. NoAsk => NoAsk'
  BY <1>2 DEF NoAsk
<1>5. CASE sessions = 1 /\ FirstAsked
  <2>1. Len(toDev) = 1 /\ NoAsk /\ hostPc = "asking" /\ slot = <<>>
    BY <1>2, <1>5 DEF FirstAsked, Working
  <2> QED
    BY <1>2, <1>3, <1>4, <1>5, <2>1 DEF FirstAsked, SessionInv
<1>6. CASE sessions = 1 /\ FirstServed
  <2>1. toDev[1] \in PiecesOf(offer)
    BY <1>2, <1>6 DEF FirstServed
  <2> QED
    BY <1>2, <2>1 DEF PiecesOf, Pieces
<1>7. CASE sessions = 2 /\ SecondAlone
  <2>1. toDev' \in Seq(Begins \cup PiecesOf(offer))
    BY <1>2, <1>7 DEF SecondAlone
  <2>2. SlotOf(offer)' /\ toDev' \in Seq(Begins \cup PiecesOf(offer)')
    BY <1>2, <1>7, <2>1 DEF SecondAlone, SlotOf, PiecesOf, Pieces
  <2> QED
    BY <1>2, <1>7, <2>2 DEF SecondAlone, SessionInv, Begins
<1>8. CASE sessions = 2 /\ SecondOvertakes
  <2>1. PICK x \in Image : SlotOf(x)
    BY <1>8 DEF SecondOvertakes
  <2>2. toDev' = <<>>
    <3>1. 1 \in 1 .. Len(toDev) /\ toDev[1].type = "UPG"
      BY <1>1, <1>2
    <3>2. Len(toDev) = 1
      BY <1>8, <3>1 DEF SecondOvertakes
    <3> QED
      BY <1>3, <3>2
  <2>3. SlotOf(x)'
    BY <1>2, <2>1 DEF SlotOf
  <2>4. /\ toDev' \in Seq(Begins \cup PiecesOf(x)')
        /\ \A n \in 1 .. Len(toDev') : toDev'[n].type = "UPG" => n = Len(toDev')
    BY <2>2
  <2> QED
    BY <1>2, <1>4, <1>8, <2>2, <2>3, <2>4
       DEF SecondOvertakes, SessionInv, Begins
<1>9. CASE sessions > 2
  BY <1>2, <1>9 DEF SessionInv
<1> QED
  BY <1>2, <1>5, <1>6, <1>7, <1>8, <1>9 DEF SessionInv, NotBegun

\* upg_data_rsp goes on with the image it has begun.
LEMMA StoreKeepsSlot ==
  ASSUME TypeInv, FillInv, Data, NEW x \in Image, SlotOf(x),
         toDev \in Seq(Begins \cup PiecesOf(x))
  PROVE  SlotOf(x)'
<1>1. /\ Frame \in Pieces /\ Frame \in PiecesOf(x) /\ pc = "idle"
  <2>1. toDev # <<>> /\ Frame.type = "RSP" /\ pc = "idle"
    BY DEF Data, Arrived
  <2>2. Frame \in Begins \cup PiecesOf(x)
    BY <2>1 DEF Frame
  <2> QED
    BY <2>1, <2>2 DEF Begins, PiecesOf
<1>2. /\ Frame.off \in 0 .. Limit /\ Frame.len \in 0 .. PageLen
      /\ Frame.img = x /\ (Frame.len > 0 => Frame.off + Frame.len <= Size[x])
  BY <1>1 DEF Pieces, PiecesOf
<1>3. slot \in Seq(Units) /\ Len(slot) \in Nat /\ Size[x] \in Nat
  BY UpgradeAssumption DEF TypeInv, DeviceOK
<1>4. CASE slot' = slot
  BY <1>4 DEF SlotOf
<1>5. CASE /\ Fits
           /\ slot' = slot \o Part(Frame.img, Frame.off,
                                   Frame.off + Frame.len)
  <2> DEFINE part == Part(x, Frame.off, Frame.off + Frame.len)
  <2>1. /\ part \in Seq(Units) /\ Len(part) = Frame.len
        /\ \A n \in 1 .. Frame.len : part[n] = <<x, Frame.off + n>>
    BY <1>2, PartSeq
  <2>2. slot' = slot \o part
    BY <1>2, <1>5
  <2> HIDE DEF part
  <2>3. /\ Len(slot') = Len(slot) + Frame.len
        /\ \A n \in 1 .. Len(slot) : slot'[n] = slot[n]
        /\ \A n \in Len(slot) + 1 .. Len(slot) + Frame.len :
             slot'[n] = part[n - Len(slot)]
    <3>1. slot \in Seq(Units) /\ part \in Seq(Units) /\ Len(part) = Frame.len
      BY <1>3, <2>1
    <3>2. /\ Len(slot \o part) = Len(slot) + Len(part)
          /\ \A n \in 1 .. Len(slot) + Len(part) :
               (slot \o part)[n] =
                 IF n <= Len(slot) THEN slot[n] ELSE part[n - Len(slot)]
      BY ONLY <3>1, ConcatProperties
    <3>3. Len(slot) \in Nat /\ Frame.len \in Nat
      BY <1>2, <1>3
    <3> QED
      BY ONLY <2>2, <3>1, <3>2, <3>3
  <2>4. CASE Frame.len = 0
    BY <1>3, <2>3, <2>4 DEF SlotOf
  <2>5. CASE Frame.len > 0
    <3>1. Frame.off = Len(slot)
      <4>1. Frame.off = offset /\ Frame.len <= pageLen
        BY <1>5 DEF Fits
      <4>2. pageLen > 0
        BY <1>2, <2>5, <4>1, UpgradeAssumption DEF TypeInv, DeviceOK
      <4> QED
        BY <1>1, <4>1, <4>2 DEF FillInv
    <3>2. Len(slot') <= Size[x]
      BY <1>2, <2>3, <2>5, <3>1
    <3>3. ASSUME NEW n \in 1 .. Len(slot') PROVE slot'[n] = <<x, n>>
      <4>1. CASE n \in 1 .. Len(slot)
        BY <2>3, <4>1 DEF SlotOf
      <4>2. CASE n \notin 1 .. Len(slot)
        <5>1. /\ n \in Len(slot) + 1 .. Len(slot) + Frame.len
              /\ n - Len(slot) \in 1 .. Frame.len
              /\ Frame.off + (n - Len(slot)) = n
          BY <1>2, <1>3, <2>3, <3>1, <4>2
        <5>2. slot'[n] = part[n - Len(slot)]
          BY <2>3, <5>1
        <5> QED
          BY <2>1, <5>1, <5>2
      <4> QED
        BY <4>1, <4>2
    <3> QED
      BY <3>2, <3>3 DEF SlotOf
  <2> QED
    BY <1>2, <2>4, <2>5
<1> QED
  BY <1>4, <1>5 DEF Data, Store

LEMMA SessionData == TypeInv /\ FillInv /\ SessionInv /\ Data => SessionInv'
<1> SUFFICES ASSUME TypeInv, FillInv, SessionInv, Data PROVE SessionInv'
  OBVIOUS
<1>1. toDev \in Seq(DevFrame) /\ Len(toDev) \in Nat
  BY DEF TypeInv, LineOK
<1>2. /\ toDev # <<>> /\ toDev' = Tail(toDev) /\ Frame.type = "RSP"
      /\ Frame = toDev[1] /\ sessions' = sessions
      /\ toHost' = toHost /\ hostPc' = hostPc /\ offer' = offer
      /\ pc = "idle" /\ pc' = "next" /\ ~Working'
  BY DEF Data, Arrived, Consume, Frame, host, Working
<1>3. NoAsk => NoAsk'
  BY <1>2 DEF NoAsk
<1>4. CASE sessions = 1 /\ FirstAsked
  <2>1. toDev \in Seq(Begins)
    BY <1>2, <1>4 DEF FirstAsked
  <2>2. toDev[1] \in Begins
    BY <1>2, <2>1
  <2> QED
    BY <1>2, <2>2 DEF Begins
<1>5. CASE sessions = 1 /\ FirstServed
  <2>1. offer \in Image
    BY <1>5 DEF FirstServed, TypeInv, HostOK
  <2>2. toDev \in Seq(Begins \cup PiecesOf(offer))
    BY <1>5 DEF FirstServed
  <2>3. /\ Len(slot') <= Size[offer]
        /\ \A n \in 1 .. Len(slot') : slot'[n] = <<offer, n>>
    <3>1. PICK x \in Image : x = offer
      BY <2>1
    <3>2. SlotOf(x)'
      BY <1>5, <2>2, <3>1, StoreKeepsSlot DEF FirstServed
    <3> QED
      BY <3>1, <3>2 DEF SlotOf
  <2>4. toDev' \in Seq(PiecesOf(offer))
    BY <1>2, <1>5 DEF FirstServed
  <2>5. toDev' \in Seq(PiecesOf(offer)') /\ SlotOf(offer)'
    BY <1>2, <2>3, <2>4 DEF SlotOf, PiecesOf, Pieces
  <2> QED
    BY <1>2, <1>3, <1>5, <2>5 DEF FirstServed, SessionInv
<1>6. CASE sessions = 2 /\ SecondAlone
  <2>1. offer \in Image
    BY <1>6 DEF SecondAlone, TypeInv, HostOK
  <2>2. /\ Len(slot') <= Size[offer]
        /\ \A n \in 1 .. Len(slot') : slot'[n] = <<offer, n>>
    <3>1. PICK x \in Image : x = offer
      BY <2>1
    <3>2. SlotOf(x)'
      BY <1>6, <3>1, StoreKeepsSlot DEF SecondAlone
    <3> QED
      BY <3>1, <3>2 DEF SlotOf
  <2>3. toDev' \in Seq(Begins \cup PiecesOf(offer))
    BY <1>2, <1>6 DEF SecondAlone
  <2>4. toDev' \in Seq(Begins \cup PiecesOf(offer)') /\ SlotOf(offer)'
    BY <1>2, <2>2, <2>3 DEF SlotOf, PiecesOf, Pieces
  <2> QED
    BY <1>2, <1>6, <2>4 DEF SecondAlone, SessionInv, Begins
<1>7. CASE sessions = 2 /\ SecondOvertakes
  <2>1. PICK x \in Image : toDev \in Seq(Begins \cup PiecesOf(x)) /\ SlotOf(x)
    BY <1>7 DEF SecondOvertakes
  <2>2. SlotOf(x)'
    BY <2>1, StoreKeepsSlot
  <2>3. toDev' \in Seq(Begins \cup PiecesOf(x))
    BY <1>2, <2>1
  <2>4. \A i \in 1 .. Len(toDev') : toDev'[i].type = "UPG" => i = Len(toDev')
    <3> SUFFICES ASSUME NEW i \in 1 .. Len(toDev'), toDev'[i].type = "UPG"
                 PROVE  i = Len(toDev')
      OBVIOUS
    <3>1. Len(toDev') = Len(toDev) - 1
      BY <1>1, <1>2
    <3>2. i + 1 \in 1 .. Len(toDev) /\ toDev'[i] = toDev[i + 1]
      BY <1>1, <1>2, <3>1
    <3>3. i + 1 = Len(toDev)
      BY <1>7, <3>2 DEF SecondOvertakes
    <3> QED
      BY <1>1, <3>1, <3>3
  <2> QED
    BY <1>2, <1>3, <1>7, <2>2, <2>3, <2>4
       DEF SecondOvertakes, SessionInv, Begins, PiecesOf, Pieces
<1>8. CASE sessions > 2
  BY <1>2, <1>8 DEF SessionInv
<1> QED
  BY <1>2, <1>4, <1>5, <1>6, <1>7, <1>8 DEF SessionInv, NotBegun

LEMMA SessionStart == TypeInv /\ SessionInv /\ HostStart => SessionInv'
<1> SUFFICES ASSUME TypeInv, SessionInv, HostStart PROVE SessionInv'
  OBVIOUS
<1> DEFINE u == [type |-> "UPG", img |-> offer']
<1>1. toDev \in Seq(DevFrame) /\ Len(toDev) \in Nat
  BY DEF TypeInv, LineOK
<1>2. /\ sessions' = sessions + 1 /\ offer' \in Image /\ hostPc' = "asking"
      /\ toDev' = Append(toDev, u) /\ slot' = slot /\ toHost' = toHost
      /\ pc' = pc /\ (Working' <=> Working) /\ (NoAsk => NoAsk')
  BY DEF HostStart, parse, flash, Working, NoAsk
<1>3. u \in Begins /\ u.type = "UPG"
  BY <1>2 DEF Begins
<1>4. sessions \in Nat
  BY UpgradeAssumption DEF TypeInv, HostOK
<1> HIDE DEF u
<1>5. CASE sessions = 0 /\ NotBegun
  <2>1. toDev' = <<u>>
    BY <1>2, <1>5 DEF NotBegun
  <2>2. Len(toDev') = 1 /\ toDev' \in Seq(Begins)
    BY <1>3, <2>1
  <2>3. ~Working' /\ NoAsk' /\ slot' = <<>> /\ sessions' = 1
    BY <1>2, <1>5 DEF NotBegun
  <2> QED
    BY <1>2, <2>2, <2>3 DEF FirstAsked, SessionInv, Begins
<1>6. CASE sessions = 1 /\ FirstAsked
  <2>1. toDev \in Seq(Begins) /\ slot' = <<>>
    <3>1. toDev = <<>> \/ toDev \in Seq(Begins)
      BY <1>6 DEF FirstAsked
    <3>2. <<>> \in Seq(Begins)
      OBVIOUS
    <3>3. toDev \in Seq(Begins)
      BY <3>1, <3>2
    <3> QED
      BY <1>2, <1>6, <3>3 DEF FirstAsked
  <2>2. toDev' \in Seq(Begins)
    BY <1>2, <1>3, <2>1
  <2>3. toDev' \in Seq(Begins \cup PiecesOf(offer)')
    BY <2>2
  <2>4. SlotOf(offer)'
    <3>1. Len(slot') = 0 /\ Size[offer'] \in Nat
      BY <1>2, <2>1, UpgradeAssumption
    <3> QED
      BY <3>1 DEF SlotOf
  <2> QED
    BY <1>2, <1>6, <2>3, <2>4 DEF SecondAlone, SessionInv, Begins
<1>7. CASE sessions = 1 /\ FirstServed
  <2>1. PICK x \in Image : x = offer
    BY <1>7 DEF FirstServed, TypeInv, HostOK
  <2>2. /\ toDev \in Seq(PiecesOf(x)) /\ SlotOf(x)'
        /\ pc' \notin {"init", "erased"}
        /\ NoAsk'
    BY <1>2, <1>7, <2>1 DEF FirstServed, SlotOf, Working
  <2>3. toDev' \in Seq(Begins \cup PiecesOf(x))
    BY <1>2, <1>3, <2>2
  <2>4. \A i \in 1 .. Len(toDev') : toDev'[i].type = "UPG" => i = Len(toDev')
    <3>1. /\ Len(toDev') = Len(toDev) + 1
          /\ \A i \in 1 .. Len(toDev) : toDev'[i] = toDev[i]
      BY <1>1, <1>2, <1>3, AppendProperties DEF Begins, DevFrame
    <3>2. \A i \in 1 .. Len(toDev) : toDev[i].type = "RSP"
      <4>1. \A i \in 1 .. Len(toDev) : toDev[i] \in PiecesOf(x)
        BY <2>2
      <4> QED
        BY <4>1 DEF PiecesOf, Pieces
    <3> QED
      BY <1>1, <3>1, <3>2
  <2> QED
    BY <1>2, <1>7, <2>2, <2>3, <2>4
       DEF SecondOvertakes, SessionInv, Begins, PiecesOf, Pieces
<1>8. CASE sessions = 2
  BY <1>2, <1>8 DEF SessionInv
<1>9. CASE sessions > 2
  BY <1>2, <1>4, <1>9 DEF SessionInv
<1> QED
  BY <1>5, <1>6, <1>7, <1>8, <1>9 DEF SessionInv

LEMMA AnswerFits ==
  ASSUME offer \in Image, NEW f \in HostFrame, f.type = "REQ"
  PROVE  Answer(f) \in PiecesOf(offer)
<1>1. f.sn \in Sn /\ f.off \in 0 .. Limit
  BY DEF HostFrame
<1>2. /\ Piece(f.off) \in 0 .. PageLen
      /\ Piece(f.off) > 0 => f.off + Piece(f.off) <= Size[offer]
  BY <1>1, UpgradeAssumption DEF Piece
<1> DEFINE g == Answer(f)
<1>3. /\ g = [type |-> "RSP", sn |-> f.sn, off |-> f.off, img |-> offer,
              len |-> Piece(f.off), intact |-> TRUE]
  BY DEF Answer
<1>4. g \in Pieces
  BY <1>1, <1>2, <1>3 DEF Pieces
<1>5. g.img = offer /\ g.len = Piece(f.off) /\ g.off = f.off
  BY <1>3
<1> HIDE DEF g
<1>6. g \in PiecesOf(offer)
  BY <1>2, <1>4, <1>5 DEF PiecesOf
<1> QED
  BY <1>6 DEF g

LEMMA SessionReceive == TypeInv /\ SessionInv /\ HostReceive => SessionInv'
<1> SUFFICES ASSUME TypeInv, SessionInv, HostReceive PROVE SessionInv'
  OBVIOUS
<1> DEFINE f == Head(toHost)
<1>1. /\ toDev \in Seq(DevFrame) /\ Len(toDev) \in Nat
      /\ toHost \in Seq(HostFrame) /\ Len(toHost) \in Nat /\ toHost # <<>>
      /\ toHost' = Tail(toHost) /\ f \in HostFrame /\ f = toHost[1]
  BY DEF HostReceive, TypeInv, LineOK
<1>2. /\ UNCHANGED <<slot, offer, sessions, pc>> /\ (Working' <=> Working)
      /\ (hostPc # "idle" => hostPc' # "idle")
  BY DEF HostReceive, parse, flash, Working
<1>3. (NoAsk => NoAsk') /\ (OneAsk => OneAsk')
  BY <1>1, AskKept
<1>4. \/ f.type = "ASK" /\ toDev' = toDev
         /\ hostPc' = IF hostPc = "asking" THEN "serving" ELSE hostPc
      \/ /\ f.type \in {"NTF", "REQ"} /\ toDev' = toDev
         /\ hostPc' = hostPc
            \/ (hostPc = "serving" /\ hostPc' \in {"done", "failed"})
      \/ /\ f.type = "REQ" /\ hostPc = "serving"
         /\ toDev' = Append(toDev, Answer(f))
         /\ hostPc' = hostPc
  BY DEF HostReceive
<1>5. NoAsk => f.type # "ASK"
  <2>1. ASSUME NoAsk PROVE f \in HostFrame \ {[type |-> "ASK"]}
    BY <1>1, <2>1 DEF NoAsk
  <2> QED
    BY <2>1 DEF HostFrame
<1>6. OneAsk /\ f.type = "ASK" => NoAsk'
  <2> SUFFICES ASSUME OneAsk, f.type = "ASK" PROVE NoAsk'
    OBVIOUS
  <2> DEFINE told == HostFrame \ {[type |-> "ASK"]}
  <2>1. /\ Len(toHost') = Len(toHost) - 1 /\ toHost' \in Seq(HostFrame)
        /\ \A i \in 1 .. Len(toHost) - 1 : toHost'[i] = toHost[i + 1]
    BY <1>1
  <2>2. ASSUME NEW i \in 1 .. Len(toHost') PROVE toHost'[i] \in told
    <3>1. 1 \in 1 .. Len(toHost) /\ i + 1 \in 1 .. Len(toHost) /\ i + 1 # 1
      BY <1>1, <2>1
    <3>2. toHost[i + 1].type # "ASK"
      BY <1>1, <3>1 DEF OneAsk
    <3> QED
      BY <1>1, <2>1, <3>1, <3>2
  <2> HIDE DEF told
  <2>3. toHost' \in Seq(told)
    BY <2>1, <2>2
  <2> QED
    BY <2>3 DEF NoAsk, told
<1> HIDE DEF f
<1>7. hostPc = "serving" => offer \in Image
  BY DEF TypeInv, HostOK
<1>8. CASE sessions = 0 /\ NotBegun
  <2>1. toDev' = toDev /\ hostPc' = hostPc
    BY <1>4, <1>8 DEF NotBegun
  <2> QED
    BY <1>2, <1>3, <1>8, <2>1 DEF NotBegun, SessionInv
<1>9. CASE sessions = 1 /\ FirstAsked
  <2>1. hostPc = "asking" /\ slot' = <<>> /\ toDev' = toDev
    BY <1>2, <1>4, <1>9 DEF FirstAsked
  <2>2. CASE f.type # "ASK"
    <3>1. hostPc' = "asking" /\ sessions' = 1
      BY <1>2, <1>4, <1>9, <2>1, <2>2
    <3> QED
      BY <1>2, <1>3, <1>9, <2>1, <3>1 DEF FirstAsked, SessionInv
  <2>3. CASE f.type = "ASK"
    <3>1. toDev = <<>> /\ ~Working /\ OneAsk /\ hostPc' = "serving"
      BY <1>4, <1>5, <1>9, <2>1, <2>3 DEF FirstAsked
    <3>2. toDev' \in Seq(PiecesOf(offer)')
      BY <2>1, <3>1
    <3>3. SlotOf(offer)'
      <4>1. Len(slot') = 0 /\ Size[offer'] \in Nat
        BY <1>2, <2>1, UpgradeAssumption DEF TypeInv, HostOK
      <4> QED
        BY <4>1 DEF SlotOf
    <3> QED
      BY <1>2, <1>6, <1>9, <2>3, <3>1, <3>2, <3>3 DEF FirstServed, SessionInv
  <2> QED
    BY <2>2, <2>3
<1>10. CASE sessions = 1 /\ FirstServed
  <2>1. toDev' \in Seq(PiecesOf(offer))
    <3>1. CASE toDev' = toDev
      BY <1>10, <3>1 DEF FirstServed
    <3>2. CASE f.type = "REQ" /\ hostPc = "serving"
               /\ toDev' = Append(toDev, Answer(f))
      <4>1. Answer(f) \in PiecesOf(offer)
        BY <1>1, <1>7, <3>2, AnswerFits
      <4> QED
        BY <1>10, <3>2, <4>1 DEF FirstServed
    <3> QED
      BY <1>4, <3>1, <3>2
  <2>2. toDev' \in Seq(PiecesOf(offer)') /\ SlotOf(offer)'
    BY <1>2, <1>10, <2>1 DEF FirstServed, SlotOf, PiecesOf, Pieces
  <2>3. hostPc' \notin {"idle", "asking"}
    BY <1>4, <1>5, <1>10 DEF FirstServed
  <2> QED
    BY <1>2, <1>3, <1>10, <2>2, <2>3 DEF FirstServed, SessionInv
<1>11. CASE sessions = 2 /\ SecondAlone
  <2>1. toDev' \in Seq(Begins \cup PiecesOf(offer))
    <3>1. CASE toDev' = toDev
      BY <1>11, <3>1 DEF SecondAlone
    <3>2. CASE f.type = "REQ" /\ hostPc = "serving"
               /\ toDev' = Append(toDev, Answer(f))
      <4>1. Answer(f) \in PiecesOf(offer)
        BY <1>1, <1>7, <3>2, AnswerFits
      <4> QED
        BY <1>11, <3>2, <4>1 DEF SecondAlone
    <3> QED
      BY <1>4, <3>1, <3>2
  <2>2. toDev' \in Seq(Begins \cup PiecesOf(offer)') /\ SlotOf(offer)'
    BY <1>2, <1>11, <2>1 DEF SecondAlone, SlotOf, PiecesOf, Pieces
  <2> QED
    BY <1>2, <1>11, <2>2 DEF SecondAlone, SessionInv, Begins
<1>12. CASE sessions = 2 /\ SecondOvertakes
  <2>1. hostPc' = "asking" /\ toDev' = toDev
    BY <1>4, <1>5, <1>12 DEF SecondOvertakes
  <2> QED
    BY <1>2, <1>3, <1>12, <2>1
       DEF SecondOvertakes, SessionInv, Begins, PiecesOf, Pieces, SlotOf
<1>13. CASE sessions > 2
  BY <1>2, <1>13 DEF SessionInv
<1> QED
  BY <1>8, <1>9, <1>10, <1>11, <1>12, <1>13 DEF SessionInv

LEMMA SessionCorrupt == TypeInv /\ SessionInv /\ Corrupt => SessionInv'
<1> SUFFICES ASSUME TypeInv, SessionInv, Corrupt PROVE SessionInv'
  OBVIOUS
<1> DEFINE g == [Frame EXCEPT !.intact = FALSE]
<1>1. toDev \in Seq(DevFrame) /\ Len(toDev) \in Nat
  BY DEF TypeInv, LineOK
<1>2. /\ toDev # <<>> /\ Frame = toDev[1] /\ Frame \in Pieces
      /\ toDev' = [toDev EXCEPT ![1] = g] /\ Frame.type = "RSP"
      /\ UNCHANGED <<slot, toHost, sessions, hostPc, offer, pc>>
      /\ (Working' <=> Working) /\ (NoAsk => NoAsk')
  BY FrameType DEF Corrupt, TypeInv, Frame, parse, flash, host, Working, NoAsk
<1>3. /\ g \in Pieces /\ g.type = "RSP"
      /\ \A x : Frame \in PiecesOf(x) => g \in PiecesOf(x)
  BY <1>2 DEF Pieces, PiecesOf
<1> HIDE DEF g
<1>4. \A x : toDev \in Seq(PiecesOf(x)) => toDev' \in Seq(PiecesOf(x))
  <2> SUFFICES ASSUME NEW x, toDev \in Seq(PiecesOf(x))
               PROVE  toDev' \in Seq(PiecesOf(x))
    OBVIOUS
  <2>1. g \in PiecesOf(x)
    BY <1>2, <1>3
  <2> QED
    BY <1>2, <2>1
<1>5. \A x : toDev \in Seq(Begins \cup PiecesOf(x))
               => toDev' \in Seq(Begins \cup PiecesOf(x))
  <2> SUFFICES ASSUME NEW x, toDev \in Seq(Begins \cup PiecesOf(x))
               PROVE  toDev' \in Seq(Begins \cup PiecesOf(x))
    OBVIOUS
  <2>1. Frame \in Begins \cup PiecesOf(x) /\ Frame \notin Begins
    BY <1>2 DEF Begins
  <2>2. g \in PiecesOf(x)
    BY <1>3, <2>1
  <2> QED
    BY <1>2, <2>2
<1>6. CASE sessions = 1 /\ FirstAsked
  <2>1. toDev \in Seq(Begins)
    BY <1>2, <1>6 DEF FirstAsked
  <2>2. toDev[1] \in Begins
    BY <1>2, <2>1
  <2> QED
    BY <1>2, <2>2 DEF Begins
<1>7. CASE sessions = 1 /\ FirstServed
  <2>1. toDev' \in Seq(PiecesOf(offer)') /\ SlotOf(offer)'
    BY <1>2, <1>4, <1>7 DEF FirstServed, SlotOf, PiecesOf, Pieces
  <2> QED
    BY <1>2, <1>7, <2>1 DEF FirstServed, SessionInv
<1>8. CASE sessions = 2 /\ SecondAlone
  <2>1. toDev' \in Seq(Begins \cup PiecesOf(offer)') /\ SlotOf(offer)'
    BY <1>2, <1>5, <1>8 DEF SecondAlone, SlotOf, PiecesOf, Pieces
  <2> QED
    BY <1>2, <1>8, <2>1 DEF SecondAlone, SessionInv, Begins
<1>9. CASE sessions = 2 /\ SecondOvertakes
  <2>1. PICK x \in Image : toDev \in Seq(Begins \cup PiecesOf(x)) /\ SlotOf(x)
    BY <1>9 DEF SecondOvertakes
  <2>2. toDev' \in Seq(Begins \cup PiecesOf(x)) /\ SlotOf(x)'
    BY <1>2, <1>5, <2>1 DEF SlotOf
  <2>3. \A n \in 1 .. Len(toDev') : toDev'[n].type = "UPG" => n = Len(toDev')
    <3>1. /\ Len(toDev') = Len(toDev) /\ toDev'[1] = g
          /\ \A n \in 1 .. Len(toDev) : n # 1 => toDev'[n] = toDev[n]
      BY <1>1, <1>2
    <3> QED
      BY <1>3, <1>9, <3>1 DEF SecondOvertakes
  <2> QED
    BY <1>2, <1>9, <2>2, <2>3
       DEF SecondOvertakes, SessionInv, Begins, PiecesOf, Pieces
<1>10. CASE sessions > 2
  BY <1>2, <1>10 DEF SessionInv
<1> QED
  BY <1>2, <1>6, <1>7, <1>8, <1>9, <1>10 DEF SessionInv, NotBegun

LEMMA SessionNext ==
  TypeInv /\ FillInv /\ SessionInv /\ [Next]_vars => SessionInv'
BY SessionQuiet, SessionErase, SessionAccept, SessionBegin, SessionData,
   SessionStart, SessionReceive, SessionCorrupt DEF Next, Parse

LEMMA StartIsPrefix ==
  ASSUME NEW x \in Image, slot \in Seq(Units), SlotOf(x)
  PROVE  IsPrefix(slot, Whole(x))
<1>1. Len(slot) \in Nat /\ Size[x] \in Nat /\ Size[x] - 0 = Size[x]
  BY UpgradeAssumption
<1>2. Whole(x) = [n \in 1 .. Size[x] |-> <<x, 0 + n>>]
  BY <1>1 DEF Whole, Part
<1> DEFINE w == [n \in 1 .. Size[x] |-> <<x, 0 + n>>]
<1>3. \A n \in 1 .. Size[x] : w[n] = <<x, n>>
  BY <1>1
<1>4. w \in Seq({<<x, 0 + n>> : n \in 1 .. Size[x]}) /\ Len(w) = Size[x]
  <2> DEFINE g(n) == <<x, 0 + n>>
             U == {<<x, 0 + n>> : n \in 1 .. Size[x]}
  <2>1. \A n \in 1 .. Size[x] : g(n) \in U
    OBVIOUS
  <2> HIDE DEF g, U
  <2>2. [n \in 1 .. Size[x] |-> g(n)] \in Seq(U)
        /\ Len([n \in 1 .. Size[x] |-> g(n)]) = Size[x]
    BY <1>1, <2>1
  <2> QED
    BY <2>2 DEF g, U
<1> HIDE DEF w
<1>5. Len(slot) \in 0 .. Len(w) /\ Len(slot) \in 0 .. Len(slot)
  BY <1>1, <1>4 DEF SlotOf
<1>6. /\ SubSeq(w, 1, Len(slot)) \in Seq({<<x, 0 + n>> : n \in 1 .. Size[x]})
      /\ Len(SubSeq(w, 1, Len(slot))) = Len(slot)
      /\ \A i \in 1 .. Len(slot) : SubSeq(w, 1, Len(slot))[i] = w[i]
  BY <1>4, <1>5, PrefixType
<1>7. SubSeq(slot, 1, Len(slot)) = slot
  BY <1>1
<1>8. \A i \in 1 .. Len(slot) : slot[i] = w[i]
  BY <1>1, <1>3 DEF SlotOf
<1>9. slot = SubSeq(w, 1, Len(slot))
  BY <1>6, <1>8, SeqEqual
<1>10. Len(slot) <= Len(w)
  BY <1>5
<1> QED
  BY <1>2, <1>7, <1>9, <1>10 DEF IsPrefix, w

LEMMA SlotInvOK == TypeInv /\ FillInv /\ SessionInv => SlotIsPrefix
<1> SUFFICES ASSUME TypeInv, FillInv, SessionInv PROVE SlotIsPrefix
  OBVIOUS
<1>1. ASSUME sessions <= 2 PROVE \E x \in Image : SlotOf(x)
  <2>1. ASSUME slot = <<>> PROVE \E x \in Image : SlotOf(x)
    <3>1. PICK x \in Image : TRUE
      BY UpgradeAssumption
    <3>2. Size[x] \in Nat /\ Len(slot) = 0
      BY <2>1, UpgradeAssumption
    <3> QED
      BY <3>2 DEF SlotOf
  <2>2. hostPc # "idle" => offer \in Image
    BY DEF TypeInv, HostOK
  <2>3. ~(sessions > 2)
    BY <1>1, UpgradeAssumption DEF TypeInv, HostOK
  <2> QED
    BY <2>1, <2>2, <2>3 DEF SessionInv, NotBegun, FirstAsked, FirstServed,
                            SecondAlone, SecondOvertakes
<1>2. sessions <= 2 => \E i \in Image : IsPrefix(slot, Whole(i))
  BY <1>1, StartIsPrefix DEF TypeInv, DeviceOK
<1> QED
  BY <1>2 DEF SlotIsPrefix, FillInv

LEMMA SlotInit == Init => FillInv /\ SessionInv
<1> SUFFICES ASSUME Init PROVE FillInv /\ SessionInv
  OBVIOUS
<1>1. FillInv
  BY DEF Init, FillInv, Empty
<1>2. NoAsk
  BY DEF Init, NoAsk
<1> QED
  BY <1>1, <1>2 DEF Init, SessionInv, NotBegun, Working, Empty

\* The storage slot holds the beginning of one image, as much of it as
\* iap_str.offset says: for every image size and page length, with every
\* combination of lost, late, repeated and corrupted frames, failed writes and
\* resets, a second transfer never mixes with the first, however the frames of
\* the two overlap on the line (upg_request_rsp, upg_data_rsp).
THEOREM SlotHoldsOneImage == Spec => []SlotIsPrefix
<1>1. Init => TypeInv /\ FillInv /\ SessionInv
  BY TypeInit, SlotInit
<1>2. TypeInv /\ FillInv /\ SessionInv /\ [Next]_vars
        => (TypeInv /\ FillInv /\ SessionInv)'
  BY TypeNext, FillNext, SessionNext
<1> QED
  BY <1>1, <1>2, SlotInvOK, PTL DEF Spec

=============================================================================
