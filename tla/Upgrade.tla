------------------------------- MODULE Upgrade -------------------------------
(***************************************************************************)
(* The firmware upgrade over the serial line: App_Uart_Parse_Task running  *)
(* upg_request_rsp and upg_data_rsp, the flash slot and the flash record   *)
(* they write, the boot path of App_Main_Task, and the host.               *)
(*                                                                         *)
(* The device asks for the image piece by piece (REQ_UPG_DATA); a request  *)
(* is transmitted up to MaxTimes times until its answer arrives, as Outbox *)
(* promises and UartTx implements.  A verified image is marked in a flash  *)
(* record, installed by the bootloader, and reported by the next boot.     *)
(*                                                                         *)
(* Offsets and lengths are in units of which PageLen make page_len (128    *)
(* bytes).  What goes wrong is a fault; MaxFaults bounds how often.        *)
(***************************************************************************)
EXTENDS Naturals, FiniteSets, SequencesExt

CONSTANTS
  Image,      \* the images the host may offer
  NoImage,
  Size,       \* their sizes
  Limit,      \* the largest size upg_request_rsp accepts (241664 bytes)
  PageLen,    \* iap_str.page_len
  PoolSize,   \* buffers for requests and answers
  MaxTimes,   \* transmissions of a request
  SnMod,      \* uart_send_sn wraps here (256 in the code)
  Sessions,   \* upgrades the host may start
  Faults,     \* the kinds of faults of this instance
  MaxFaults   \* the number of faults in a behaviour

FaultKind == {"lose", "corrupt", "late", "busy", "flash", "mark", "clear",
              "crash", "crashDelay"}

ASSUME UpgradeAssumption ==
  /\ Image # {} /\ NoImage \notin Image
  /\ Size \in [Image -> Nat \ {0}]
  /\ Limit \in Nat /\ PageLen \in Nat \ {0}
  /\ MaxTimes \in Nat \ {0}
  /\ PoolSize \in Nat /\ SnMod \in Nat /\ PoolSize < SnMod
  /\ Sessions \in Nat /\ MaxFaults \in Nat
  /\ Faults \subseteq FaultKind

VARIABLES
  fwLen, offset, pageLen,   \* iap_str (RAM)
  pc,         \* App_Uart_Parse_Task
  answerTo,   \* the sn of the frame it is working on
  sn,         \* uart_send_sn
  asked,      \* the offset each open request asks for, by sn
  tries,      \* its transmissions
  answered,   \* the open requests marked as answered
  slot,       \* the bootloader's storage slot (flash)
  record,     \* flash record 1 is 0xAA
  installed,  \* the firmware that runs
  bootPc,     \* App_Main_Task
  unreported, \* history: an installation has not been reported yet
  toDev,      \* frames from the host
  toHost,     \* frames to the host
  hostPc,     \* the host: "idle", "asking", "serving", "done", "failed"
  offer,      \* the image it offers
  sessions, faults

iap == <<fwLen, offset, pageLen>>
parse == <<pc, answerTo>>
requests == <<sn, asked, tries, answered>>
flash == <<slot, record, installed>>
boot == <<bootPc, unreported>>
host == <<hostPc, offer, sessions>>
vars == <<iap, parse, requests, flash, boot, toDev, toHost, host, faults>>

Open == DOMAIN asked

\* Unit n of image i is <<i, n>>.
Part(i, from, to) == [n \in 1 .. to - from |-> <<i, from + n>>]
Whole(i) == Part(i, 0, Size[i])
Empty == <<>>

\* A fault of kind k happens, within the budget.
Fault(k) == k \in Faults /\ faults < MaxFaults /\ faults' = faults + 1

Init ==
  /\ fwLen = 0 /\ offset = 0 /\ pageLen = 0
  /\ pc = "idle" /\ answerTo = 0
  /\ sn = 0 /\ asked = <<>> /\ tries = <<>> /\ answered = {}
  /\ slot = Empty /\ record = FALSE /\ installed = Empty
  /\ bootPc = "check" /\ unreported = FALSE
  /\ toDev = <<>> /\ toHost = <<>>
  /\ hostPc = "idle" /\ offer = NoImage /\ sessions = 0
  /\ faults = 0

-----------------------------------------------------------------------------
(* Requests on the transmit path.                                          *)

With(f, s, v) == [x \in DOMAIN f \cup {s} |-> IF x = s THEN v ELSE f[x]]
Without(f, S) == [x \in DOMAIN f \ S |-> f[x]]

\* iap_req_request(off), which buf_factory_produce gives a buffer or not.
Request(off, granted) ==
  IF granted
    THEN /\ asked' = With(asked, sn, off)
         /\ tries' = With(tries, sn, 0)
         /\ sn' = (sn + 1) % SnMod
    ELSE UNCHANGED <<sn, asked, tries>>

\* Of the k buffers a handler takes one after the other it gets n: those that
\* are left, fewer if other traffic has some of them.
Gets(n, k) ==
  LET left == PoolSize - Cardinality(Open)
      most == IF left < k THEN left ELSE k
  IN /\ n <= most
     /\ IF n < most THEN Fault("busy") ELSE UNCHANGED faults

\* The request or its answer is under way.
UnderWay(s) ==
  \/ \E n \in DOMAIN toHost : toHost[n].type = "REQ" /\ toHost[n].sn = s
  \/ \E n \in DOMAIN toDev : toDev[n].type = "RSP" /\ toDev[n].sn = s

\* 500 ms suffice for an answer that comes; a slow host is a fault.
TimedOut(s) == IF UnderWay(s) THEN Fault("late") ELSE UNCHANGED faults

Transmit(s) ==
  /\ s \notin answered \/ tries[s] = 0
  /\ tries[s] < MaxTimes
  /\ IF tries[s] = 0 THEN UNCHANGED faults ELSE TimedOut(s)
  /\ tries' = [tries EXCEPT ![s] = @ + 1]
  /\ toHost' = Append(toHost, [type |-> "REQ", sn |-> s, off |-> asked[s]])
  /\ UNCHANGED <<iap, parse, sn, asked, answered, flash, boot, toDev, host>>

\* Mutant: a request is given up one transmission early.
CloseEarly(s) ==
  /\ \/ s \in answered /\ tries[s] > 0 /\ UNCHANGED faults
     \/ s \notin answered /\ tries[s] + 1 = MaxTimes /\ TimedOut(s)
  /\ asked' = Without(asked, {s})
  /\ tries' = Without(tries, {s})
  /\ answered' = answered \ {s}
  /\ UNCHANGED <<iap, parse, sn, flash, boot, toDev, toHost, host>>

\* Mutant: poll.free_flag survives in the recycled buffer.
CloseLeavesMark(s) ==
  /\ \/ s \in answered /\ tries[s] > 0 /\ UNCHANGED faults
     \/ s \notin answered /\ tries[s] = MaxTimes /\ TimedOut(s)
  /\ asked' = Without(asked, {s})
  /\ tries' = Without(tries, {s})
  /\ UNCHANGED <<iap, parse, sn, answered, flash, boot, toDev, toHost, host>>

\* The Poll task removes a request that was answered or sent MaxTimes times.
Close(s) ==
  /\ \/ s \in answered /\ tries[s] > 0 /\ UNCHANGED faults
     \/ s \notin answered /\ tries[s] = MaxTimes /\ TimedOut(s)
  /\ asked' = Without(asked, {s})
  /\ tries' = Without(tries, {s})
  /\ answered' = answered \ {s}
  /\ UNCHANGED <<iap, parse, sn, flash, boot, toDev, toHost, host>>

-----------------------------------------------------------------------------
(* App_Uart_Parse_Task.                                                    *)

Frame == Head(toDev)
\* App_Main_Task's boot path is more urgent.  So is Poll, which wakes every
\* 5 ms: before a frame of 12 ms is complete it has removed what was answered
\* by the frame before.
Arrived(type) ==
  /\ pc = "idle" /\ bootPc = "up"
  /\ \A s \in answered : tries[s] = 0
  /\ toDev # <<>> /\ Frame.type = type
Consume == toDev' = Tail(toDev)

\* upg_request_rsp refuses an image that is too long.
RefuseUpgrade ==
  /\ Arrived("UPG") /\ Size[Frame.img] > Limit
  /\ fwLen' = 0 /\ Consume
  /\ UNCHANGED <<offset, pageLen, parse, requests, flash, boot, toHost, host,
                 faults>>

BeginUpgrade ==
  /\ Arrived("UPG") /\ Size[Frame.img] <= Limit
  /\ fwLen' = Size[Frame.img] /\ Consume
  /\ pc' = "init"
  /\ UNCHANGED <<offset, pageLen, answerTo, requests, flash, boot,
                 toHost, host, faults>>

\* bootloader_eraseStorageSlot, 10 ms later.  When it fails (or
\* bootloader_init does) the handler returns: fw_len stays changed.
Erase ==
  /\ pc = "init"
  /\ \/ slot' = Empty /\ pc' = "erased" /\ UNCHANGED faults
     \/ Fault("flash") /\ pc' = "idle" /\ UNCHANGED slot
  /\ UNCHANGED <<iap, answerTo, requests, record, installed, boot,
                 toDev, toHost, host>>

\* 100 ms later: answer the host and ask for the first piece.  Without a
\* buffer for the answer there is no request either.
AcceptUpgrade ==
  /\ pc = "erased"
  /\ offset' = 0 /\ pageLen' = PageLen
  /\ \E n \in 0 .. 2 :
       /\ Gets(n, 2)
       /\ toHost' = IF n = 0 THEN toHost ELSE Append(toHost, [type |-> "ASK"])
       /\ Request(0, n = 2)
  /\ pc' = "idle"
  /\ UNCHANGED <<fwLen, answerTo, answered, flash, boot, toDev, host>>

\* upg_data_rsp stores the piece it asked for: intact, at the offset it is
\* waiting for, no longer than a page.
\* Mutant: the offset of the piece is not compared.
FitsAnyOffset == Frame.intact /\ Frame.len <= pageLen
Fits == Frame.intact /\ Frame.off = offset /\ Frame.len <= pageLen

Store ==
  \/ /\ Fits
     /\ slot' = slot \o Part(Frame.img, Frame.off, Frame.off + Frame.len)
     /\ offset' = offset + Frame.len
     /\ UNCHANGED faults
  \/ Fits /\ Fault("flash") /\ UNCHANGED <<slot, offset>>
  \/ ~Fits /\ UNCHANGED <<slot, offset, faults>>

\* Mutant: the handler returns after a bad piece, as in the lines commented
\* out at app/uart_ptl.c:661 and 670.
DataReturnsEarly ==
  /\ Arrived("RSP") /\ Consume
  /\ Store
  /\ answerTo' = Frame.sn
  /\ pc' = IF offset' = offset THEN "mark" ELSE "next"
  /\ UNCHANGED <<fwLen, pageLen, requests, record, installed, boot, toHost,
                 host>>

Data ==
  /\ Arrived("RSP") /\ Consume
  /\ Store
  /\ answerTo' = Frame.sn
  /\ pc' = "next"
  /\ UNCHANGED <<fwLen, pageLen, requests, record, installed, boot, toHost,
                 host>>

\* More to come: the next request is made whatever became of the piece.
NextPiece ==
  /\ pc = "next" /\ offset < fwLen
  /\ \E n \in 0 .. 1 : Gets(n, 1) /\ Request(offset, n = 1)
  /\ pc' = "mark"
  /\ UNCHANGED <<iap, answerTo, answered, flash, boot, toDev, toHost,
                 host>>

\* uart_protocol_parse marks the request once the handler is back.
Mark ==
  /\ pc = "mark"
  /\ answered' = answered \cup ({answerTo} \cap Open)
  /\ pc' = "idle"
  /\ UNCHANGED <<iap, answerTo, sn, asked, tries, flash, boot, toDev,
                 toHost, host, faults>>

\* Mutant: the image is not verified.
VerifiedUnchecked == TRUE
\* bootloader_verifyImage: the slot holds a complete image.
Verified == \E i \in Image : slot = Whole(i)

\* bootloader_setImageToBootload and the record.
Finish ==
  /\ pc = "next" /\ offset >= fwLen /\ Verified
  /\ \/ record' = TRUE /\ UNCHANGED faults
     \/ Fault("mark") /\ UNCHANGED record
  /\ pc' = "delay"
  /\ UNCHANGED <<iap, answerTo, requests, slot, installed, boot, toDev,
                 toHost, host>>

\* iap_done(1).
Reject ==
  /\ pc = "next" /\ offset >= fwLen /\ ~Verified
  /\ \E n \in 0 .. 1 :
       /\ Gets(n, 1)
       /\ toHost' = IF n = 0 THEN toHost
                    ELSE Append(toHost, [type |-> "NTF", done |-> 1])
  /\ pc' = "mark"
  /\ UNCHANGED <<iap, answerTo, requests, flash, boot, toDev, host>>

-----------------------------------------------------------------------------
(* Resets and the boot.                                                    *)

\* RAM is cleared, frames not transmitted or received yet may be lost.
Reset ==
  /\ fwLen' = 0 /\ offset' = 0 /\ pageLen' = 0
  /\ pc' = "idle" /\ answerTo' = 0
  /\ sn' = 0 /\ asked' = <<>> /\ tries' = <<>> /\ answered' = {}
  /\ bootPc' = "check"
  /\ \E n \in 0 .. Len(toDev) : toDev' = SubSeq(toDev, n + 1, Len(toDev))
  /\ \E n \in 0 .. Len(toHost) : toHost' = SubSeq(toHost, 1, n)
  /\ UNCHANGED <<slot, record, host>>

\* bootloader_rebootAndInstall, one second after the record was written.
RebootAndInstall ==
  /\ pc = "delay"
  /\ installed' = slot /\ unreported' = TRUE
  /\ Reset /\ UNCHANGED faults

\* Any other reset: the bootloader starts the firmware that is installed.
Crash ==
  /\ IF pc = "delay" THEN Fault("crashDelay") ELSE Fault("crash")
  /\ Reset /\ UNCHANGED <<installed, unreported>>

BootCheck ==
  /\ bootPc = "check"
  /\ bootPc' = IF record THEN "clear" ELSE "up"
  /\ UNCHANGED <<iap, parse, requests, flash, unreported, toDev, toHost, host,
                 faults>>

\* Mutant: the record is not cleared.
BootKeepRecord ==
  /\ bootPc = "clear"
  /\ bootPc' = "notify"
  /\ UNCHANGED <<iap, parse, requests, flash, unreported, toDev, toHost, host,
                 faults>>

BootClear ==
  /\ bootPc = "clear"
  /\ \/ record' = FALSE /\ UNCHANGED faults
     \/ Fault("clear") /\ UNCHANGED record
  /\ bootPc' = "notify"
  /\ UNCHANGED <<iap, parse, requests, slot, installed, unreported, toDev,
                 toHost, host>>

\* iap_done(0).
BootNotify ==
  /\ bootPc = "notify"
  /\ toHost' = Append(toHost, [type |-> "NTF", done |-> 0])
  /\ unreported' = FALSE
  /\ bootPc' = "up"
  /\ UNCHANGED <<iap, parse, requests, flash, toDev, host, faults>>

-----------------------------------------------------------------------------
(* The host and the line.                                                  *)

HostStart ==
  /\ sessions < Sessions
  /\ sessions' = sessions + 1
  /\ offer' \in Image
  /\ hostPc' = "asking"
  /\ toDev' = Append(toDev, [type |-> "UPG", img |-> offer'])
  /\ UNCHANGED <<iap, parse, requests, flash, boot, toHost, faults>>

\* The rest of the image, at most a page, empty beyond its end.
Piece(off) ==
  IF off >= Size[offer] THEN 0
  ELSE IF Size[offer] - off < PageLen THEN Size[offer] - off ELSE PageLen

Answer(r) == [type |-> "RSP", sn |-> r.sn, off |-> r.off, img |-> offer,
              len |-> Piece(r.off), intact |-> TRUE]

HostReceive ==
  /\ toHost # <<>>
  /\ toHost' = Tail(toHost)
  /\ LET f == Head(toHost)
     IN \/ /\ f.type = "ASK"
           /\ hostPc' = IF hostPc = "asking" THEN "serving" ELSE hostPc
           /\ UNCHANGED toDev
        \/ /\ f.type = "NTF"
           /\ hostPc' = IF hostPc # "serving" THEN hostPc
                        ELSE IF f.done = 0 THEN "done" ELSE "failed"
           /\ UNCHANGED toDev
        \/ /\ f.type = "REQ"
           /\ toDev' = IF hostPc = "serving" THEN Append(toDev, Answer(f))
                                             ELSE toDev
           /\ UNCHANGED hostPc
  /\ UNCHANGED <<iap, parse, requests, flash, boot, offer, sessions, faults>>

\* A frame fails its checksum, or is overwritten in the receive ring.
Lose ==
  /\ Fault("lose")
  /\ \/ toDev # <<>> /\ toDev' = Tail(toDev) /\ UNCHANGED toHost
     \/ toHost # <<>> /\ toHost' = Tail(toHost) /\ UNCHANGED toDev
  /\ UNCHANGED <<iap, parse, requests, flash, boot, host>>

\* The checksum byte holds but the CRC of the piece does not.
Corrupt ==
  /\ toDev # <<>> /\ Frame.type = "RSP" /\ Frame.intact
  /\ Fault("corrupt")
  /\ toDev' = [toDev EXCEPT ![1].intact = FALSE]
  /\ UNCHANGED <<iap, parse, requests, flash, boot, toHost, host>>

-----------------------------------------------------------------------------
Poll == \E s \in Open : Transmit(s) \/ Close(s)

Parse == \/ RefuseUpgrade \/ BeginUpgrade \/ Erase \/ AcceptUpgrade
         \/ Data \/ NextPiece \/ Mark \/ Finish \/ Reject

Boot == BootCheck \/ BootClear \/ BootNotify

Next == \/ Poll \/ Parse \/ RebootAndInstall \/ Boot
        \/ HostStart \/ HostReceive
        \/ Lose \/ Corrupt \/ Crash

Spec == Init /\ [][Next]_vars

\* Poll wakes every 5 ms, Parse and Main are scheduled, the delays end, and
\* the host answers.  Faults and new sessions are never obliged to happen.
Fairness ==
  /\ \A s \in 0 .. SnMod - 1 :
       WF_vars(s \in Open /\ (Transmit(s) \/ Close(s)) /\ faults' = faults)
  /\ WF_vars(Parse /\ faults' = faults)
  /\ WF_vars(RebootAndInstall) /\ WF_vars(Boot /\ faults' = faults)
  /\ WF_vars(HostReceive)

FairSpec == Spec /\ Fairness

-----------------------------------------------------------------------------
(* Properties.                                                             *)

\* A piece asked for below the limit may reach beyond it when the image of a
\* later session is served.
Reach == Limit + PageLen
Units == {<<i, n>> : i \in Image, n \in 1 .. Reach}

TypeOK ==
  /\ fwLen \in 0 .. Limit /\ offset \in 0 .. Reach /\ pageLen \in {0, PageLen}
  /\ pc \in {"idle", "init", "erased", "next", "mark", "delay"}
  /\ sn \in 0 .. SnMod - 1 /\ answerTo \in 0 .. SnMod - 1
  /\ Open \subseteq 0 .. SnMod - 1 /\ Cardinality(Open) <= PoolSize
  /\ DOMAIN tries = Open /\ answered \subseteq Open
  /\ \A s \in Open : asked[s] \in 0 .. Limit /\ tries[s] \in 0 .. MaxTimes
  /\ slot \in Seq(Units) /\ installed \in Seq(Units)
  /\ record \in BOOLEAN /\ unreported \in BOOLEAN
  /\ bootPc \in {"check", "clear", "notify", "up"}
  /\ hostPc \in {"idle", "asking", "serving", "done", "failed"}
  /\ offer \in Image \cup {NoImage}
  /\ sessions \in 0 .. Sessions /\ faults \in 0 .. MaxFaults

\* Whatever is retransmitted, lost, answered twice or answered for an earlier
\* session, iap_str.offset is how much is in the slot, and the slot holds the
\* beginning of one image (upg_data_rsp).  The latter is true of two sessions:
\* a piece does not name its image, so a third begun before the first was
\* accepted, and whose request is lost, can continue the second.  Then only
\* bootloader_verifyImage prevents the worst (RunsWholeImage).
SlotIsPrefix ==
  /\ sessions <= 2 => \E i \in Image : IsPrefix(slot, Whole(i))
  /\ pageLen > 0 /\ pc \notin {"init", "erased"} => offset = Len(slot)

\* The firmware that is installed is one complete image of the host, even if
\* the flash failed (bootloader_verifyImage in upg_data_rsp).
RunsWholeImage == installed = Empty \/ \E i \in Image : installed = Whole(i)

\* Success is reported once for each installation, and only for one: the boot
\* "checks whether the reason of the reset was an upgrade" (main.c:467).
ReportsInstallation == [][BootNotify => unreported]_vars

\* An image the host serves is installed and reported, as long as fewer than
\* MaxTimes faults hit the transfer: upg_data_rsp asks again after a bad piece
\* or a failed write, Poll retransmits.
UpgradeCompletes ==
  hostPc = "serving" ~>
    \E i \in Image : offer = i /\ installed = Whole(i) /\ ~unreported

\* Between two resets the requests of an upgrade live by the rules of Outbox,
\* which UartTx implements.
Transfer == INSTANCE Outbox WITH
  Frame <- 0 .. SnMod - 1, replies <- <<>>

UsesOutbox == Transfer!Init /\ [][Transfer!Next \/ Reset]_<<tries, answered>>
=============================================================================
