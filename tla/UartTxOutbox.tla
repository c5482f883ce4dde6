---------------------------- MODULE UartTxOutbox ----------------------------
(* The transmit path of UartTx keeps the promise of Outbox, as long as the *)
(* kernel has a message for every post and a transmission ends before its  *)
(* answer or its retry (MsgPoolSize >= Cardinality(Buf), Timely).          *)
EXTENDS UartTx, Lists

\* The buffers whose frame expects no answer.
ReplyBufs == {b \in Buf : poll[b].type = 0}

\* Posted to Send and not given to the UART yet.
Waiting == (IF sendPc = "got" THEN <<sendCur>> ELSE <<>>) \o queue

\* The list without the reply Poll has posted and is about to unlink.
Listed == IF pollPc = "unlink" THEN RemoveAt(sendList, cursor) ELSE sendList

Replies == Pick(Waiting \o Listed, ReplyBufs)

OpenRequests == Range(sendList) \ ReplyBufs

\* A transmission counts when the UART gets it, not when it is posted.
Transmissions(b) == poll[b].times - (IF b \in Range(Waiting) THEN 1 ELSE 0)

Tries == [b \in OpenRequests |-> Transmissions(b)]

Answered == {b \in OpenRequests : poll[b].flag}

Promise == INSTANCE Outbox WITH
  Frame    <- Buf,
  replies  <- Replies,
  tries    <- Tries,
  answered <- Answered

\* Every step of the tasks, of Poll and of Send is a step of Outbox or leaves
\* what it promises unchanged: replies are transmitted in the order in which
\* the producers listed them, exactly once, whatever the interleaving of
\* posts, transmissions, retries and answers (App_Uart_Poll_Task,
\* App_Uart_Send_Task).
KeepsPromise == Promise!Spec
=============================================================================
