------------------------------- MODULE Outbox -------------------------------
(***************************************************************************)
(* What the transmit path promises the tasks that use it, without tasks,   *)
(* lists, polls or interrupts: replies leave in the order in which they    *)
(* were accepted, each exactly once; a request is transmitted at most      *)
(* MaxTimes times, never after its answer, and is closed only when it has  *)
(* been answered or its transmissions are used up.                         *)
(***************************************************************************)
EXTENDS Naturals, SequencesExt

CONSTANTS Frame,    \* names for the frames outstanding at one time
          MaxTimes  \* transmissions of an unanswered request

VARIABLES replies,  \* accepted replies not transmitted yet, oldest first
          tries,    \* transmissions of each open request so far
          answered  \* the open requests that have been answered

vars == <<replies, tries, answered>>

Requests == DOMAIN tries

Init == replies = <<>> /\ tries = <<>> /\ answered = {}

Fresh(f) == f \notin Range(replies) \cup Requests

AcceptReply(f) ==
  /\ Fresh(f)
  /\ replies' = Append(replies, f)
  /\ UNCHANGED <<tries, answered>>

AcceptRequest(f) ==
  /\ Fresh(f)
  /\ tries' = [g \in Requests \cup {f} |-> IF g = f THEN 0 ELSE tries[g]]
  /\ UNCHANGED <<replies, answered>>

SendReply ==
  /\ replies # <<>>
  /\ replies' = Tail(replies)
  /\ UNCHANGED <<tries, answered>>

SendRequest(f) ==
  /\ f \notin answered /\ tries[f] < MaxTimes
  /\ tries' = [tries EXCEPT ![f] = @ + 1]
  /\ UNCHANGED <<replies, answered>>

\* Only what has been sent can be answered.
Answer(f) ==
  /\ tries[f] > 0
  /\ answered' = answered \cup {f}
  /\ UNCHANGED <<replies, tries>>

Close(f) ==
  /\ f \in answered \/ tries[f] = MaxTimes
  /\ tries' = [g \in Requests \ {f} |-> tries[g]]
  /\ answered' = answered \ {f}
  /\ UNCHANGED replies

Next ==
  \/ \E f \in Frame : AcceptReply(f) \/ AcceptRequest(f)
  \/ SendReply
  \/ \E f \in Requests : SendRequest(f) \/ Answer(f) \/ Close(f)

Spec == Init /\ [][Next]_vars
=============================================================================
