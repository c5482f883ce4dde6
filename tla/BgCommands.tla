----------------------------- MODULE BgCommands -----------------------------
(***************************************************************************)
(* What a task that calls a gecko_cmd_* function is promised: between the  *)
(* call and its return the Bluetooth stack executes that command, once,    *)
(* and answers it: the response the task reads before it returns is the    *)
(* one to that command.                                                    *)
(***************************************************************************)
EXTENDS Naturals

CONSTANT Callers    \* the tasks that issue stack commands

VARIABLES
  call,     \* how far the command of each task is
  serial    \* which of its commands it is, modulo 2

commandVars == <<call, serial>>

CallState == {"none", "issued", "executed", "answered"}

Init ==
  /\ call = [t \in Callers |-> "none"]
  /\ serial = [t \in Callers |-> 0]

Issue(t) ==
  /\ call[t] = "none"
  /\ call' = [call EXCEPT ![t] = "issued"]
  /\ UNCHANGED serial

Execute(t) ==
  /\ call[t] = "issued"
  /\ call' = [call EXCEPT ![t] = "executed"]
  /\ UNCHANGED serial

Answer(t) ==
  /\ call[t] = "executed"
  /\ call' = [call EXCEPT ![t] = "answered"]
  /\ UNCHANGED serial

Return(t) ==
  /\ call[t] = "answered"
  /\ call' = [call EXCEPT ![t] = "none"]
  /\ serial' = [serial EXCEPT ![t] = 1 - @]

Next ==
  \E t \in Callers : Issue(t) \/ Execute(t) \/ Answer(t) \/ Return(t)

Spec == Init /\ [][Next]_commandVars
=============================================================================
