------------------------------ MODULE MCUartRx -------------------------------
(* Small instances of UartRx for TLC.  Bytes are digits in base 3, 2 is the   *)
(* header; frames of length 1 and 2, some with the header in their payload.   *)
EXTENDS UartRx, TLC

One(d) == <<2, 0, 1, d, d>>
Two(d, e) == <<2, 0, 2, d, e, (d + e) % 3>>

ShortFrames == {One(0), One(2)}
Frames == {One(1), Two(2, 2)}
=============================================================================
