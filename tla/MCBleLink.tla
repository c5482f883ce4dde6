----------------------------- MODULE MCBleLink -----------------------------
(* The instance of the Bluetooth side that TLC checks. *)
EXTENDS BleLink

\* A frame within one notification of any size, and one beyond the largest.
MCFrameLen == {1, 3}
\* Frames of as many units as the buffer holds.
MCPhoneLen == {4}
=============================================================================
