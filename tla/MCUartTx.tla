------------------------------ MODULE MCUartTx ------------------------------
(* Small instances of UartTx for TLC.                                      *)
EXTENDS UartTx, TLC

CONSTANTS b1, b2, b3

TwoBufs == {b1, b2}
TwoOrder == <<b1, b2>>
ThreeBufs == {b1, b2, b3}
ThreeOrder == <<b1, b2, b3>>
=============================================================================
