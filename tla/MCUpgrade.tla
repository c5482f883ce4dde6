------------------------------ MODULE MCUpgrade ------------------------------
(* Small instances of Upgrade for TLC: PageLen is 2, so that images of size   *)
(* 2, 3 and 4 take one page, one and a half, and two; 5 is over the limit.    *)
EXTENDS Upgrade, TLC

CONSTANTS a, b, tooLong

OneImage == {a}
OneSize == (a :> 3)
Images == {a, b, tooLong}
Sizes == (a :> 3) @@ (b :> 2) @@ (tooLong :> 5)
=============================================================================
