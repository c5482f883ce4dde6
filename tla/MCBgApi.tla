------------------------------ MODULE MCBgApi ------------------------------
(* The instances of the stack commands that TLC checks. *)
EXTENDS BgApi

MCThree == {"app", "main", "notify"}
MCTwo == {"app", "notify"}
=============================================================================
