------------------------------ MODULE MCXmodem ------------------------------
(***************************************************************************)
(* Xmodem with a few blocks and few tries.                                 *)
(***************************************************************************)
EXTENDS Xmodem
=============================================================================
