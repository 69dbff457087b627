----------------------------- MODULE MCSettings -----------------------------
(***************************************************************************)
(* Settings of six bytes: the mark of valid settings, automatic boot, the  *)
(* mark of a valid name and three bytes of name.  Names share characters   *)
(* and differ in length.  The flash is new, or holds something else that   *)
(* looks like a name.                                                      *)
(***************************************************************************)
EXTENDS Settings

MCNames == {<<1>>, <<2, 1>>, <<2, 2>>}
MCInitialStore == {[a \in Addresses |-> Erased],
                   [a \in Addresses |-> IF a \in {1, 2} THEN Set
                                        ELSE IF a = 3 THEN 2 ELSE 0]}
=============================================================================
