--------------------------- MODULE SettingsStore ---------------------------
(***************************************************************************)
(* What the settings promise the monitor's user: a restart finds the disk  *)
(* image mounted last and the automatic boot as set last.  While another   *)
(* image is being mounted the old name is forgotten; no restart ever finds *)
(* a name that is not the one asked for last.  A power loss during a       *)
(* change may lose all settings, never a part.                             *)
(***************************************************************************)
CONSTANTS Names,  \* names of disk images
          None    \* no image is remembered

VARIABLES asked,      \* the name to mount, from the last `m' or restart
          remembered, \* the name a restart would find, or None
          auto_boot   \* a restart would boot

vars == <<asked, remembered, auto_boot>>

Init == asked = None /\ remembered = None /\ auto_boot = FALSE

Ask(n) == asked' = n /\ UNCHANGED <<remembered, auto_boot>>
Forget == remembered' = None /\ UNCHANGED <<asked, auto_boot>>
Remember == /\ asked \in Names /\ remembered = None
            /\ remembered' = asked
            /\ UNCHANGED <<asked, auto_boot>>
SetAuto == auto_boot' \in BOOLEAN /\ UNCHANGED <<asked, remembered>>
Restart == asked' = remembered /\ UNCHANGED <<remembered, auto_boot>>
Lost == asked' = None /\ remembered' = None /\ auto_boot' = FALSE

Next == \/ \E n \in Names : Ask(n)
        \/ Forget \/ Remember \/ SetAuto \/ Restart \/ Lost

Spec == Init /\ [][Next]_vars
=============================================================================
