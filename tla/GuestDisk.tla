----------------------------- MODULE GuestDisk -----------------------------
(***************************************************************************)
(* What the flash disk of the Pico promises its users (the CP/M guest      *)
(* behind the disk ports, and the image upload command `xr'): a logical    *)
(* disk that every read sees, of which the records of at most one sector   *)
(* are not yet durable.  Any later disk command makes them durable, a      *)
(* restart forgets them, and a power loss may also tear them, but nothing  *)
(* ever touches another sector.  The records among them that are not the   *)
(* disk's may be named as well: they hold anything, and no other record    *)
(* changes with them.  FlashDisk.tla models the code and implements this.  *)
(***************************************************************************)
EXTENDS Integers

CONSTANTS Records,    \* the numbers of the records of the disk
          PerSector,  \* records in a sector, the unit of durability
          Data,       \* contents of a record
          Erased      \* the content of a record of an erased sector

NoSector == -1

VARIABLES image,    \* the logical disk: what a read returns
          stable,   \* what a restart would find
          at_risk,  \* the one sector where they may differ, or NoSector
          record,   \* the record that the guest's registers name
          mem       \* the guest's record buffer

vars == <<image, stable, at_risk, record, mem>>

Disk == [Records -> Data]
Of(s) == {r \in Records : r \div PerSector = s}
Sectors == {r \div PerSector : r \in Records}

Init == /\ image \in Disk
        /\ stable = image
        /\ at_risk = NoSector
        /\ record \in Nat
        /\ mem \in Data

\* The guest prepares a record in its memory.
Fill == /\ mem' \in Data
        /\ UNCHANGED <<image, stable, at_risk, record>>

\* The guest names another record.
Seek == /\ record' \in Nat
        /\ UNCHANGED <<image, stable, at_risk, mem>>

\* Everything written so far becomes durable.
Sync == stable' = image /\ at_risk' = NoSector

\* A command that only synchronises: a write that is refused, a drive select
\* (which may name another record), boot, end of an upload.
SyncOnly == Sync /\ record' \in Nat /\ UNCHANGED <<image, mem>>

\* A read returns the latest contents of the record named.
Read == /\ IF record \in Records THEN mem' = image[record] ELSE mem' \in Data
        /\ Sync
        /\ UNCHANGED <<image, record>>

\* A write changes the record named and no other; earlier writes become durable.
Write == /\ image' = IF record \in Records
                     THEN [image EXCEPT ![record] = mem] ELSE image
         /\ stable' = image
         /\ at_risk' = record \div PerSector
         /\ UNCHANGED <<record, mem>>

\* A piece of an uploaded image replaces records of one sector.  Data of
\* another sector becomes durable first; data of the same sector need not.
Upload(s) == /\ image' \in Disk
             /\ \A r \in Records \ Of(s) : image'[r] = image[r]
             /\ stable' = IF at_risk = s THEN stable ELSE image
             /\ at_risk' = s
             /\ UNCHANGED <<record, mem>>

\* A restart forgets what is not durable.
Started == at_risk' = NoSector /\ record' \in Nat /\ mem' \in Data
Restart == image' = stable /\ UNCHANGED stable /\ Started

\* A power loss while the sector at risk is being written leaves each of its
\* records new or erased; no other sector is affected.
PowerLoss ==
  \E torn \in SUBSET Of(at_risk) :
    /\ image' = [r \in Records |-> IF r \in torn THEN Erased
                                   ELSE IF r \in Of(at_risk) THEN image[r]
                                   ELSE stable[r]]
    /\ stable' = image'
    /\ Started

Next == \/ Fill \/ Seek \/ SyncOnly
        \/ Read \/ Write
        \/ \E s \in Sectors : Upload(s)
        \/ Restart \/ PowerLoss

Spec == Init /\ [][Next]_vars
=============================================================================
