------------------------------ MODULE SdDrivers ------------------------------
(***************************************************************************)
(* The two drivers of an SD card side by side, each with cards of its own: *)
(* SdCard of the Pico and SdCardAvr of the AVR.  The AVR's card stays in   *)
(* its slot, on a line that loses nothing.                                 *)
(***************************************************************************)
EXTENDS SdCard

CONSTANTS AvrCards, AvrImage   \* the AVR's cards, and what they hold at first

VARIABLES
  avrCard, avrPhase, avrWarm, avrMedia, avrFaults, avrExchanges,
  avrBuffer, cur_blk, avrCcs, avrPc, avrRc, avrErr, avrMem, avrRequest

Avr == INSTANCE SdCardAvr
         WITH Cards <- AvrCards, Image <- AvrImage,
              MaxFaults <- 0, MaxExchanges <- 0,
              card <- avrCard, phase <- avrPhase, warm <- avrWarm,
              media <- avrMedia, faults <- avrFaults, exchanges <- avrExchanges,
              buffer <- avrBuffer, ccs <- avrCcs, pc <- avrPc, rc <- avrRc,
              disk_err <- avrErr, mem <- avrMem, request <- avrRequest

ASSUME AvrAssumption == Avr!CardAssumption /\ Avr!ValuesAssumption

DriversSpec == Spec /\ Avr!Init /\ [][Avr!Next]_Avr!vars
-----------------------------------------------------------------------------
\* Opening finds the cards that are there and only those, by either driver.
OpeningFinds == OpenFindsCard /\ Avr!OpenFindsCard

\* What the guest reads is what the card holds, by either driver and whatever
\* the unit of the card's addresses.
ReadingIsRight == ReadIsRecord /\ Avr!ReadIsRecord
=============================================================================
