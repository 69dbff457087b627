------------------------------ MODULE MCSdCard ------------------------------
(***************************************************************************)
(* The SD card drivers with two sectors of two records.  Byte addresses of *)
(* a sector are twice its number, so that a wrong unit names another       *)
(* sector or none at all.  Three settings: on the Pico a card of any kind  *)
(* behind a line that may lose an answer; on the Pico a card that is       *)
(* exchanged; and the AVR.                                                 *)
(***************************************************************************)
EXTENDS SdDrivers

VARIABLE setting

Card(v2, hc, clocks, polls) ==
  [v2 |-> v2, hc |-> hc, clocks |-> clocks, warm |-> polls]
MCCards == {Card(TRUE, FALSE, "any", 1), Card(FALSE, FALSE, "refuses", 0),
            Card(TRUE, FALSE, "refuses", 3), Card(TRUE, TRUE, "needs", 1),
            Card(TRUE, TRUE, "never", 1), Card(TRUE, TRUE, "any", 2)}
\* Every record of every sector is told apart.
ImageOf(cards) == [c \in cards |-> [s \in Sectors |-> [r \in Records |-> 2 * s + r]]]
MCImage == ImageOf(Cards)

\* Cards of version 2: for an older one the unit of the card before would stay.
Exchangeable == {c \in Cards : c.v2 /\ c.warm = 1 /\ c.clocks # "never"} \cup {NoCard}

\* The AVR driver sends no clocks before a command.
MCAvrCards == {Card(FALSE, FALSE, "any", 1), Card(TRUE, FALSE, "refuses", 0),
               Card(TRUE, TRUE, "any", 2)}
MCAvrImage == ImageOf(AvrCards)

avrVars == <<avrCard, avrPhase, avrWarm, avrMedia, avrFaults, avrExchanges,
             avrBuffer, cur_blk, avrCcs, avrPc, avrRc, avrErr, avrMem, avrRequest>>
allVars == <<setting, vars, avrVars>>
MCInit == /\ setting \in {"line", "slot", "avr"}
          /\ Init /\ (setting = "slot" => card \in Exchangeable)
          /\ setting = "avr" => card = NoCard
          /\ Avr!Init /\ (setting # "avr" => avrCard = NoCard)
\* Bounds: of the monitor's ss, write protection and a lost answer one in a
\* run, and none while cards are exchanged.
Stored == stores' > 0
Missing == faults' < MaxFaults
Line == /\ Next /\ UNCHANGED exchanges
        /\ ~(Stored /\ Missing) /\ ~(Stored /\ wr_prt') /\ ~(Missing /\ wr_prt')
Slot == Next /\ UNCHANGED <<faults, stores, wr_prt>> /\ card' \in Exchangeable
MCNext == \/ setting = "line" /\ Line /\ UNCHANGED <<setting, avrVars>>
          \/ setting = "slot" /\ Slot /\ UNCHANGED <<setting, avrVars>>
          \/ setting = "avr" /\ Avr!Next /\ UNCHANGED <<setting, vars>>
MCSpec == /\ MCInit /\ [][MCNext]_allVars
          /\ WF_vars(setting # "avr" /\ (Open \/ WriteFlush))
          /\ WF_avrVars(setting = "avr" /\ (Avr!Open \/ Avr!WriteFlush))
-----------------------------------------------------------------------------
\* Opening and writing come to an end, with a lost answer, with another card
\* or without any.
EveryCallReturns ==
  /\ setting # "avr" /\ pc # "idle" ~> pc = "idle"
  /\ setting = "avr" /\ avrPc # "idle" ~> avrPc = "idle"
=============================================================================
