------------------------------ MODULE SdMedium ------------------------------
(***************************************************************************)
(* The SD card behind the drivers sdcard_pico.c and sdcard_avr.c, and the  *)
(* line to it: outside of the repository, modelled from how the drivers    *)
(* use it.  An answer is the R1 byte, -1 when none comes.  A card takes    *)
(* byte addresses, or sector numbers when it is of high capacity; it needs *)
(* its time after CMD0; and, as the comment at sdcard_pico.c:110 tells, it *)
(* may insist on or refuse clocks before a command.  The line loses or     *)
(* spoils at most MaxFaults answers (of those to CMD8 the echo as well),   *)
(* and cards are exchanged at most MaxExchanges times.                     *)
(***************************************************************************)
EXTENDS Integers, FiniteSets

CONSTANTS
  Cards,        \* [v2, hc, clocks, warm]: the cards at hand
  NoCard,       \* the empty slot
  Sectors,      \* sectors of a card, 0 .. n
  Records,      \* records in a sector: 0 .. 3 in a sector of 512 bytes
  SectorBytes,  \* 512
  Data, Blank,  \* contents of a record, and of one the card never gave
  Image,        \* what each card holds at first
  MaxFaults, MaxExchanges

Sector == [Records -> Data]

ASSUME CardAssumption ==
  /\ NoCard \notin Cards
  /\ Cards \subseteq [v2 : BOOLEAN, hc : BOOLEAN,
                      clocks : {"needs", "refuses", "any", "never"}, warm : Nat]
  /\ \A c \in Cards : c.hc => c.v2
  /\ Sectors \subseteq Nat /\ 0 \in Sectors /\ 0 \in Records
  /\ SectorBytes \in Nat \ {0, 1}
  /\ Blank \in Data
  /\ Image \in [Cards -> [Sectors -> Sector]]
  /\ MaxFaults \in Nat /\ MaxExchanges \in Nat

VARIABLES
  card,      \* the card in the slot
  phase,     \* of the card: "off", "idle" (initialising) or "ready"
  warm,      \* polls until it is ready
  media,     \* contents of the cards
  faults,    \* answers that the line may still lose
  exchanges  \* exchanges of the card that may still come

cardVars == <<card, phase, warm, media, faults, exchanges>>

CardTypeOK ==
  /\ card \in Cards \cup {NoCard}
  /\ phase \in {"off", "idle", "ready"}
  /\ warm \in Nat
  /\ media \in [Cards -> [Sectors -> Sector]]
  /\ faults \in 0 .. MaxFaults
  /\ exchanges \in 0 .. MaxExchanges

CardInit ==
  /\ card \in Cards \cup {NoCard}
  /\ phase = "off" /\ warm = 0
  /\ media = Image
  /\ faults = MaxFaults /\ exchanges = MaxExchanges

NoAnswer == -1
IdleState == 1
Illegal == 5
AddressError == 32

\* An answer that does not come in time, or is spoilt.
Lost == /\ faults > 0
        /\ faults' = faults - 1
        /\ UNCHANGED <<card, phase, warm, media, exchanges>>

Silent == card = NoCard \/ phase = "off"

\* CMD0 resets a card to its idle state.
Cmd0(c) == \/ /\ card = NoCard
              /\ c = NoAnswer
              /\ UNCHANGED cardVars
           \/ /\ card # NoCard
              /\ c = IdleState
              /\ phase' = "idle" /\ warm' = card.warm
              /\ UNCHANGED <<card, media, faults, exchanges>>
           \/ Lost /\ c = NoAnswer

\* CMD8 is illegal for a card of version 1; the others echo its argument,
\* unless the line spoils the four bytes.
Cmd8(c, echo) ==
  \/ /\ c = CASE Silent -> NoAnswer
              [] ~Silent /\ ~card.v2 -> Illegal
              [] OTHER -> IdleState
     /\ echo = (c = IdleState)
     /\ UNCHANGED cardVars
  \/ Lost /\ c = NoAnswer /\ ~echo
  \/ Lost /\ ~Silent /\ card.v2 /\ c = IdleState /\ ~echo

\* Some cards object to pre-clocks, some to their lack, unfit ones to both.
Objects(preclocks) ==
  card.clocks \in {"never", IF preclocks THEN "refuses" ELSE "needs"}

\* CMD1, or CMD55 and ACMD41: has the card finished its initialisation?
Poll(c, preclocks) ==
  \/ /\ Silent
     /\ c = NoAnswer
     /\ UNCHANGED cardVars
  \/ /\ ~Silent
     /\ Objects(preclocks)
     /\ c = Illegal
     /\ UNCHANGED cardVars
  \/ /\ ~Silent
     /\ ~Objects(preclocks)
     /\ c = IF warm > 0 THEN IdleState ELSE 0
     /\ phase' = IF warm > 0 THEN phase ELSE "ready"
     /\ warm' = IF warm > 0 THEN warm - 1 ELSE 0
     /\ UNCHANGED <<card, media, faults, exchanges>>
  \/ Lost /\ c = NoAnswer

\* CMD58: the operating conditions tell the capacity class.
Ocr(c, hc) == \/ /\ c = IF Silent THEN NoAnswer ELSE 0
                 /\ hc = (~Silent /\ card.hc)
                 /\ UNCHANGED cardVars
              \/ Lost /\ c = NoAnswer /\ hc = FALSE

\* The sector that an argument of CMD17 or CMD24 means to the card, if any.
Addressed(arg) ==
  {s \in Sectors : arg = IF card.hc THEN s ELSE s * SectorBytes}
Serves(arg) == card # NoCard /\ phase = "ready" /\ Addressed(arg) # {}
SectorAt(arg) == CHOOSE s \in Addressed(arg) : TRUE

BlockAt(arg) == media[card][SectorAt(arg)]

\* CMD17; with the answer 0 the block follows.
ReadBlock(arg, c) ==
  \/ /\ c = CASE Serves(arg) -> 0
              [] Silent -> NoAnswer
              [] OTHER -> AddressError
     /\ UNCHANGED cardVars
  \/ Lost /\ c = NoAnswer

\* CMD24, the data block, its response and the end of busy.  When an answer
\* is lost the card may or may not have written.
WriteBlock(arg, d, c) ==
  \/ /\ Serves(arg)
     /\ c = 0 /\ media' = [media EXCEPT ![card][SectorAt(arg)] = d]
     /\ UNCHANGED <<card, phase, warm, faults, exchanges>>
  \/ /\ ~Serves(arg)
     /\ c = IF Silent THEN NoAnswer ELSE AddressError
     /\ UNCHANGED cardVars
  \/ Lost /\ c = NoAnswer
  \/ /\ Serves(arg) /\ faults > 0
     /\ c = NoAnswer /\ faults' = faults - 1
     /\ media' = [media EXCEPT ![card][SectorAt(arg)] = d]
     /\ UNCHANGED <<card, phase, warm, exchanges>>

\* Another card, or none, in the slot.
Exchange(c) == /\ exchanges > 0 /\ c # card
               /\ card' = c /\ phase' = "off" /\ warm' = 0
               /\ exchanges' = exchanges - 1
               /\ UNCHANGED <<media, faults>>
=============================================================================
