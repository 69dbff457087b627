-------------------------------- MODULE Rings --------------------------------
(***************************************************************************)
(* The rings through which interrupt handlers and the program exchange     *)
(* characters: the serial console of the ATmega88 (con_avr_uart.c) and the *)
(* USB console of the ATmega32U2 (con_avr_cdc.c).  A build has one of the  *)
(* two; each is specified by itself.                                       *)
(***************************************************************************)
CONSTANTS
  UartSize,                          \* Size of UartFifo: 8
  TxSize, RxSize, Packet, Requests,  \* of CdcConsole: 16, 4, 32
  UartChars, UartPuts, CdcPuts, CdcChars, MaxPacket, MaxSetups, MaxResets  \* bounds

VARIABLES
  fifo, rd, wr, uartMain, handler, enabled, flag, rxd, started, pushed, uartGot,
  puts,
  state, tx, rx, main, isr, bank, txini, txine, out, setup, bank0, data0,
  transfer, enum, put, cdcTaken, cdcSent, got, setups, resets

Uart == INSTANCE UartFifo
          WITH Size <- UartSize, MaxChars <- UartChars, MaxPuts <- UartPuts,
               main <- uartMain, got <- uartGot
Cdc == INSTANCE CdcConsole
         WITH MaxPut <- CdcPuts, MaxSent <- CdcChars,
              taken <- cdcTaken, sent <- cdcSent

ASSUME RingsAssumption == Uart!UartAssumption /\ Cdc!CdcAssumption

uartVars == <<fifo, rd, wr, uartMain, handler, enabled, flag, rxd, started,
              pushed, uartGot, puts>>
cdcVars == <<state, tx, rx, main, isr, bank, txini, txine, out, setup, bank0,
             data0, transfer, enum, put, cdcTaken, cdcSent, got, setups, resets>>

\* No fairness: what they promise here is safety.
RingsSpec == Uart!Spec /\ Cdc!Init /\ [][Cdc!Next]_Cdc!vars
-----------------------------------------------------------------------------
\* The AVR's consoles hand over the characters in order and none twice,
\* wherever an interrupt falls; nothing of what con_putchar() of the USB console
\* was given is lost, and the indices stay within their rings.  Not told apart
\* from noise on the line: a character that nobody sent, which the UART's
\* con_putchar() receives when the handler was there first (con_avr_uart.c:125;
\* ReceivedWereSent of UartFifo says that it does not, and fails).
RingsInOrder == /\ Uart!TypeOK /\ Cdc!TypeOK
                /\ Uart!InOrder /\ Cdc!TxInOrder /\ Cdc!RxInOrder

\* They drop a character they have received when the ring is full, and
\* otherwise keep it.  Left out: the UART's ring with rdptr 0, whose test for
\* room does not wrap (con_avr_uart.c:74), so that the character that fills it
\* empties it (PeekTrue of UartFifo fails), and what the USB console had in an
\* endpoint when the bus was reset.
DroppedOnlyFull == Uart!PushKept /\ Cdc!RxLossOnlyFull
=============================================================================
