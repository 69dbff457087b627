----------------------------- MODULE MCConsoles -----------------------------
(***************************************************************************)
(* The ways of a character between a user, or the host, and the program:   *)
(* the terminal with the line editor, the terminal with the output of the  *)
(* guest, the serial console of the ATmega88 with a ring of four and the   *)
(* USB console of the ATmega32U2 with a transmit ring of three.  A build   *)
(* has one console: the one that `console' names runs, the others stay at  *)
(* their start.                                                            *)
(***************************************************************************)
EXTENDS Terminal, Rings

VARIABLE console

\* The keys the editor tells apart ("b" among them), and for the guest's
\* output the bytes out() tells apart with two positions and a letter.
AllKeys == {BS, LF, CR, DLE, 98, 120}
NoBytes == {}
LineKeys == {CR, 98}
AllBytes == {ESC, Equals, Semicolon, SUB, 32, 111}
Guest == INSTANCE Terminal
           WITH Keys <- LineKeys, Bytes <- AllBytes,
                MaxTyped <- 5, MaxAhead <- 1, MaxSent <- 4

RingRequests == {[kind |-> k, size |-> 0, wLength |-> 0] :
                   k \in {"set_line_state", "plain"}}
ASSUME ConsolesAssumption == Guest!TerminalAssumption

MCInit == /\ console \in {"editor", "guest", "uart", "cdc"}
          /\ Init /\ Uart!Init /\ Cdc!Init
MCNext ==
  \/ console = "editor" /\ Next /\ UNCHANGED <<console, uartVars, cdcVars>>
  \/ console = "guest" /\ Guest!Next /\ UNCHANGED <<console, uartVars, cdcVars>>
  \/ console = "uart" /\ Uart!Next /\ UNCHANGED <<console, vars, cdcVars>>
  \/ console = "cdc" /\ Cdc!Next /\ UNCHANGED <<console, vars, uartVars>>
MCSpec == MCInit /\ [][MCNext]_<<console, vars, uartVars, cdcVars>>
-----------------------------------------------------------------------------
\* The reference for the translation: the sequences are matched whole on what
\* the guest has sent, ESC = row column, ESC ; and ^Z.
Value(d) == ((((d[1] * 10) + d[2]) * 10 + d[3]) * 10 + d[4]) * 10 + d[5]
RECURSIVE Reference(_)
Reference(s) ==
  LET Rest(n) == IF Len(s) < n THEN << >> ELSE Reference(SubSeq(s, n, Len(s)))
      Has(n, val) == Len(s) >= n /\ s[n].val = val
      At(n, name) == IF Len(s) < n \/ s[n].vt = 0 THEN << >>
                     ELSE <<<<name, s[n].val - 32 + 1>>>>
  IN  IF s = << >> THEN << >>
      ELSE IF s[1].vt = 0 \/ s[1].val \notin {ESC, SUB}
           THEN <<Shown(s[1].val)>> \o Rest(2)
      ELSE IF s[1].val = SUB THEN <<Clear>> \o Rest(2)
      ELSE IF Has(2, Equals) THEN At(3, "row") \o At(4, "column") \o Rest(5)
      ELSE IF Has(2, Semicolon) /\ s[2].vt = 1 THEN <<Clear>> \o Rest(3)
      ELSE Rest(3)
Same(token, reference) ==
  IF token[1] \in {"row", "column"}
  THEN token[1] = reference[1] /\ (reference[2] > 0 => Value(token[2]) = reference[2])
  ELSE token = reference
\* The escape machine shows what the sequences mean, wherever the guest stops
\* and starts again, and positions are printed as the numbers they are.
OutTranslated == LET reference == Reference(sent)
                 IN  /\ Len(screen) = Len(reference)
                     /\ \A i \in DOMAIN screen : Same(screen[i], reference[i])
=============================================================================
