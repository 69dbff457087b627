------------------------------ MODULE UartFifo ------------------------------
(***************************************************************************)
(* con_avr_uart.c: the software UART of the ATmega88.  A change of RXD     *)
(* interrupts, and the handler receives a character bit by bit into a      *)
(* ring; con_putchar() switches the interrupt off while it sends, receives *)
(* at the same time, and looks at the line afterwards.  Characters are     *)
(* numbered in the order in which they come.                               *)
(***************************************************************************)
EXTENDS Integers, Sequences

CONSTANTS Size,               \* of the ring: 8
          MaxChars, MaxPuts   \* bounds

UartAssumption == Size \in Nat \ {0, 1} /\ {MaxChars, MaxPuts} \subseteq Nat

VARIABLES
  fifo, rd, wr,      \* the ring: fifo_rdptr, fifo_wrptr
  main, handler,     \* places of the program and of uart_int()
  enabled, flag,     \* PCIE1 and PCIF1
  rxd,               \* what is on the line: [part, char]
  started,           \* history: characters begun on the line
  pushed,            \* history: calls of uart_push()
  got, puts          \* history: the last real character read; calls

ring == <<fifo, rd, wr>>
vars == <<ring, main, handler, enabled, flag, rxd, started, pushed, got, puts>>

Garbage == 0    \* what was not received from its start bit on
Idle == [part |-> "idle", char |-> Garbage]

Init == /\ fifo = [i \in 0 .. Size - 1 |-> Garbage] /\ rd = 0 /\ wr = 0
        /\ main = "idle" /\ handler = "none"
        /\ enabled = TRUE /\ flag = FALSE /\ rxd = Idle
        /\ started = 0 /\ pushed = 0 /\ got = 0 /\ puts = 0
-----------------------------------------------------------------------------
(* The line.                                                                *)

\* uart_rx() that runs already does not see the start bit as one.
HostStart == /\ rxd.part = "idle" /\ started < MaxChars
             /\ started' = started + 1
             /\ rxd' = [part |-> IF handler = "receive" THEN "rest" ELSE "start",
                        char |-> started + 1]
             /\ flag' = TRUE
             /\ UNCHANGED <<ring, main, handler, enabled, pushed, got, puts>>
\* The start bit passes, and then the others, with edges or without; an enabled
\* interrupt is served before that.
Pass == /\ rxd.part # "idle" /\ ~(enabled /\ flag) /\ handler = "none"
        /\ rxd' = IF rxd.part = "start" THEN [rxd EXCEPT !.part = "rest"] ELSE Idle
        /\ flag' \in {flag, TRUE}
        /\ UNCHANGED <<ring, main, handler, enabled, started, pushed, got, puts>>
\* A character is received from its start bit on; uart_rx() takes as long over
\* anything else.
Received == IF rxd.part = "start" THEN rxd.char ELSE Garbage
Low == CASE rxd.part = "start" -> {TRUE}
         [] rxd.part = "rest" -> BOOLEAN
         [] rxd.part = "idle" -> {FALSE}
-----------------------------------------------------------------------------
(* The handler.                                                             *)

\* Mutant: the sum is masked, as it seems it should be.
TestMasked == rd # (wr + 1) % Size
NotFull == rd # wr + 1
After(i) == (i + 1) % Size
\* uart_push(), with the interrupt disabled.
Push(c) == /\ IF NotFull
              THEN fifo' = [fifo EXCEPT ![wr] = c] /\ wr' = After(wr)
              ELSE UNCHANGED <<fifo, wr>>
           /\ pushed' = pushed + 1

Isr == /\ handler = "none" /\ enabled /\ flag
       /\ handler' = "receive" /\ enabled' = FALSE /\ flag' = FALSE
       /\ UNCHANGED <<ring, main, rxd, started, pushed, got, puts>>
Receive == /\ handler = "receive" /\ handler' = "end"
           /\ Push(Received) /\ rxd' = Idle
           /\ UNCHANGED <<rd, main, enabled, flag, started, got, puts>>
End == /\ handler = "end" /\ handler' = "none"
       /\ flag' = FALSE /\ enabled' = TRUE
       /\ UNCHANGED <<ring, main, rxd, started, pushed, got, puts>>
-----------------------------------------------------------------------------
(* The program, between interrupts.                                         *)

Main(at, next) == handler = "none" /\ main = at /\ main' = next

\* con_putchar().
PutDisable == /\ Main("idle", "send") /\ puts < MaxPuts /\ puts' = puts + 1
              /\ enabled' = FALSE
              /\ UNCHANGED <<ring, handler, flag, rxd, started, pushed, got>>
\* uart_tx() receives what starts meanwhile, or takes a low bit for a start.
PutSend == /\ Main("send", "reset")
           /\ \E low \in Low :
                IF low THEN Push(Received) /\ rxd' = Idle
                       ELSE UNCHANGED <<fifo, wr, pushed, rxd>>
           /\ UNCHANGED <<rd, handler, enabled, flag, started, got, puts>>
PutReset == /\ Main("reset", "enable") /\ flag' = FALSE
            /\ UNCHANGED <<ring, handler, enabled, rxd, started, pushed, got, puts>>
PutEnable == /\ Main("enable", "look") /\ enabled' = TRUE
             /\ UNCHANGED <<ring, handler, flag, rxd, started, pushed, got, puts>>
PutLook == /\ \E low \in Low : Main("look", IF low THEN "int" ELSE "idle")
           /\ UNCHANGED <<ring, handler, enabled, flag, rxd>>
           /\ UNCHANGED <<started, pushed, got, puts>>
PutInt == /\ Main("int", "idle")
          /\ handler' = "receive" /\ enabled' = FALSE
          /\ UNCHANGED <<ring, flag, rxd, started, pushed, got, puts>>

\* con_getchar(): the test, the read, and the two steps of the pointer.
GetTest == /\ Main("idle", "read") /\ rd # wr
           /\ UNCHANGED <<ring, handler, enabled, flag, rxd>>
           /\ UNCHANGED <<started, pushed, got, puts>>
\* Mutant: the pointer is moved before the read.
NextPlace == (rd + 1) % Size
Place == rd
GetRead == /\ Main("read", "mask")
           /\ got' = IF fifo[Place] = Garbage THEN got ELSE fifo[Place]
           /\ rd' = rd + 1
           /\ UNCHANGED <<fifo, wr, handler, enabled, flag, rxd>>
           /\ UNCHANGED <<started, pushed, puts>>
GetMask == /\ Main("mask", "idle") /\ rd' = rd % Size
           /\ UNCHANGED <<fifo, wr, handler, enabled, flag, rxd>>
           /\ UNCHANGED <<started, pushed, got, puts>>

Next == \/ HostStart \/ Pass
        \/ Isr \/ Receive \/ End
        \/ PutDisable \/ PutSend \/ PutReset \/ PutEnable \/ PutLook \/ PutInt
        \/ GetTest \/ GetRead \/ GetMask
Spec == Init /\ [][Next]_vars
-----------------------------------------------------------------------------
(* Properties.                                                              *)

TypeOK == /\ fifo \in [0 .. Size - 1 -> 0 .. started]
          /\ wr \in 0 .. Size - 1
          /\ rd \in 0 .. Size /\ (rd = Size => main = "mask")
          /\ main \in {"idle", "send", "reset", "enable", "look", "int",
                       "read", "mask"}
          /\ handler \in {"none", "receive", "end"}
          /\ got \in 0 .. started
          /\ ~enabled <=> handler # "none" \/ main \in {"send", "reset", "enable"}

\* What con_getchar() has yet to return.
Content == LET first == rd % Size
           IN  [i \in 1 .. (wr - first) % Size |-> fifo[(first + i - 1) % Size]]

\* Whatever is lost, garbled or overwritten, and wherever the handler breaks
\* into con_getchar(), the program gets the characters in order, none twice.
InOrder == \A i \in DOMAIN Content : Content[i] # Garbage =>
             /\ got < Content[i]
             /\ \A j \in 1 .. i - 1 : Content[j] < Content[i]

\* Except with the read pointer at 0, a character received is put behind the
\* others, or dropped when seven are there: even in the middle of
\* con_getchar(), where the pointer is 8 for a moment (con_avr_uart.c:133).
PushKept == [][pushed' # pushed /\ rd # 0 =>
                 \/ Len(Content) < Size - 1 /\ Len(Content') = Len(Content) + 1
                 \/ Len(Content) = Size - 1 /\ Content' = Content]_vars

\* When a character has been received there is one to receive: con_peek() says
\* whether there is (DesignNote.md:139).
PeekTrue == [][pushed' # pushed => Content' # << >>]_vars

\* IN 1 waits until a character has come (DesignNote.md:303): not more are
\* received than were sent.
ReceivedWereSent == pushed <= started
=============================================================================
