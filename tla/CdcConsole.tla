----------------------------- MODULE CdcConsole -----------------------------
(***************************************************************************)
(* con_avr_cdc.c: the USB serial console of the ATmega32U2.  The main      *)
(* program (con_putchar(), con_getchar()) and the interrupt handlers share *)
(* two rings; the handlers move them from and to the USB endpoints, and    *)
(* answer the requests of the control endpoint.  Characters are numbered   *)
(* in the order in which they are put, or sent by the host.                *)
(***************************************************************************)
EXTENDS Integers, Sequences

CONSTANTS TxSize, RxSize,     \* sizes of the rings: 16 and 4
          Packet,             \* bytes of a control packet: 32
          Requests,           \* what the host may ask for
          MaxPut, MaxSent, MaxPacket, MaxSetups, MaxResets  \* bounds

\* Sizes of the descriptors.
Descriptor == [device |-> 18, configuration |-> 67, language |-> 4,
               manufacturer |-> 32, product |-> 24, serial |-> 10]

CdcAssumption ==
  /\ \A r \in Requests : r.wLength \in Nat
  /\ \A r \in Requests : r.kind = "descriptor" =>
       \E d \in DOMAIN Descriptor : r.size = Descriptor[d]
  /\ {TxSize, RxSize} \subseteq Nat \ {0, 1}
  /\ {Packet, MaxPacket} \subseteq Nat \ {0}
  /\ {MaxPut, MaxSent, MaxSetups, MaxResets} \subseteq Nat

VARIABLES
  state,             \* "not_ready", "ready", "error"
  tx, rx,            \* rings: [buf, wr, rd]
  main,              \* the main program's place
  isr,               \* the handler's: [stage, left]
  bank, txini, txine,  \* endpoint 3: bytes for the host; its bank is free;
                       \* its interrupt is enabled
  out,               \* endpoint 2: bytes of the host, << >> when free
  setup, bank0, data0, \* endpoint 0: request, bytes to send, data received
  transfer,          \* the host's: [request, got] or None
  enum,              \* the host has yet to enumerate after a reset
  put, taken,        \* history: characters put, and gone out of endpoint 3
  sent, got,         \* characters of the host; the last one the guest got
  setups, resets

rings == <<tx, rx>>
control == <<setup, bank0, data0, transfer, enum, setups, resets>>
vars == <<state, rings, main, isr, bank, txini, txine, out, control,
          put, taken, sent, got>>

None == [kind |-> "none", size |-> 0, wLength |-> 0]
NoTransfer == [request |-> None, got |-> 0]
NoPacket == -1
NoIsr == [stage |-> "none", left |-> 0]

Init == /\ state = "not_ready"
        /\ tx = [buf |-> [i \in 0 .. TxSize - 1 |-> 0], wr |-> 0, rd |-> 0]
        /\ rx = [buf |-> [i \in 0 .. RxSize - 1 |-> 0], wr |-> 0, rd |-> 0]
        /\ main = "init" /\ isr = NoIsr
        /\ bank = << >> /\ txini = TRUE /\ txine = FALSE /\ out = << >>
        /\ setup = None /\ bank0 = NoPacket /\ data0 = FALSE
        /\ transfer = NoTransfer /\ enum = TRUE
        /\ put = 0 /\ taken = 0 /\ sent = 0 /\ got = 0
        /\ setups = MaxSetups /\ resets = MaxResets

TxNext(i) == (i + 1) % TxSize
RxNext(i) == (i + 1) % RxSize
Content(ring, size) ==
  [i \in 1 .. (ring.wr - ring.rd) % size |-> ring.buf[(ring.rd + i - 1) % size]]
-----------------------------------------------------------------------------
(* The main program, between interrupts.                                    *)

Main(at, next) == isr = NoIsr /\ main = at /\ main' = next

\* con_init() waits for the host.
ConInit == /\ Main("init", "run") /\ state = "ready"
           /\ UNCHANGED <<state, rings, isr, bank, txini, txine, out, control>>
           /\ UNCHANGED <<put, taken, sent, got>>

\* con_putchar(): wait for room, store, publish, enable the interrupt.
Room == TxNext(tx.wr) # tx.rd
PutStore == /\ Main("run", "publish") /\ put < MaxPut /\ Room
            /\ tx' = [tx EXCEPT !.buf[tx.wr] = put + 1]
            /\ UNCHANGED <<state, rx, isr, bank, txini, txine, out, control>>
            /\ UNCHANGED <<put, taken, sent, got>>
PutIndex == /\ Main("publish", "enable")
            /\ tx' = [tx EXCEPT !.wr = TxNext(tx.wr)] /\ put' = put + 1
            /\ UNCHANGED <<state, rx, isr, bank, txini, txine, out, control>>
            /\ UNCHANGED <<taken, sent, got>>
\* Mutant: the interrupt is not enabled.
StaysDisabled == txine
Enabled == TRUE
PutEnable == /\ Main("enable", "run") /\ txine' = Enabled
             /\ UNCHANGED <<state, rings, isr, bank, txini, out, control>>
             /\ UNCHANGED <<put, taken, sent, got>>

\* con_getchar(): read, then move the index.
GetRead == /\ Main("run", "take") /\ rx.wr # rx.rd
           /\ got' = rx.buf[rx.rd]
           /\ UNCHANGED <<state, rings, isr, bank, txini, txine, out, control>>
           /\ UNCHANGED <<put, taken, sent>>
GetIndex == /\ Main("take", "run")
            /\ rx' = [rx EXCEPT !.rd = RxNext(rx.rd)]
            /\ UNCHANGED <<state, tx, isr, bank, txini, txine, out, control>>
            /\ UNCHANGED <<put, taken, sent, got>>

Program == ConInit \/ PutStore \/ PutIndex \/ PutEnable \/ GetRead \/ GetIndex
-----------------------------------------------------------------------------
(* USB_COM_vect.                                                            *)

\* Endpoint 2: what fits the ring, the rest of the packet is dropped; the first
\* byte makes the console ready and is disposed.
Free == (rx.rd - rx.wr - 1) % RxSize
Disposed == IF state = "ready" THEN 0 ELSE 1
Stored == LET last == IF Len(out) < Disposed + Free THEN Len(out)
                      ELSE Disposed + Free
          IN  IF Free = 0 THEN << >> ELSE SubSeq(out, 1 + Disposed, last)
Receive ==
  rx' = [rx EXCEPT
           !.buf = [i \in 0 .. RxSize - 1 |->
                      LET n == ((i - rx.wr) % RxSize) + 1
                      IN  IF n \in DOMAIN Stored THEN Stored[n] ELSE rx.buf[i]],
           !.wr = (rx.wr + Len(Stored)) % RxSize]
Ready == IF out # << >> /\ Free # 0 THEN "ready" ELSE state

\* Endpoint 3: the whole ring goes out when the bank is free.
Sends == tx.rd # tx.wr /\ txini
Send == IF Sends
        THEN /\ bank' = Content(tx, TxSize) /\ tx' = [tx EXCEPT !.rd = tx.wr]
             /\ txini' = FALSE /\ txine' = FALSE
        ELSE UNCHANGED <<bank, tx, txini, txine>>

\* Endpoint 0.
\* min_u16() returns eight bits.
Reply(r) == (IF r.size < r.wLength THEN r.size ELSE r.wLength) % 256
Stall(st) == state' = st /\ isr' = NoIsr /\ transfer' = NoTransfer
             /\ UNCHANGED bank0
Status == state' = Ready /\ isr' = NoIsr /\ bank0' = 0 /\ UNCHANGED transfer
Answer(r) ==
  CASE Ready = "error" \/ r.kind = "unknown" -> Stall("error")
    [] Ready # "error" /\ r.kind = "qualifier" -> Stall(Ready)
    [] Ready # "error" /\ r.kind = "descriptor" ->
         /\ isr' = [stage |-> "send", left |-> Reply(r)] /\ state' = Ready
         /\ UNCHANGED <<bank0, transfer>>
    [] Ready # "error" /\ r.kind = "set_line_coding" ->
         /\ isr' = [stage |-> "data", left |-> 0] /\ state' = Ready
         /\ UNCHANGED <<bank0, transfer>>
    [] Ready # "error" /\ r.kind = "set_line_state" ->
         \* DTE is present
         state' = "ready" /\ isr' = NoIsr /\ bank0' = 0 /\ UNCHANGED transfer
    [] Ready # "error" /\ r.kind = "set_address" ->
         /\ isr' = [stage |-> "address", left |-> 0] /\ state' = Ready
         /\ bank0' = 0 /\ UNCHANGED transfer
    [] OTHER -> Status     \* configuration, clear feature
Interrupt ==
  /\ isr = NoIsr
  /\ out # << >> \/ (txine /\ txini) \/ setup # None
  /\ Receive /\ out' = << >> /\ Send
  /\ IF setup = None
     THEN state' = Ready /\ UNCHANGED <<isr, bank0, transfer>>
     ELSE Answer(setup)
  /\ setup' = None /\ data0' = FALSE
  /\ UNCHANGED <<main, enum, setups, resets, put, taken, sent, got>>

\* ep_write(): packets of Packet bytes, each when the host has taken the one
\* before; the last one is shorter, and may be empty.
\* Mutant: no empty packet at the end.
EndsFull == isr.left <= Packet
EndsShort == isr.left < Packet
EpWrite ==
  /\ isr.stage = "send" /\ bank0 = NoPacket
  /\ IF EndsShort
     THEN bank0' = isr.left /\ isr' = NoIsr
     ELSE bank0' = Packet /\ isr' = [isr EXCEPT !.left = @ - Packet]
  /\ UNCHANGED <<state, rings, main, bank, txini, txine, out, setup, data0>>
  /\ UNCHANGED <<transfer, enum, setups, resets, put, taken, sent, got>>
\* The handler has waited for the line coding.
LineCoding ==
  /\ isr.stage = "data" /\ data0
  /\ data0' = FALSE
  /\ IF transfer.request.wLength = transfer.request.size
     THEN isr' = NoIsr /\ bank0' = 0 /\ UNCHANGED <<state, transfer>>
     ELSE Stall("error")
  /\ UNCHANGED <<rings, main, bank, txini, txine, out, setup>>
  /\ UNCHANGED <<enum, setups, resets, put, taken, sent, got>>

\* The new address is enabled when the host has seen the answer.
Address == /\ isr.stage = "address" /\ bank0 = NoPacket
           /\ isr' = NoIsr
           /\ UNCHANGED <<state, rings, main, bank, txini, txine, out, control>>
           /\ UNCHANGED <<put, taken, sent, got>>

\* USB_GEN_vect, the end of a bus reset; the set-up of the endpoints succeeds,
\* their sizes being right.  What was on its way is lost; whether the enabled
\* interrupt survives depends on the controller.
\* Bound: the host resets the bus between its transfers.  USB_GEN_vect cannot
\* run while USB_COM_vect waits for the host (con_avr_cdc.c:303, :435), and what
\* such a wait reads of an endpoint that a reset has closed is the controller's.
BusReset ==
  /\ isr = NoIsr /\ transfer = NoTransfer /\ setup = None
  /\ resets > 0 /\ resets' = resets - 1
  /\ state' = "not_ready"
  /\ bank' = << >> /\ taken' = taken + Len(bank) /\ txini' = TRUE
  /\ txine' \in {txine, FALSE}
  /\ out' = << >> /\ bank0' = NoPacket /\ data0' = FALSE /\ enum' = TRUE
  /\ UNCHANGED <<rings, main, isr, setup, transfer, setups, put, sent, got>>
-----------------------------------------------------------------------------
(* The host.                                                                *)

HostIn == /\ ~txini /\ txini' = TRUE
          /\ bank' = << >> /\ taken' = taken + Len(bank)
          /\ UNCHANGED <<state, rings, main, isr, txine, out, control>>
          /\ UNCHANGED <<put, sent, got>>
HostOut == /\ out = << >>
           /\ \E n \in 1 .. MaxPacket :
                /\ sent + n <= MaxSent /\ sent' = sent + n
                /\ out' = [i \in 1 .. n |-> sent + i]
           /\ UNCHANGED <<state, rings, main, isr, bank, txini, txine, control>>
           /\ UNCHANGED <<put, taken, got>>
\* Enumeration after a reset always happens; the bound is on the others.
Ask(r) ==
  /\ transfer = NoTransfer /\ transfer' = [request |-> r, got |-> 0]
  /\ setup' = r /\ bank0' = NoPacket
  /\ IF enum THEN UNCHANGED setups ELSE setups > 0 /\ setups' = setups - 1
  /\ enum' = FALSE
  /\ UNCHANGED <<state, rings, main, isr, bank, txini, txine, out, data0>>
  /\ UNCHANGED <<resets, put, taken, sent, got>>
HostIn0 ==
  /\ bank0 # NoPacket /\ transfer # NoTransfer
  /\ bank0' = NoPacket
  /\ transfer' = IF bank0 < Packet
                    \/ transfer.got + bank0 >= transfer.request.wLength
                 THEN NoTransfer
                 ELSE [transfer EXCEPT !.got = @ + bank0]
  /\ UNCHANGED <<state, rings, main, isr, bank, txini, txine, out, setup, data0>>
  /\ UNCHANGED <<enum, setups, resets, put, taken, sent, got>>
HostData == /\ isr.stage = "data" /\ ~data0 /\ data0' = TRUE
            /\ UNCHANGED <<state, rings, main, isr, bank, txini, txine, out>>
            /\ UNCHANGED <<setup, bank0, transfer, enum, setups, resets>>
            /\ UNCHANGED <<put, taken, sent, got>>

Next == \/ Program \/ Interrupt \/ EpWrite \/ LineCoding \/ Address
        \/ BusReset
        \/ HostIn \/ HostOut \/ HostIn0 \/ HostData
        \/ \E r \in Requests : Ask(r)

\* After each interrupt the processor runs one instruction of the program; the
\* host polls the endpoints and enumerates after a reset.
Fairness == /\ WF_vars(Program) /\ WF_vars(Interrupt) /\ WF_vars(EpWrite)
            /\ WF_vars(LineCoding) /\ WF_vars(Address) /\ WF_vars(HostIn) /\ WF_vars(HostIn0)
            /\ WF_vars(HostData)
            /\ WF_vars(enum /\ \E r \in Requests : Ask(r))
Spec == Init /\ [][Next]_vars /\ Fairness
-----------------------------------------------------------------------------
(* Properties.                                                              *)

TypeOK == /\ state \in {"not_ready", "ready", "error"}
          /\ tx.wr \in 0 .. TxSize - 1 /\ tx.rd \in 0 .. TxSize - 1
          /\ rx.wr \in 0 .. RxSize - 1 /\ rx.rd \in 0 .. RxSize - 1
          /\ main \in {"init", "run", "publish", "enable", "take"}
          /\ isr.stage \in {"none", "send", "data", "address"} /\ isr.left \in 0 .. 255
          /\ taken \in 0 .. put /\ put <= MaxPut
          /\ got \in 0 .. sent /\ sent <= MaxSent

\* Whatever the handlers interrupt, the characters put and not yet gone are
\* those in the bank and then in the ring, each once and in order.
TxInOrder == bank \o Content(tx, TxSize) = [i \in 1 .. put - taken |-> taken + i]

\* The guest gets the host's characters in order, none twice.
RxInOrder == LET ring == Content(rx, RxSize)
                 new == IF main = "take" THEN SubSeq(ring, 2, Len(ring)) ELSE ring
             IN  /\ main = "take" => ring # << >> /\ ring[1] = got
                 /\ \A i \in 1 .. Len(new) :
                      new[i] > (IF i = 1 THEN got ELSE new[i - 1])

\* A character of the host is lost only when the ring is full, or as the first
\* one ("buffer full, data lost", con_avr_cdc.c:341, and :344), or by a reset.
RxLossOnlyFull ==
  [][out # << >> /\ out' = << >> /\ resets' = resets =>
       LET had == Len(Content(rx, RxSize))
           has == Len(Content(rx', RxSize))
       IN  has = RxSize - 1 \/ has - had = Len(out) - Disposed]_vars

\* The host gets as much of a descriptor as it asks for and as there is.
DescriptorWhole ==
  [][transfer.request.kind = "descriptor" /\ transfer' = NoTransfer
       /\ bank0 # NoPacket =>
       transfer.got + bank0 = IF transfer.request.size < transfer.request.wLength
                              THEN transfer.request.size
                              ELSE transfer.request.wLength]_vars

\* Every character put goes out, however interrupts and resets fall between
\* the steps of con_putchar().
TxDrains == \A n \in 1 .. MaxPut : put >= n ~> taken >= n

\* Every request of the host is answered, and the handler returns, as long as
\* the host does not reset the bus in the middle of a request (BusReset).
Answered == /\ transfer # NoTransfer ~> transfer = NoTransfer
            /\ isr # NoIsr ~> isr = NoIsr
=============================================================================
