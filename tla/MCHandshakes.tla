---------------------------- MODULE MCHandshakes ----------------------------
(***************************************************************************)
(* The three places where two sides wait for each other: the IOEXT bus,    *)
(* the USB console with a smaller transmit ring and requests of every      *)
(* kind, and the timer of the Native Client host.  They are parts of       *)
(* different builds: the one that `link' names runs, the others stay at    *)
(* their start.                                                            *)
(***************************************************************************)
EXTENDS Handshakes, Integers, Sequences

VARIABLES link,
  state, tx, rx, main, isr, bank, txini, txine, out, setup, bank0, data0,
  transfer, enum, put, taken, sent, got, setups, resets

R(k, s, w) == [kind |-> k, size |-> s, wLength |-> w]
\* Of the descriptors, one with an empty last packet, one cut, one of three
\* packets; the line coding, of 7 bytes.
Requests == {R("descriptor", 32, 255), R("descriptor", 67, 9),
             R("descriptor", 67, 300), R("descriptor", 18, 7),
             R("qualifier", 0, 10), R("plain", 0, 0), R("unknown", 0, 0),
             R("set_address", 0, 0), R("set_line_state", 0, 0),
             R("set_line_coding", 7, 7), R("set_line_coding", 7, 8)}

Cdc == INSTANCE CdcConsole
         WITH TxSize <- 3, RxSize <- 4, Packet <- 32, MaxPut <- 3, MaxSent <- 1,
              MaxPacket <- 1, MaxSetups <- 1, MaxResets <- 1
ASSUME LinksAssumption == Cdc!CdcAssumption

cdcVars == <<state, tx, rx, main, isr, bank, txini, txine, out, setup, bank0,
             data0, transfer, enum, put, taken, sent, got, setups, resets>>
allVars == <<link, ioeVars, cdcVars, naclVars>>

MCInit == /\ link \in {"ioext", "cdc", "nacl"}
          /\ Ioe!Init /\ Cdc!Init /\ Nacl!Init
MCNext ==
  \/ link = "ioext" /\ Ioe!Next /\ UNCHANGED <<link, cdcVars, naclVars>>
  \/ link = "cdc" /\ Cdc!Next /\ UNCHANGED <<link, ioeVars, naclVars>>
  \/ link = "nacl" /\ Nacl!Next /\ UNCHANGED <<link, ioeVars, cdcVars>>

On(l, A) == link = l /\ A
MCSpec == 
  /\ MCInit /\ [][MCNext]_allVars
  /\ WF_ioeVars(Ioe!HostStep) /\ WF_ioeVars(Ioe!DeviceStep)
  /\ WF_cdcVars(On("cdc", Cdc!Program)) /\ WF_cdcVars(On("cdc", Cdc!Interrupt))
  /\ WF_cdcVars(On("cdc", Cdc!EpWrite)) /\ WF_cdcVars(On("cdc", Cdc!LineCoding))
  /\ WF_cdcVars(On("cdc", Cdc!Address)) /\ WF_cdcVars(On("cdc", Cdc!HostIn))
  /\ WF_cdcVars(On("cdc", Cdc!HostIn0)) /\ WF_cdcVars(On("cdc", Cdc!HostData))
  /\ WF_cdcVars(On("cdc", enum /\ \E r \in Requests : Cdc!Ask(r)))
  /\ WF_naclVars(On("nacl", Nacl!Boot)) /\ WF_naclVars(On("nacl", Nacl!Timer))
  /\ WF_naclVars(On("nacl", Nacl!Machine))
-----------------------------------------------------------------------------
\* No wait is for ever: a call of io_out() or io_in() returns, even after a
\* timeout or a restart of the device; the machine in the browser wakes up,
\* each time by a tick of its own.
EveryWaitEnds == Ioe!CallReturns /\ []Nacl!OneTickEach /\ Nacl!Wakes

\* The USB handler answers each request of the host and returns, and of a
\* descriptor the host gets what it asked for.
RequestsAnswered == Cdc!Answered /\ Cdc!DescriptorWhole

\* What con_putchar() was given reaches the host, and what was typed into the
\* browser reaches the prompt.
CharactersArrive == Cdc!TxDrains /\ Nacl!KeysTaken
=============================================================================
