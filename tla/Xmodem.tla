------------------------------- MODULE Xmodem -------------------------------
(***************************************************************************)
(* xmodem.c: xmodemTransmit (command `xs') and xmodemReceive (`xr') over a *)
(* serial line that can lose or damage what it carries.  Each end is one   *)
(* sequential loop; the actions are the passes of that loop between two    *)
(* waits in _inbyte().  A wait may end with a timeout although the answer  *)
(* is on its way: the answer is then late, and read by the next wait.      *)
(*                                                                         *)
(* A packet carries one block.  Its bytes are one message here: it arrives *)
(* whole, damaged after the header byte (the check fails, or a byte times  *)
(* out), or not at all.                                                    *)
(***************************************************************************)
EXTENDS Integers, Sequences

CONSTANTS
  Blocks,      \* blocks to transmit: srcsz / 1024, rounded up
  DestBlocks,  \* blocks the destination has room for: destsz / 1024
  SeqSpan,     \* packet numbers are unsigned char: 256
  SyncTries,   \* 16
  MaxRetrans,  \* MAXRETRANS: 25
  EotTries,    \* 10
  MaxFaults    \* bound on the faults of the line in one behaviour

ASSUME XmodemAssumption ==
  /\ Blocks \in Nat \ {0} /\ DestBlocks \in Nat
  /\ SeqSpan \in Nat \ {0, 1}
  /\ SyncTries \in Nat \ {0} /\ MaxRetrans \in Nat \ {0}
  /\ EotTries \in Nat \ {0} /\ MaxFaults \in Nat

VARIABLES
  to_rx, to_tx,   \* the two directions of the line
  tx_pc,          \* "sync", "data" or "eot" (waiting there), "done"
  tx_no,          \* packetno of the transmitter
  tx_len,         \* blocks it takes for delivered (len)
  tx_retry, tx_crc, tx_result,
  rx_pc,          \* "wait" or "done"
  rx_no,          \* packetno of the receiver
  trychar,        \* what it prompts with: "C", "NAK", or "silent"
  rx_retry, rx_crc, retrans, rx_result,
  dest,           \* blocks passed to flash_disk_write(), in order
  faults          \* faults of the line so far

lines == <<to_rx, to_tx>>
tx == <<tx_pc, tx_no, tx_len, tx_retry, tx_crc, tx_result>>
rx == <<rx_pc, rx_no, trychar, rx_retry, rx_crc, retrans, rx_result, dest>>
vars == <<lines, tx, rx, faults>>

Ctl(x) == [t |-> x]
Packet(no, crc, block) == [t |-> "pkt", no |-> no, crc |-> crc, block |-> block]
Cancel == <<Ctl("CAN"), Ctl("CAN"), Ctl("CAN")>>

\* unsigned char packetno, counted up.  Mutant: an int.
NextInt(no) == no + 1
NextNo(no) == (no + 1) % SeqSpan

Init ==
  /\ to_rx = << >>
  /\ to_tx = <<Ctl("C")>>            \* the receiver's first prompt
  /\ tx_pc = "sync" /\ tx_no = 1 /\ tx_len = 0 /\ tx_retry = 0
  /\ tx_crc = FALSE /\ tx_result = "none"
  /\ rx_pc = "wait" /\ rx_no = 1 /\ trychar = "C" /\ rx_retry = 0
  /\ rx_crc = FALSE /\ retrans = MaxRetrans /\ rx_result = "none"
  /\ dest = << >>
  /\ faults = 0
-----------------------------------------------------------------------------
(* The transmitter.                                                         *)

\* Give up: cancel the receiver, drain the input.
TxGiveUp(result) ==
  /\ tx_pc' = "done" /\ tx_result' = result
  /\ to_rx' = to_rx \o Cancel
  /\ to_tx' = << >>
  /\ UNCHANGED <<tx_no, tx_len, tx_retry, tx_crc>>

Hears(line, c) == line # << >> /\ Head(line).t = c
HearsCanCan(line) == Len(line) >= 2 /\ line[1].t = "CAN" /\ line[2].t = "CAN"
After(line, k) == SubSeq(line, k + 1, Len(line))

\* A wait that brings nothing useful: a timeout (k = 0), an unexpected
\* character, a CAN alone, or a CAN and the character read after it.
Fruitless(line, useful, k) ==
  \/ k = 0
  \/ k = 1 /\ line # << >> /\ Head(line).t \notin useful
  \/ k = 2 /\ Hears(line, "CAN") /\ Len(line) >= 2 /\ ~HearsCanCan(line)

\* Waiting for the receiver's prompt; it selects CRC or checksum.
TxStart ==
  /\ tx_pc = "sync"
  /\ Hears(to_tx, "C") \/ Hears(to_tx, "NAK")
  /\ to_tx' = Tail(to_tx)
  /\ tx_crc' = Hears(to_tx, "C")
  /\ tx_pc' = "data" /\ tx_retry' = 0
  /\ to_rx' = Append(to_rx, Packet(tx_no, tx_crc', tx_len + 1))
  /\ UNCHANGED <<tx_no, tx_len, tx_result>>

TxNoPrompt ==
  /\ tx_pc = "sync"
  /\ \E k \in 0 .. 2 :
       /\ Fruitless(to_tx, {"C", "NAK"}, k)
       /\ IF tx_retry + 1 < SyncTries
          THEN /\ tx_retry' = tx_retry + 1
               /\ to_tx' = After(to_tx, k)
               /\ UNCHANGED <<to_rx, tx_pc, tx_no, tx_len, tx_crc, tx_result>>
          ELSE TxGiveUp("no_sync")

\* There is more to send.  Mutant: off by one.
MoreButOne(len) == len + 1 < Blocks
More(len) == len < Blocks

\* Acknowledged: the next packet, or EOT after the last.
TxAcked ==
  /\ tx_pc = "data"
  /\ Hears(to_tx, "ACK")
  /\ to_tx' = Tail(to_tx)
  /\ tx_no' = NextNo(tx_no)
  /\ tx_len' = tx_len + 1
  /\ tx_retry' = 0
  /\ IF More(tx_len')
     THEN /\ tx_pc' = "data"
          /\ to_rx' = Append(to_rx, Packet(tx_no', tx_crc, tx_len' + 1))
     ELSE /\ tx_pc' = "eot"
          /\ to_rx' = Append(to_rx, Ctl("EOT"))
  /\ UNCHANGED <<tx_crc, tx_result>>

\* Anything else, or nothing: the same packet again.
TxResend ==
  /\ tx_pc = "data"
  /\ \E k \in 0 .. 2 :
       /\ Fruitless(to_tx, {"ACK"}, k)
       /\ IF tx_retry + 1 < MaxRetrans
          THEN /\ tx_retry' = tx_retry + 1
               /\ to_tx' = After(to_tx, k)
               /\ to_rx' = Append(to_rx, Packet(tx_no, tx_crc, tx_len + 1))
               /\ UNCHANGED <<tx_pc, tx_no, tx_len, tx_crc, tx_result>>
          ELSE TxGiveUp("xmit_error")

\* CAN CAN: confirm, drain, return.
TxCancel ==
  /\ tx_pc \in {"sync", "data"}
  /\ HearsCanCan(to_tx)
  /\ tx_pc' = "done" /\ tx_result' = "canceled"
  /\ to_rx' = Append(to_rx, Ctl("ACK"))
  /\ to_tx' = << >>
  /\ UNCHANGED <<tx_no, tx_len, tx_retry, tx_crc>>

\* EOT acknowledged.
TxEnd ==
  /\ tx_pc = "eot"
  /\ Hears(to_tx, "ACK")
  /\ tx_pc' = "done" /\ tx_result' = "ok"
  /\ to_tx' = << >>
  /\ UNCHANGED <<to_rx, tx_no, tx_len, tx_retry, tx_crc>>

\* Any other character, or none: EOT again, or give up without an answer.
TxEotAgain ==
  /\ tx_pc = "eot"
  /\ \E k \in 0 .. 1 :
       /\ Fruitless(to_tx, {"ACK"}, k)
       /\ IF tx_retry + 1 < EotTries
          THEN /\ tx_retry' = tx_retry + 1
               /\ to_tx' = After(to_tx, k)
               /\ to_rx' = Append(to_rx, Ctl("EOT"))
               /\ UNCHANGED <<tx_pc, tx_result>>
          ELSE /\ tx_pc' = "done" /\ tx_result' = "no_ack"
               /\ to_tx' = << >>
               /\ UNCHANGED <<to_rx, tx_retry>>
  /\ UNCHANGED <<tx_no, tx_len, tx_crc>>

TxNext == /\ \/ TxStart \/ TxNoPrompt \/ TxAcked \/ TxResend \/ TxCancel
             \/ TxEnd \/ TxEotAgain
          /\ UNCHANGED <<rx, faults>>
-----------------------------------------------------------------------------
(* The receiver.                                                            *)

RxReturns(result, answer) ==
  /\ rx_pc' = "done" /\ rx_result' = result
  /\ to_rx' = << >>                       \* flushinput()
  /\ to_tx' = to_tx \o answer
  /\ UNCHANGED <<rx_no, trychar, rx_retry, rx_crc, retrans, dest>>

Prompt(c) == IF c = "silent" THEN << >> ELSE <<Ctl(c)>>

\* The try that follows.  Mutant: only prompts are counted.
TryIfPrompting == IF trychar = "silent" THEN 0 ELSE rx_retry + 1
ThisTry == rx_retry + 1

\* Nothing useful came: prompt again; after SyncTries prompts with "C" go over
\* to "NAK"; after that, or between packets, cancel.
RxNoHeader ==
  /\ rx_pc = "wait"
  /\ \E k \in 0 .. 2 :
       /\ Fruitless(to_rx, {"pkt", "bad", "EOT"}, k)
       /\ \/ /\ ThisTry < SyncTries
             /\ rx_retry' = ThisTry
             /\ to_rx' = After(to_rx, k)
             /\ to_tx' = to_tx \o Prompt(trychar)
             /\ UNCHANGED <<rx_pc, rx_no, trychar, rx_crc, retrans, rx_result, dest>>
          \/ /\ ThisTry = SyncTries /\ trychar = "C"
             /\ rx_retry' = 0 /\ trychar' = "NAK"
             /\ to_rx' = After(to_rx, k)
             /\ to_tx' = to_tx \o Prompt("NAK")
             /\ UNCHANGED <<rx_pc, rx_no, rx_crc, retrans, rx_result, dest>>
          \/ /\ ThisTry = SyncTries /\ trychar # "C"
             /\ RxReturns("sync_error", Cancel)

RxCancel == /\ rx_pc = "wait"
            /\ HearsCanCan(to_rx)
            /\ RxReturns("canceled", <<Ctl("ACK")>>)

\* The normal end: no matter how much has arrived.
RxEot == /\ rx_pc = "wait"
         /\ Hears(to_rx, "EOT")
         /\ RxReturns("ok", <<Ctl("ACK")>>)

\* The first header after a "C" fixes CRC mode; prompting ends.
CrcNow == rx_crc \/ trychar = "C"
HeaderSeen == trychar' = "silent" /\ rx_retry' = 0 /\ rx_crc' = CrcNow

\* The block number check: the expected packet, or a copy of the last one.
\* packetno - 1 is computed as an int, so no number matches it when packetno
\* has wrapped to 0.  Mutant: a copy is taken for new.
NewOrCopy(p) == p.no \in {rx_no, rx_no - 1}
IsNew(p) == p.no = rx_no
IsCopy(p) == p.no = rx_no - 1
PacketOK(p) == p.t = "pkt" /\ p.crc = CrcNow /\ (IsNew(p) \/ IsCopy(p))

\* The block goes to flash_disk_write(), as far as there is room.
RxAccept ==
  /\ rx_pc = "wait" /\ to_rx # << >>
  /\ LET p == Head(to_rx) IN
       /\ PacketOK(p) /\ IsNew(p)
       /\ dest' = IF Len(dest) < DestBlocks THEN Append(dest, p.block) ELSE dest
  /\ rx_no' = NextNo(rx_no)
  /\ retrans' = MaxRetrans
  /\ HeaderSeen
  /\ to_rx' = Tail(to_rx)
  /\ to_tx' = Append(to_tx, Ctl("ACK"))
  /\ UNCHANGED <<rx_pc, rx_result>>

\* A copy is acknowledged again, but not for ever.
RxCopy ==
  /\ rx_pc = "wait" /\ to_rx # << >>
  /\ PacketOK(Head(to_rx)) /\ ~IsNew(Head(to_rx))
  /\ HeaderSeen
  /\ retrans' = retrans - 1
  /\ IF retrans - 1 > 0
     THEN /\ to_rx' = Tail(to_rx)
          /\ to_tx' = Append(to_tx, Ctl("ACK"))
          /\ UNCHANGED <<rx_pc, rx_result>>
     ELSE /\ to_rx' = << >>
          /\ to_tx' = to_tx \o Cancel
          /\ rx_pc' = "done" /\ rx_result' = "too_many_copies"
  /\ UNCHANGED <<rx_no, dest>>

\* A damaged or unexpected packet: drain the input, ask again.
RxReject ==
  /\ rx_pc = "wait" /\ to_rx # << >>
  /\ Head(to_rx).t \in {"pkt", "bad"} /\ ~PacketOK(Head(to_rx))
  /\ HeaderSeen
  /\ to_rx' = << >>
  /\ to_tx' = Append(to_tx, Ctl("NAK"))
  /\ UNCHANGED <<rx_pc, rx_no, retrans, rx_result, dest>>

RxNext == /\ \/ RxNoHeader \/ RxCancel \/ RxEot \/ RxAccept \/ RxCopy \/ RxReject
          /\ UNCHANGED <<tx, faults>>
-----------------------------------------------------------------------------
(* The line: what is at its head is lost, or arrives damaged.               *)

Damaged(m) == IF m.t = "pkt" THEN Ctl("bad") ELSE Ctl("noise")

LineFault ==
  /\ faults < MaxFaults
  /\ faults' = faults + 1
  /\ \/ /\ to_rx # << >>
        /\ to_rx' \in {Tail(to_rx), <<Damaged(Head(to_rx))>> \o Tail(to_rx)}
        /\ UNCHANGED to_tx
     \/ /\ to_tx # << >>
        /\ to_tx' \in {Tail(to_tx), <<Damaged(Head(to_tx))>> \o Tail(to_tx)}
        /\ UNCHANGED to_rx
  /\ UNCHANGED <<tx, rx>>

\* Both ends have returned: the monitors read on.
Finished == /\ tx_pc = "done" /\ rx_pc = "done"
            /\ UNCHANGED vars

Next == TxNext \/ RxNext \/ LineFault \/ Finished

\* Each end runs whenever it can: its waits end by themselves.
Fairness == WF_vars(TxNext) /\ WF_vars(RxNext)

Spec == Init /\ [][Next]_vars /\ Fairness
-----------------------------------------------------------------------------
(* Properties.                                                              *)

Numbers == 0 .. SeqSpan - 1
ToTx == [t : {"C", "NAK", "ACK", "CAN", "noise"}]
ToRx == [t : {"EOT", "CAN", "ACK", "bad", "noise"}]
        \cup [t : {"pkt"}, no : Numbers, crc : BOOLEAN, block : 1 .. Blocks]

TypeOK ==
  /\ to_rx \in Seq(ToRx) /\ to_tx \in Seq(ToTx)
  /\ tx_pc \in {"sync", "data", "eot", "done"}
  /\ tx_no \in Numbers /\ tx_len \in 0 .. Blocks
  /\ tx_crc \in BOOLEAN
  /\ tx_result \in {"none", "ok", "no_sync", "xmit_error", "canceled", "no_ack"}
  /\ rx_pc \in {"wait", "done"}
  /\ rx_no \in Numbers /\ trychar \in {"C", "NAK", "silent"}
  /\ rx_crc \in BOOLEAN /\ rx_retry \in 0 .. SyncTries
  /\ retrans \in 0 .. MaxRetrans
  /\ tx_retry \in 0 .. SyncTries + MaxRetrans + EotTries
  /\ rx_result \in {"none", "ok", "sync_error", "canceled", "too_many_copies"}
  /\ dest \in Seq(1 .. Blocks) /\ Len(dest) <= DestBlocks
  /\ faults \in 0 .. MaxFaults

\* What reaches the flash is a prefix of the image, each block once and in its
\* place, whatever the line does.
InOrder == \A i \in 1 .. Len(dest) : dest[i] = i

\* On a line without faults a normal end of xmodemReceive is the whole image,
\* however late the answers are.
FaultlessComplete ==
  faults = 0 /\ rx_result = "ok" /\ Blocks <= DestBlocks => Len(dest) = Blocks

\* A normal end needs an EOT: the transmitter had an ACK for every block.
EndAfterLastAck == rx_result = "ok" => tx_len = Blocks

\* Both commands return to the prompt.
BothReturn == <>(tx_pc = "done" /\ rx_pc = "done")

\* A transfer that both ends report as successful is complete.
SuccessIsComplete ==
  tx_result = "ok" /\ rx_result = "ok" /\ Blocks <= DestBlocks
    => Len(dest) = Blocks
=============================================================================
