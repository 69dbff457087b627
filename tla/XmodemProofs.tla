---------------------------- MODULE XmodemProofs ----------------------------
(***************************************************************************)
(* Proofs about Xmodem for every number of blocks, tries and faults, and   *)
(* every delay of the line.  What arrives in order is proved while the     *)
(* packet numbers do not wrap: a disk image is 251 packets of 1024 bytes.  *)
(***************************************************************************)
EXTENDS Xmodem, ModArith, TLAPS

NoWrap == Blocks < SeqSpan
-----------------------------------------------------------------------------
(* What travels to the receiver once the transmitter has an acknowledgement *)
(* for len blocks: a packet has the number of its block, and there is an    *)
(* EOT only after the last block.                                           *)

Packets == {Packet(b % SeqSpan, c, b) : b \in 1 .. Blocks, c \in BOOLEAN}
Good(len) == [t : {"CAN", "ACK", "bad", "noise"}]
             \cup Packets
             \cup (IF len = Blocks THEN [t : {"EOT"}] ELSE {})

TxInv == /\ tx_pc \in {"sync", "data", "eot", "done"}
         /\ tx_len \in 0 .. Blocks
         /\ tx_no = (tx_len + 1) % SeqSpan
         /\ tx_pc \in {"sync", "data"} => tx_len < Blocks
         /\ tx_pc = "eot" => tx_len = Blocks
         /\ tx_crc \in BOOLEAN
         /\ tx_retry \in 0 .. SyncTries + MaxRetrans + EotTries
         /\ tx_result \in {"none", "ok", "no_sync", "xmit_error", "canceled",
                           "no_ack"}

RxControl == /\ rx_pc \in {"wait", "done"}
             /\ trychar \in {"C", "NAK", "silent"}
             /\ rx_retry \in 0 .. SyncTries
             /\ retrans \in 0 .. MaxRetrans
             /\ rx_pc = "wait" => retrans > 0
             /\ rx_result \in {"none", "ok", "sync_error", "canceled",
                               "too_many_copies"}

Received == /\ dest \in Seq(1 .. Blocks) /\ Len(dest) <= DestBlocks
            /\ rx_no \in Numbers
            /\ Len(dest) < DestBlocks => rx_no = (Len(dest) + 1) % SeqSpan

RxInv == RxControl /\ rx_crc \in BOOLEAN /\ Received

\* The inductive invariant.
Inv == /\ to_rx \in Seq(Good(tx_len)) /\ to_tx \in Seq(ToTx)
       /\ TxInv
       /\ RxInv
       /\ rx_result = "ok" => tx_len = Blocks
       /\ faults \in 0 .. MaxFaults
-----------------------------------------------------------------------------
(* Sequences and messages.                                                  *)

LEMMA EmptyOf == ASSUME NEW S PROVE << >> \in Seq(S)
  OBVIOUS

LEMMA AppendOf ==
  ASSUME NEW S, NEW s \in Seq(S), NEW x \in S
  PROVE  Append(s, x) \in Seq(S)
  OBVIOUS

LEMMA TailOf ==
  ASSUME NEW S, NEW s \in Seq(S), s # << >>
  PROVE  Head(s) \in S /\ Tail(s) \in Seq(S)
  OBVIOUS

LEMMA ConcatOf ==
  ASSUME NEW S, NEW s \in Seq(S), NEW u \in Seq(S)
  PROVE  s \o u \in Seq(S)
  OBVIOUS

LEMMA AfterOf ==
  ASSUME NEW S, NEW s \in Seq(S), NEW useful, NEW k \in 0 .. 2,
         Fruitless(s, useful, k)
  PROVE  After(s, k) \in Seq(S)
<1>1. k <= Len(s)
  BY DEF Fruitless
<1>2. QED BY <1>1 DEF After

LEMMA SeqMonotonic ==
  ASSUME NEW S, NEW T, S \subseteq T, NEW s \in Seq(S)
  PROVE  s \in Seq(T)
<1>1. \A i \in 1 .. Len(s) : s[i] \in T
  OBVIOUS
<1>2. Len(s) \in Nat /\ s = [i \in 1 .. Len(s) |-> s[i]]
  OBVIOUS
<1>3. QED BY <1>1, <1>2

\* Control characters and packets are good; so is an EOT after the last block.
LEMMA GoodMessages ==
  ASSUME NEW len
  PROVE  /\ \A x \in {"CAN", "ACK", "bad", "noise"} : Ctl(x) \in Good(len)
         /\ len = Blocks => Ctl("EOT") \in Good(len)
         /\ \A b \in 1 .. Blocks, c \in BOOLEAN :
              Packet(b % SeqSpan, c, b) \in Good(len)
         /\ Cancel \in Seq(Good(len))
<1>1. \A x \in {"CAN", "ACK", "bad", "noise"} : Ctl(x) \in Good(len)
  BY DEF Ctl, Good
<1>2. len = Blocks => Ctl("EOT") \in Good(len)
  BY DEF Ctl, Good
<1>3. \A b \in 1 .. Blocks, c \in BOOLEAN :
        Packet(b % SeqSpan, c, b) \in Good(len)
  BY DEF Good, Packets
<1>4. Cancel \in Seq(Good(len))
  BY <1>1 DEF Cancel
<1>5. QED BY <1>1, <1>2, <1>3, <1>4

\* What a good message tells.
LEMMA GoodContents ==
  ASSUME NEW len, NEW m \in Good(len), XmodemAssumption
  PROVE  /\ m.t = "EOT" => len = Blocks
         /\ m.t = "pkt" => /\ m.block \in 1 .. Blocks
                           /\ m.no = m.block % SeqSpan
         /\ m \in ToRx
<1>1. CASE m \in [t : {"CAN", "ACK", "bad", "noise"}]
  BY <1>1 DEF ToRx
<1>2. CASE len = Blocks /\ m \in [t : {"EOT"}]
  BY <1>2 DEF ToRx
<1>3. CASE m \in Packets
  <2>1. PICK b \in 1 .. Blocks, c \in BOOLEAN :
          m = [t |-> "pkt", no |-> b % SeqSpan, crc |-> c, block |-> b]
    BY <1>3 DEF Packets, Packet
  <2>2. b % SeqSpan \in Numbers
    BY XmodemAssumption DEF XmodemAssumption, Numbers
  <2>3. QED BY <2>1, <2>2 DEF ToRx
<1>4. QED BY <1>1, <1>2, <1>3 DEF Good
-----------------------------------------------------------------------------
(* The transmitter keeps the invariant.                                     *)

LEMMA NumberStep ==
  ASSUME XmodemAssumption, NEW n \in Nat
  PROVE  NextNo((n + 1) % SeqSpan) = (n + 2) % SeqSpan /\ (n + 1) % SeqSpan \in Numbers
<1>1. SeqSpan \in Nat \ {0} /\ n + 1 \in Nat
  BY DEF XmodemAssumption
<1>2. (((n + 1) % SeqSpan) + 1) % SeqSpan = ((n + 1) + 1) % SeqSpan
      /\ (n + 1) % SeqSpan \in 0 .. SeqSpan - 1
  BY <1>1, RemainderStep
<1>3. QED BY <1>2 DEF NextNo, Numbers

\* What an action of the transmitter owes: its own state, good lines.
TxDone == /\ to_rx' \in Seq(Good(tx_len')) /\ to_tx' \in Seq(ToTx)
          /\ TxInv'
          /\ tx_len = Blocks => tx_len' = Blocks

LEMMA TxGiveUpKeeps ==
  ASSUME Inv, NEW result \in {"no_sync", "xmit_error"}, TxGiveUp(result)
  PROVE  TxDone
<1>1. to_rx' \in Seq(Good(tx_len'))
  BY GoodMessages, ConcatOf DEF Inv, TxGiveUp
<1>2. to_tx' \in Seq(ToTx)
  BY EmptyOf DEF TxGiveUp
<1>3. TxInv'
  BY DEF Inv, TxInv, TxGiveUp
<1>4. QED BY <1>1, <1>2, <1>3 DEF TxDone, TxGiveUp

LEMMA TxKeeps ==
  ASSUME XmodemAssumption, Inv,
         TxStart \/ TxNoPrompt \/ TxAcked \/ TxResend \/ TxCancel \/ TxEnd
           \/ TxEotAgain
  PROVE  TxDone
<1> USE XmodemAssumption DEF XmodemAssumption
<1>0. TxInv
  BY DEF Inv
<1>1. CASE TxStart
  <2>0. /\ tx_pc = "sync" /\ tx_pc' = "data" /\ tx_retry' = 0
        /\ tx_no' = tx_no /\ tx_len' = tx_len /\ tx_result' = tx_result
    BY <1>1 DEF TxStart
  <2>1. tx_len + 1 \in 1 .. Blocks /\ tx_crc' \in BOOLEAN /\ tx_len' = tx_len
    <3>1. tx_crc' \in BOOLEAN
      BY <1>1 DEF TxStart, Hears
    <3>2. QED BY <1>0, <2>0, <3>1 DEF TxInv
  <2>2. Packet(tx_no, tx_crc', tx_len + 1) \in Good(tx_len')
    BY <2>1, GoodMessages DEF Inv, TxInv
  <2>3. to_rx' \in Seq(Good(tx_len'))
    BY <1>1, <2>1, <2>2, AppendOf DEF Inv, TxStart
  <2>4. to_tx' \in Seq(ToTx)
    BY <1>1, TailOf DEF Inv, TxStart, Hears
  <2>5. TxInv'
    BY <1>0, <2>0, <2>1 DEF TxInv
  <2>6. QED BY <2>1, <2>3, <2>4, <2>5 DEF TxDone
<1>2. CASE TxNoPrompt
  <2>1. PICK k \in 0 .. 2 :
          /\ Fruitless(to_tx, {"C", "NAK"}, k)
          /\ IF tx_retry + 1 < SyncTries
             THEN /\ tx_retry' = tx_retry + 1
                  /\ to_tx' = After(to_tx, k)
                  /\ UNCHANGED <<to_rx, tx_pc, tx_no, tx_len, tx_crc, tx_result>>
             ELSE TxGiveUp("no_sync")
    BY <1>2 DEF TxNoPrompt
  <2>2. CASE tx_retry + 1 < SyncTries
    <3>1. to_tx' \in Seq(ToTx)
      BY <2>1, <2>2, AfterOf DEF Inv
    <3>2. QED BY <2>1, <2>2, <3>1 DEF Inv, TxInv, TxDone
  <2>3. QED BY <2>1, <2>2, TxGiveUpKeeps
<1>3. CASE TxAcked
  <2>1. tx_len < Blocks /\ tx_len \in Nat /\ tx_len' = tx_len + 1
    BY <1>3 DEF Inv, TxInv, TxAcked
  <2>2. tx_no' = (tx_len' + 1) % SeqSpan
    BY <1>3, <2>1, NumberStep DEF Inv, TxInv, TxAcked
  <2>3. to_rx \in Seq(Good(tx_len'))
    <3>1. Good(tx_len) \subseteq Good(tx_len')
      BY <2>1 DEF Good
    <3>2. QED BY <3>1, SeqMonotonic DEF Inv
  <2>4. to_tx' \in Seq(ToTx)
    BY <1>3, TailOf DEF Inv, TxAcked, Hears
  <2>5. CASE tx_len' < Blocks
    <3>1. tx_len' + 1 \in 1 .. Blocks
      BY <2>1, <2>5
    <3>2. Packet(tx_no', tx_crc, tx_len' + 1) \in Good(tx_len')
      BY <2>2, <3>1, GoodMessages DEF Inv, TxInv
    <3>3. to_rx' \in Seq(Good(tx_len'))
      BY <1>3, <2>3, <2>5, <3>2, AppendOf DEF TxAcked, More
    <3>4. TxInv'
      BY <1>3, <2>1, <2>2, <2>5 DEF Inv, TxInv, TxAcked, More
    <3>5. QED BY <2>1, <2>4, <3>3, <3>4 DEF TxDone
  <2>6. CASE tx_len' = Blocks
    <3>1. to_rx' \in Seq(Good(tx_len'))
      BY <1>3, <2>3, <2>6, GoodMessages, AppendOf DEF TxAcked, More
    <3>2. TxInv'
      BY <1>3, <2>1, <2>2, <2>6 DEF Inv, TxInv, TxAcked, More
    <3>3. QED BY <2>1, <2>4, <3>1, <3>2 DEF TxDone
  <2>7. QED BY <2>1, <2>5, <2>6
<1>4. CASE TxResend
  <2>1. PICK k \in 0 .. 2 :
          /\ Fruitless(to_tx, {"ACK"}, k)
          /\ IF tx_retry + 1 < MaxRetrans
             THEN /\ tx_retry' = tx_retry + 1
                  /\ to_tx' = After(to_tx, k)
                  /\ to_rx' = Append(to_rx, Packet(tx_no, tx_crc, tx_len + 1))
                  /\ UNCHANGED <<tx_pc, tx_no, tx_len, tx_crc, tx_result>>
             ELSE TxGiveUp("xmit_error")
    BY <1>4 DEF TxResend
  <2>2. CASE tx_retry + 1 < MaxRetrans
    <3>1. to_tx' \in Seq(ToTx)
      BY <2>1, <2>2, AfterOf DEF Inv
    <3>2. tx_len + 1 \in 1 .. Blocks /\ tx_len' = tx_len
      BY <1>4, <2>1, <2>2 DEF Inv, TxInv, TxResend
    <3>3. Packet(tx_no, tx_crc, tx_len + 1) \in Good(tx_len')
      BY <3>2, GoodMessages DEF Inv, TxInv
    <3>4. to_rx' \in Seq(Good(tx_len'))
      BY <2>1, <2>2, <3>2, <3>3, AppendOf DEF Inv
    <3>5. TxInv'
      BY <2>1, <2>2 DEF Inv, TxInv
    <3>6. QED BY <3>1, <3>2, <3>4, <3>5 DEF TxDone
  <2>3. QED BY <2>1, <2>2, TxGiveUpKeeps
<1>5. CASE TxCancel
  <2>1. to_rx' \in Seq(Good(tx_len')) /\ tx_len' = tx_len
    BY <1>5, GoodMessages, AppendOf DEF Inv, TxCancel
  <2>2. QED BY <1>5, <2>1 DEF Inv, TxInv, TxCancel, TxDone
<1>6. CASE TxEnd
  BY <1>6 DEF Inv, TxInv, TxEnd, TxDone
<1>7. CASE TxEotAgain
  <2>1. PICK k \in 0 .. 1 :
          /\ Fruitless(to_tx, {"ACK"}, k)
          /\ IF tx_retry + 1 < EotTries
             THEN /\ tx_retry' = tx_retry + 1
                  /\ to_tx' = After(to_tx, k)
                  /\ to_rx' = Append(to_rx, Ctl("EOT"))
                  /\ UNCHANGED <<tx_pc, tx_result>>
             ELSE /\ tx_pc' = "done" /\ tx_result' = "no_ack"
                  /\ to_tx' = << >>
                  /\ UNCHANGED <<to_rx, tx_retry>>
    BY <1>7 DEF TxEotAgain
  <2>2. tx_len = Blocks /\ tx_len' = tx_len
    BY <1>7 DEF Inv, TxInv, TxEotAgain
  <2>3. to_tx' \in Seq(ToTx)
    <3>1. After(to_tx, k) \in Seq(ToTx)
      BY <2>1, AfterOf DEF Inv
    <3>2. QED BY <2>1, <3>1, EmptyOf
  <2>4. to_rx' \in Seq(Good(tx_len'))
    <3>1. Append(to_rx, Ctl("EOT")) \in Seq(Good(tx_len'))
      BY <2>2, GoodMessages, AppendOf DEF Inv
    <3>2. QED BY <2>1, <2>2, <3>1 DEF Inv
  <2>5. TxInv'
    BY <1>7, <2>1, <2>2 DEF Inv, TxInv, TxEotAgain
  <2>6. QED BY <2>2, <2>3, <2>4, <2>5 DEF TxDone
<1>8. QED BY <1>1, <1>2, <1>3, <1>4, <1>5, <1>6, <1>7
-----------------------------------------------------------------------------
(* The receiver keeps the invariant.                                        *)

RxDone == /\ to_rx' \in Seq(Good(tx_len)) /\ to_tx' \in Seq(ToTx)
          /\ RxInv'
          /\ rx_result' = "ok" => tx_len = Blocks

LEMMA Answers ==
  /\ \A x \in {"C", "NAK", "ACK", "CAN", "noise"} : Ctl(x) \in ToTx
  /\ Cancel \in Seq(ToTx)
  /\ \A c \in {"C", "NAK", "silent"} : Prompt(c) \in Seq(ToTx)
<1>1. \A x \in {"C", "NAK", "ACK", "CAN", "noise"} : Ctl(x) \in ToTx
  BY DEF Ctl, ToTx
<1>2. Cancel \in Seq(ToTx)
  BY <1>1 DEF Cancel
<1>3. \A c \in {"C", "NAK", "silent"} : Prompt(c) \in Seq(ToTx)
  BY <1>1 DEF Prompt
<1>4. QED BY <1>1, <1>2, <1>3

LEMMA RxReturnsKeeps ==
  ASSUME Inv, rx_pc = "wait", NEW result, NEW answer \in Seq(ToTx),
         result \in {"ok", "sync_error", "canceled"},
         result = "ok" => tx_len = Blocks,
         RxReturns(result, answer)
  PROVE  RxDone
<1>1. to_rx' \in Seq(Good(tx_len)) /\ to_tx' \in Seq(ToTx)
  BY EmptyOf, ConcatOf DEF Inv, RxReturns
<1>2. RxControl' /\ rx_result' = result
  BY DEF Inv, RxInv, RxControl, RxReturns
<1>3. rx_crc' \in BOOLEAN /\ Received'
  BY DEF Inv, RxInv, Received, RxReturns
<1>4. QED BY <1>1, <1>2, <1>3 DEF RxDone, RxInv

LEMMA RxKeeps ==
  ASSUME XmodemAssumption, Inv,
         RxNoHeader \/ RxCancel \/ RxEot \/ RxAccept \/ RxCopy \/ RxReject
  PROVE  RxDone
<1> USE XmodemAssumption DEF XmodemAssumption
<1>0. RxControl /\ rx_crc \in BOOLEAN /\ Received /\ to_rx \in Seq(Good(tx_len)) /\ to_tx \in Seq(ToTx)
      /\ (rx_result = "ok" => tx_len = Blocks)
  BY DEF Inv, RxInv
<1>1. CASE RxNoHeader
  <2>1. PICK k \in 0 .. 2 :
          /\ Fruitless(to_rx, {"pkt", "bad", "EOT"}, k)
          /\ \/ /\ ThisTry < SyncTries
                /\ rx_retry' = ThisTry
                /\ to_rx' = After(to_rx, k)
                /\ to_tx' = to_tx \o Prompt(trychar)
                /\ UNCHANGED <<rx_pc, rx_no, trychar, rx_crc, retrans,
                               rx_result, dest>>
             \/ /\ ThisTry = SyncTries /\ trychar = "C"
                /\ rx_retry' = 0 /\ trychar' = "NAK"
                /\ to_rx' = After(to_rx, k)
                /\ to_tx' = to_tx \o Prompt("NAK")
                /\ UNCHANGED <<rx_pc, rx_no, rx_crc, retrans, rx_result, dest>>
             \/ /\ ThisTry = SyncTries /\ trychar # "C"
                /\ RxReturns("sync_error", Cancel)
    BY <1>1 DEF RxNoHeader
  <2>2. After(to_rx, k) \in Seq(Good(tx_len))
    BY <1>0, <2>1, AfterOf
  <2>3. /\ to_tx \o Prompt(trychar) \in Seq(ToTx)
        /\ to_tx \o Prompt("NAK") \in Seq(ToTx)
    BY <1>0, Answers, ConcatOf DEF RxControl
  <2>4. ASSUME rx_retry' = ThisTry, ThisTry < SyncTries,
               UNCHANGED <<rx_pc, rx_no, trychar, rx_crc, retrans,
                           rx_result, dest>>
        PROVE  RxInv' /\ rx_result' = rx_result
    BY <1>0, <2>4 DEF RxInv, RxControl, Received, ThisTry
  <2>5. ASSUME rx_retry' = 0, trychar' = "NAK",
               UNCHANGED <<rx_pc, rx_no, rx_crc, retrans, rx_result, dest>>
        PROVE  RxInv' /\ rx_result' = rx_result
    BY <1>0, <2>5 DEF RxInv, RxControl, Received
  <2>6. ASSUME RxReturns("sync_error", Cancel) PROVE RxDone
    BY <1>1, <2>6, RxReturnsKeeps, Answers DEF RxNoHeader
  <2>7. QED BY <1>0, <2>1, <2>2, <2>3, <2>4, <2>5, <2>6 DEF RxDone
<1>2. CASE RxCancel
  <2>1. <<Ctl("ACK")>> \in Seq(ToTx)
    BY Answers
  <2>2. QED BY <1>2, <2>1, RxReturnsKeeps DEF RxCancel
<1>3. CASE RxEot
  <2>1. <<Ctl("ACK")>> \in Seq(ToTx)
    BY Answers
  <2>2. Head(to_rx) \in Good(tx_len) /\ Head(to_rx).t = "EOT"
    BY <1>0, <1>3, TailOf DEF RxEot, Hears
  <2>3. tx_len = Blocks
    BY <2>2, GoodContents
  <2>4. QED BY <1>3, <2>1, <2>3, RxReturnsKeeps DEF RxEot
<1>4. CASE RxAccept
  <2>1. /\ Head(to_rx) \in Good(tx_len) /\ Tail(to_rx) \in Seq(Good(tx_len))
        /\ Append(to_tx, Ctl("ACK")) \in Seq(ToTx)
    BY <1>0, <1>4, TailOf, AppendOf, Answers DEF RxAccept
  <2>2. Head(to_rx).block \in 1 .. Blocks
    BY <1>4, <2>1, GoodContents DEF RxAccept, PacketOK
  <2>3. /\ dest' = IF Len(dest) < DestBlocks
                  THEN Append(dest, Head(to_rx).block) ELSE dest
        /\ rx_no' = NextNo(rx_no) /\ retrans' = MaxRetrans
        /\ trychar' = "silent" /\ rx_retry' = 0 /\ rx_crc' = CrcNow
        /\ rx_pc' = rx_pc /\ rx_result' = rx_result
    BY <1>4 DEF RxAccept, HeaderSeen
  <2>4. dest' \in Seq(1 .. Blocks) /\ Len(dest') <= DestBlocks
    <3>1. CASE Len(dest) < DestBlocks
      <4>1. dest' = Append(dest, Head(to_rx).block) /\ dest \in Seq(1 .. Blocks)
            /\ Len(dest) \in Nat
        BY <1>0, <2>3, <3>1 DEF Received
      <4>2. dest' \in Seq(1 .. Blocks)
        BY <2>2, <4>1, AppendOf
      <4>3. Len(dest') = Len(dest) + 1
        BY <4>1
      <4>4. QED BY <3>1, <4>1, <4>2, <4>3
    <3>2. CASE ~(Len(dest) < DestBlocks)
      BY <1>0, <2>3, <3>2 DEF Received
    <3>3. QED BY <3>1, <3>2
  <2>5. Len(dest') < DestBlocks => rx_no' = (Len(dest') + 1) % SeqSpan
    <3>1. CASE Len(dest) < DestBlocks
      <4>1. Len(dest') = Len(dest) + 1 /\ Len(dest) \in Nat
        BY <1>0, <2>2, <2>3, <3>1 DEF Received
      <4>2. rx_no' = (Len(dest) + 2) % SeqSpan
        BY <1>0, <2>3, <3>1, <4>1, NumberStep DEF Received
      <4>3. QED BY <4>1, <4>2
    <3>2. QED BY <2>3, <3>1
  <2>6. rx_no' \in Numbers
    BY <1>0, <2>3 DEF Received, NextNo, Numbers
  <2>7. rx_crc' \in BOOLEAN
    BY <1>0, <2>3 DEF CrcNow
  <2>8. RxInv'
    <3>1. RxControl'
      BY <1>0, <2>3 DEF RxControl
    <3>2. QED BY <2>4, <2>5, <2>6, <2>7, <3>1 DEF RxInv, Received
  <2>9. QED BY <1>0, <1>4, <2>1, <2>3, <2>8 DEF RxAccept, RxDone
<1>5. CASE RxCopy
  <2>1. Tail(to_rx) \in Seq(Good(tx_len))
        /\ Append(to_tx, Ctl("ACK")) \in Seq(ToTx)
        /\ to_tx \o Cancel \in Seq(ToTx)
    BY <1>0, <1>5, TailOf, AppendOf, ConcatOf, Answers DEF RxCopy
  <2>2. to_rx' \in Seq(Good(tx_len)) /\ to_tx' \in Seq(ToTx)
    BY <1>5, <2>1, EmptyOf DEF RxCopy
  <2>3. rx_crc' \in BOOLEAN
    BY <1>0, <1>5 DEF RxCopy, HeaderSeen, CrcNow
  <2>4. RxControl' /\ (rx_result' = "ok" => rx_result = "ok")
    BY <1>0, <1>5 DEF RxControl, RxCopy, HeaderSeen
  <2>5. Received'
    BY <1>0, <1>5 DEF Received, RxCopy
  <2>6. QED BY <1>0, <2>2, <2>3, <2>4, <2>5 DEF RxDone, RxInv
<1>6. CASE RxReject
  <2>1. to_rx' \in Seq(Good(tx_len)) /\ to_tx' \in Seq(ToTx)
    BY <1>0, <1>6, EmptyOf, AppendOf, Answers DEF RxReject
  <2>2. rx_crc' \in BOOLEAN
    BY <1>0, <1>6 DEF RxReject, HeaderSeen, CrcNow
  <2>3. RxControl' /\ rx_result' = rx_result
    BY <1>0, <1>6 DEF RxControl, RxReject, HeaderSeen
  <2>4. Received'
    BY <1>0, <1>6 DEF Received, RxReject
  <2>5. QED BY <1>0, <2>1, <2>2, <2>3, <2>4 DEF RxDone, RxInv
<1>7. QED BY <1>1, <1>2, <1>3, <1>4, <1>5, <1>6
-----------------------------------------------------------------------------
(* The invariant holds.                                                     *)

LEMMA InvInit == ASSUME XmodemAssumption, Init PROVE Inv
<1> USE XmodemAssumption DEF XmodemAssumption
<1>1. to_rx \in Seq(Good(tx_len)) /\ to_tx \in Seq(ToTx)
  <2>1. <<Ctl("C")>> \in Seq(ToTx)
    BY Answers
  <2>2. QED BY <2>1, EmptyOf DEF Init
<1>2. 1 % SeqSpan = 1
  BY RemainderSmall
<1>3. TxInv
  <2>1. tx_pc = "sync" /\ tx_no = 1 /\ tx_len = 0 /\ tx_retry = 0
        /\ tx_result = "none"
    BY DEF Init
  <2>2. tx_crc \in BOOLEAN
    BY DEF Init
  <2>3. tx_no = (tx_len + 1) % SeqSpan
    BY <1>2, <2>1
  <2>4. QED BY <2>1, <2>2, <2>3 DEF TxInv
<1>4. RxControl /\ rx_crc \in BOOLEAN
  <2>1. rx_pc = "wait" /\ trychar = "C" /\ rx_retry = 0
        /\ retrans = MaxRetrans /\ rx_result = "none"
    BY DEF Init
  <2>2. rx_crc \in BOOLEAN
    BY DEF Init
  <2>3. QED BY <2>1, <2>2 DEF RxControl
<1>5. Received
  <2>1. dest \in Seq(1 .. Blocks) /\ Len(dest) = 0
    BY EmptyOf DEF Init
  <2>2. QED BY <1>2, <2>1 DEF Init, Received, Numbers
<1>6. (rx_result = "ok" => tx_len = Blocks) /\ faults \in 0 .. MaxFaults
  BY DEF Init
<1>7. QED BY <1>1, <1>3, <1>4, <1>5, <1>6 DEF Inv, RxInv

LEMMA DamagedOf ==
  ASSUME XmodemAssumption, NEW len
  PROVE  /\ \A m \in Good(len) : Damaged(m) \in Good(len)
         /\ \A m \in ToTx : Damaged(m) \in ToTx
<1>1. \A m \in Good(len) : Damaged(m) \in Good(len)
  BY GoodMessages DEF Damaged
<1>2. \A m \in ToTx : Damaged(m) \in ToTx
  BY Answers DEF Damaged, ToTx
<1>3. QED BY <1>1, <1>2

\* A lost or damaged head leaves a line of the same kind of messages.
LEMMA FaultOf ==
  ASSUME NEW S, NEW s \in Seq(S), s # << >>, NEW d \in S,
         NEW r \in {Tail(s), <<d>> \o Tail(s)}
  PROVE  r \in Seq(S)
<1>1. <<d>> \in Seq(S) /\ Tail(s) \in Seq(S)
  OBVIOUS
<1>2. <<d>> \o Tail(s) \in Seq(S)
  BY <1>1, ConcatOf
<1>3. QED BY <1>1, <1>2

LEMMA InvNext == ASSUME XmodemAssumption, Inv, [Next]_vars PROVE Inv'
<1>1. CASE TxNext
  <2>1. TxDone
    BY <1>1, TxKeeps DEF TxNext
  <2>2. RxInv' /\ rx_result' = rx_result /\ faults' = faults
    <3>1. UNCHANGED rx /\ UNCHANGED faults
      BY <1>1 DEF TxNext
    <3>2. RxControl' /\ rx_result' = rx_result
      BY <3>1 DEF rx, Inv, RxInv, RxControl
    <3>3. rx_crc' \in BOOLEAN /\ Received'
      BY <3>1 DEF rx, Inv, RxInv, Received
    <3>4. QED BY <3>1, <3>2, <3>3 DEF RxInv
  <2>3. QED BY <2>1, <2>2 DEF TxDone, Inv
<1>2. CASE RxNext
  <2>1. RxDone
    BY <1>2, RxKeeps DEF RxNext
  <2>2. TxInv' /\ tx_len' = tx_len /\ faults' = faults
    BY <1>2 DEF RxNext, tx, Inv, TxInv
  <2>3. QED BY <2>1, <2>2 DEF RxDone, Inv
<1>3. CASE LineFault
  <2>1. to_rx' \in Seq(Good(tx_len)) /\ to_tx' \in Seq(ToTx)
    <3>1. CASE /\ to_rx # << >>
               /\ to_rx' \in {Tail(to_rx), <<Damaged(Head(to_rx))>> \o Tail(to_rx)}
               /\ UNCHANGED to_tx
      <4>1. Damaged(Head(to_rx)) \in Good(tx_len)
        BY <3>1, TailOf, DamagedOf DEF Inv
      <4>2. QED BY <3>1, <4>1, FaultOf DEF Inv
    <3>2. CASE /\ to_tx # << >>
               /\ to_tx' \in {Tail(to_tx), <<Damaged(Head(to_tx))>> \o Tail(to_tx)}
               /\ UNCHANGED to_rx
      <4>1. Damaged(Head(to_tx)) \in ToTx
        BY <3>2, TailOf, DamagedOf DEF Inv
      <4>2. QED BY <3>2, <4>1, FaultOf DEF Inv
    <3>3. QED BY <1>3, <3>1, <3>2 DEF LineFault
  <2>2. faults' \in 0 .. MaxFaults
    BY <1>3 DEF LineFault, Inv, XmodemAssumption
  <2>3. UNCHANGED <<tx, rx>>
    BY <1>3 DEF LineFault
  <2>4. TxInv' /\ tx_len' = tx_len
    BY <2>3 DEF tx, Inv, TxInv
  <2>5. RxControl' /\ rx_result' = rx_result
    BY <2>3 DEF rx, Inv, RxInv, RxControl
  <2>6. rx_crc' \in BOOLEAN /\ Received'
    BY <2>3 DEF rx, Inv, RxInv, Received
  <2>7. QED BY <2>1, <2>2, <2>4, <2>5, <2>6 DEF Inv, RxInv
<1>4. CASE UNCHANGED vars
  <2>1. UNCHANGED <<lines, tx, rx, faults>>
    BY <1>4 DEF vars
  <2>2. TxInv' /\ tx_len' = tx_len
    BY <2>1 DEF tx, Inv, TxInv
  <2>3. RxControl' /\ rx_result' = rx_result
    BY <2>1 DEF rx, Inv, RxInv, RxControl
  <2>4. rx_crc' \in BOOLEAN /\ Received'
    BY <2>1 DEF rx, Inv, RxInv, Received
  <2>5. QED BY <2>1, <2>2, <2>3, <2>4 DEF lines, Inv, RxInv
<1>5. QED BY <1>1, <1>2, <1>3, <1>4 DEF Next, Finished

\* Packet numbers and blocks go together on the line, and the receiver's
\* packet number follows the blocks it has: the strengthening of the theorems.
THEOREM InvHolds == ASSUME XmodemAssumption PROVE Spec => []Inv
<1>1. Init => Inv
  BY InvInit
<1>2. Inv /\ [Next]_vars => Inv'
  BY InvNext
<1>3. QED BY <1>1, <1>2, PTL DEF Spec

LEMMA GoodRange == ASSUME XmodemAssumption, NEW len PROVE Good(len) \subseteq ToRx
  BY GoodContents

LEMMA InvTypes == ASSUME XmodemAssumption, Inv PROVE TypeOK
<1>1. to_rx \in Seq(ToRx)
  BY GoodRange, SeqMonotonic DEF Inv
<1>2. tx_no \in Numbers
  BY NumberStep DEF Inv, TxInv
<1>3. QED BY <1>1, <1>2 DEF TypeOK, Inv, TxInv, RxInv, RxControl, Received

\* xmodemTransmit and xmodemReceive keep their types, packet numbers and
\* counters in range whatever the line does.
THEOREM TypeCorrect == ASSUME XmodemAssumption PROVE Spec => []TypeOK
<1>1. Inv => TypeOK
  BY InvTypes
<1>2. QED BY <1>1, InvHolds, PTL

\* xmodemReceive returns normally only when the transmitter has seen an
\* acknowledgement for every block.
THEOREM NormalEnd == ASSUME XmodemAssumption PROVE Spec => []EndAfterLastAck
<1>1. Inv => EndAfterLastAck
  BY DEF Inv, EndAfterLastAck
<1>2. QED BY <1>1, InvHolds, PTL
-----------------------------------------------------------------------------
(* Order.                                                                   *)

\* While the numbers do not wrap, the number of the packet that the receiver
\* accepts says which block it carries.
LEMMA AcceptedBlock ==
  ASSUME XmodemAssumption, NoWrap, Inv, InOrder, RxAccept,
         Len(dest) < DestBlocks
  PROVE  Head(to_rx).block = Len(dest) + 1
<1> DEFINE p == Head(to_rx)
           n == Len(dest)
<1>1. p \in Good(tx_len) /\ p.t = "pkt" /\ p.no = rx_no
  BY TailOf DEF Inv, RxAccept, PacketOK, IsNew
<1>2. p.block \in 1 .. Blocks /\ p.no = p.block % SeqSpan
  BY <1>1, GoodContents
<1>3. n \in 0 .. Blocks
  <2>1. dest \in Seq(1 .. Blocks) /\ n \in Nat
    BY DEF Inv, RxInv, Received
  <2>2. CASE n = 0
    BY <2>2 DEF XmodemAssumption
  <2>3. CASE n > 0
    <3>1. dest[n] = n /\ dest[n] \in 1 .. Blocks
      BY <2>1, <2>3 DEF InOrder
    <3>2. QED BY <3>1
  <2>4. QED BY <2>1, <2>2, <2>3
<1>4. rx_no = (n + 1) % SeqSpan
  BY DEF Inv, RxInv, Received
<1>5. p.block % SeqSpan = (n + 1) % SeqSpan
  BY <1>1, <1>2, <1>4
<1>6. /\ SeqSpan \in Nat \ {0} /\ Blocks \in Nat /\ Blocks < SeqSpan
  BY DEF XmodemAssumption, NoWrap
<1>7. p.block \in 0 .. SeqSpan /\ p.block < SeqSpan /\ p.block > 0
  BY <1>2, <1>6
<1>8. p.block % SeqSpan = p.block
  BY <1>6, <1>7, RemainderSmall
<1>9. (n + 1) % SeqSpan = IF n + 1 = SeqSpan THEN 0 ELSE n + 1
  <2>1. n + 1 \in 0 .. SeqSpan
    BY <1>3, <1>6
  <2>2. QED BY <1>6, <2>1, RemainderSmall
<1>10. QED BY <1>5, <1>7, <1>8, <1>9

LEMMA OrderNext ==
  ASSUME XmodemAssumption, NoWrap, Inv, InOrder, [Next]_vars
  PROVE  InOrder'
<1>0. dest \in Seq(1 .. Blocks)
  BY DEF Inv, RxInv, Received
<1>1. CASE RxAccept /\ Len(dest) < DestBlocks
  <2>1. dest' = Append(dest, Len(dest) + 1)
    BY <1>1, AcceptedBlock DEF RxAccept
  <2>2. QED BY <1>0, <2>1 DEF InOrder
<1>2. CASE UNCHANGED dest
  BY <1>2 DEF InOrder
<1>3. (RxAccept /\ Len(dest) < DestBlocks) \/ UNCHANGED dest
  <2>1. CASE RxNext
    BY <2>1 DEF RxNext, RxNoHeader, RxCancel, RxEot, RxReturns, RxAccept,
                RxCopy, RxReject
  <2>2. CASE TxNext
    BY <2>2 DEF TxNext, rx
  <2>3. CASE LineFault
    BY <2>3 DEF LineFault, rx
  <2>4. CASE UNCHANGED vars
    BY <2>4 DEF vars, rx
  <2>5. QED BY <2>1, <2>2, <2>3, <2>4 DEF Next, Finished
<1>4. QED BY <1>1, <1>2, <1>3

\* While the packet numbers do not wrap, what xmodemReceive passes to
\* flash_disk_write is a prefix of the image, whatever the line loses, damages
\* or delays.
THEOREM OrderKept == ASSUME XmodemAssumption, NoWrap PROVE Spec => []InOrder
<1>1. Init => InOrder
  BY DEF Init, InOrder
<1>2. Inv /\ InOrder /\ [Next]_vars => InOrder'
  BY OrderNext
<1>3. QED BY <1>1, <1>2, InvHolds, PTL DEF Spec
-----------------------------------------------------------------------------
(* A line without faults.  An answer may be late, so copies of a packet pile *)
(* up in front of the next one, yet what waits in the line continues what    *)
(* the receiver has: the stages (the block, or one past the last for an EOT) *)
(* never fall, none is skipped, and every block that the transmitter works   *)
(* on is there or has arrived.                                               *)

Useful(m) == m.t \in {"pkt", "EOT"}
Stage(m) == IF m.t = "EOT" THEN Blocks + 1 ELSE m.block
IsBlock(m, b) == m.t = "pkt" /\ m.block = b
CarriedBy(line, k, b) == \E j \in 1 .. k : IsBlock(line[j], b)
Without(line, c) == \A i \in 1 .. Len(line) : line[i].t # c

Clean(line, crc) ==
  /\ \A i \in 1 .. Len(line) : /\ line[i].t # "bad"
                               /\ line[i].t = "pkt" => line[i].crc = crc
  /\ \A i, j \in 1 .. Len(line) :
       i < j /\ line[i].t = "CAN" => ~Useful(line[j])
Inside(line, n, top) ==
  \A i \in 1 .. Len(line) : Useful(line[i]) => Stage(line[i]) \in n .. top
Monotone(line) ==
  \A i, j \in 1 .. Len(line) :
    i < j /\ Useful(line[i]) /\ Useful(line[j]) => Stage(line[i]) <= Stage(line[j])
Gapless(line, n) ==
  \A i \in 1 .. Len(line) : Useful(line[i]) =>
    \A b \in n + 1 .. Stage(line[i]) - 1 : CarriedBy(line, i - 1, b)
Covered(line, n, c) == \A b \in n + 1 .. c : CarriedBy(line, Len(line), b)

\* The line continues the first n blocks, up to stage top, c of them sent.
Continues(line, n, top, c) ==
  /\ n <= top
  /\ Inside(line, n, top) /\ Monotone(line) /\ Gapless(line, n)
  /\ Covered(line, n, c)

\* The last block that the transmitter still answers for.
Sent == IF tx_pc = "data" THEN tx_len + 1
        ELSE IF tx_pc = "eot" THEN tx_len ELSE 0

\* No acknowledgement has been given, so no EOT follows.
Stalled == tx_pc # "eot" /\ Without(to_rx, "EOT") /\ Without(to_tx, "ACK")

\* Until a prompt is heard nothing has been sent.
Starting == tx_pc = "sync" => /\ to_rx = << >> /\ trychar # "silent"
                              /\ tx_len = 0 /\ dest = << >>

\* While the receiver waits.  Both ends agree on the check (CRC or sum) or
\* no packet is ever accepted; as long as it prompts that is still open.
Flowing ==
  /\ Clean(to_rx, tx_crc) /\ Starting
  /\ tx_pc # "done" => Without(to_rx, "CAN")
  /\ trychar # "silent" \/ CrcNow # tx_crc => Stalled
  /\ trychar # "silent" \/ CrcNow = tx_crc =>
       Continues(to_rx, Len(dest), tx_len + 1, Sent)

Incomplete == faults = 0 /\ Blocks <= DestBlocks /\ Len(dest) < Blocks
Flow == Incomplete => rx_result # "ok" /\ (rx_pc = "wait" => Flowing)
-----------------------------------------------------------------------------
(* Lines that grow at the end and shrink at the head.                       *)

LEMMA Appended ==
  ASSUME NEW S, NEW s \in Seq(S), NEW x
  PROVE  /\ Len(s) \in Nat /\ Len(Append(s, x)) = Len(s) + 1
         /\ \A i \in 1 .. Len(s) : Append(s, x)[i] = s[i]
         /\ Append(s, x)[Len(s) + 1] = x
  OBVIOUS

LEMMA Tailed ==
  ASSUME NEW S, NEW s \in Seq(S), s # << >>
  PROVE  /\ Len(s) \in Nat \ {0} /\ Len(Tail(s)) = Len(s) - 1
         /\ \A i \in 1 .. Len(s) - 1 : Tail(s)[i] = s[i + 1]
         /\ Head(s) = s[1]
  OBVIOUS

LEMMA AfterIs ==
  ASSUME NEW S, NEW s \in Seq(S)
  PROVE  /\ After(s, 0) = s
         /\ s # << >> => After(s, 1) = Tail(s)
         /\ Len(s) >= 2 => /\ After(s, 2) = Tail(Tail(s))
                           /\ s # << >> /\ Tail(s) # << >> /\ Tail(s) \in Seq(S)
  BY DEF After

\* The line after one more useful message, of the highest stage so far.
LEMMA ContinuesAppend ==
  ASSUME NEW S, NEW line \in Seq(S), NEW n \in Nat, NEW top \in Nat, NEW c \in Nat,
         Continues(line, n, top, c),
         NEW x, Useful(x), Stage(x) \in Nat, top <= Stage(x), Stage(x) <= c + 1
  PROVE  /\ Continues(Append(line, x), n, Stage(x), c)
         /\ x.t = "pkt" => Continues(Append(line, x), n, Stage(x), Stage(x))
<1> DEFINE l == Append(line, x)
<1> HIDE DEF l
<1>1. /\ Len(line) \in Nat /\ Len(l) = Len(line) + 1
      /\ \A i \in 1 .. Len(line) : l[i] = line[i]
      /\ l[Len(line) + 1] = x
  BY Appended DEF l
<1>2. \A i \in 1 .. Len(l) : i \in 1 .. Len(line) \/ i = Len(line) + 1
  BY <1>1
<1>3. ASSUME NEW k \in 0 .. Len(line), NEW b
      PROVE  CarriedBy(l, k, b) <=> CarriedBy(line, k, b)
  BY <1>1 DEF CarriedBy
<1>4. Inside(l, n, Stage(x))
  <2>1. \A i \in 1 .. Len(line) : Useful(line[i]) => Stage(line[i]) \in n .. Stage(x)
    BY DEF Continues, Inside
  <2>2. Stage(x) \in n .. Stage(x)
    BY DEF Continues
  <2>3. QED BY <1>1, <1>2, <2>1, <2>2 DEF Inside
<1>5. Monotone(l)
  <2> SUFFICES ASSUME NEW i \in 1 .. Len(l), NEW j \in 1 .. Len(l), i < j,
                      Useful(l[i]), Useful(l[j])
               PROVE  Stage(l[i]) <= Stage(l[j])
    BY DEF Monotone
  <2>1. i \in 1 .. Len(line) /\ l[i] = line[i]
    BY <1>1
  <2>2. CASE j \in 1 .. Len(line)
    BY <1>1, <2>1, <2>2 DEF Continues, Monotone
  <2>3. CASE j = Len(line) + 1
    <3>1. Stage(line[i]) \in n .. top
      BY <2>1 DEF Continues, Inside
    <3>2. QED BY <1>1, <2>1, <2>3, <3>1
  <2>4. QED BY <1>2, <2>2, <2>3
<1>6. Gapless(l, n)
  <2> SUFFICES ASSUME NEW i \in 1 .. Len(l), Useful(l[i]),
                      NEW b \in n + 1 .. Stage(l[i]) - 1
               PROVE  CarriedBy(l, i - 1, b)
    BY DEF Gapless
  <2>1. CASE i \in 1 .. Len(line)
    <3>1. CarriedBy(line, i - 1, b)
      BY <1>1, <2>1 DEF Continues, Gapless
    <3>2. i - 1 \in 0 .. Len(line)
      BY <1>1, <2>1
    <3>3. QED BY <1>3, <3>1, <3>2
  <2>2. CASE i = Len(line) + 1
    <3>1. b \in n + 1 .. c
      BY <1>1, <2>2
    <3>2. CarriedBy(line, Len(line), b)
      BY <3>1 DEF Continues, Covered
    <3>3. QED BY <1>1, <1>3, <2>2, <3>2
  <2>3. QED BY <1>2, <2>1, <2>2
<1>7. \A b : CarriedBy(line, Len(line), b) => CarriedBy(l, Len(l), b)
  BY <1>1 DEF CarriedBy
<1>8. Covered(l, n, c)
  BY <1>7 DEF Continues, Covered
<1>9. x.t = "pkt" => Covered(l, n, Stage(x))
  <2>1. x.t = "pkt" => CarriedBy(l, Len(l), Stage(x))
    BY <1>1 DEF CarriedBy, IsBlock, Stage
  <2>2. \A b \in n + 1 .. Stage(x) : b \in n + 1 .. c \/ b = Stage(x)
    OBVIOUS
  <2>3. QED BY <1>8, <2>1, <2>2 DEF Covered
<1>10. n <= Stage(x)
  BY DEF Continues
<1>11. QED BY <1>4, <1>5, <1>6, <1>8, <1>9, <1>10 DEF Continues, l

\* The line behind its head, which leaves the receiver at m: a useful head is
\* of stage m, any other changes nothing.
LEMMA ContinuesTail ==
  ASSUME NEW S, NEW line \in Seq(S), line # << >>,
         NEW n \in Nat, NEW m \in Nat, NEW top \in Nat, NEW c \in Nat,
         Continues(line, n, top, c), n <= m,
         Useful(Head(line)) => Stage(Head(line)) = m,
         ~Useful(Head(line)) => m = n
  PROVE  Continues(Tail(line), m, top, c)
<1> DEFINE l == Tail(line)
<1> HIDE DEF l
<1>1. /\ Len(line) \in Nat \ {0} /\ Len(l) = Len(line) - 1
      /\ \A i \in 1 .. Len(l) : l[i] = line[i + 1] /\ i + 1 \in 1 .. Len(line)
      /\ Head(line) = line[1] /\ 1 \in 1 .. Len(line)
  BY Tailed DEF l
<1>2. ASSUME NEW k \in 0 .. Len(l), NEW b \in Int, b > m, CarriedBy(line, k + 1, b)
      PROVE  CarriedBy(l, k, b)
  <2>1. PICK j \in 1 .. k + 1 : IsBlock(line[j], b)
    BY <1>2 DEF CarriedBy
  <2>2. j # 1
    BY <1>1, <1>2, <2>1 DEF IsBlock, Useful, Stage
  <2>3. j - 1 \in 1 .. k /\ j - 1 \in 1 .. Len(l) /\ (j - 1) + 1 = j
    BY <1>1, <2>2
  <2>4. l[j - 1] = line[j]
    BY <1>1, <2>3
  <2>5. QED BY <2>1, <2>3, <2>4 DEF CarriedBy
<1>3. Inside(l, m, top)
  <2> SUFFICES ASSUME NEW i \in 1 .. Len(l), Useful(l[i])
               PROVE  Stage(l[i]) \in m .. top
    BY DEF Inside
  <2>1. l[i] = line[i + 1] /\ i + 1 \in 1 .. Len(line) /\ 1 < i + 1
    BY <1>1
  <2>2. Stage(l[i]) \in n .. top
    BY <2>1 DEF Continues, Inside
  <2>3. Useful(line[1]) => Stage(line[1]) <= Stage(l[i])
    BY <1>1, <2>1 DEF Continues, Monotone
  <2>4. QED BY <1>1, <2>2, <2>3
<1>4. Monotone(l)
  <2> SUFFICES ASSUME NEW i \in 1 .. Len(l), NEW j \in 1 .. Len(l), i < j,
                      Useful(l[i]), Useful(l[j])
               PROVE  Stage(l[i]) <= Stage(l[j])
    BY DEF Monotone
  <2>1. /\ l[i] = line[i + 1] /\ i + 1 \in 1 .. Len(line)
        /\ l[j] = line[j + 1] /\ j + 1 \in 1 .. Len(line) /\ i + 1 < j + 1
    BY <1>1
  <2>2. QED BY <2>1 DEF Continues, Monotone
<1>5. Gapless(l, m)
  <2> SUFFICES ASSUME NEW i \in 1 .. Len(l), Useful(l[i]),
                      NEW b \in m + 1 .. Stage(l[i]) - 1
               PROVE  CarriedBy(l, i - 1, b)
    BY DEF Gapless
  <2>1. l[i] = line[i + 1] /\ i + 1 \in 1 .. Len(line)
    BY <1>1
  <2>2. Stage(l[i]) \in n .. top
    BY <2>1 DEF Continues, Inside
  <2>3. b \in n + 1 .. Stage(line[i + 1]) - 1
    BY <2>1, <2>2
  <2>4. CarriedBy(line, (i + 1) - 1, b)
    BY <2>1, <2>3 DEF Continues, Gapless
  <2>5. (i - 1) + 1 = (i + 1) - 1 /\ i - 1 \in 0 .. Len(l) /\ b \in Int /\ b > m
    BY <1>1, <2>2
  <2>6. QED BY <1>2, <2>4, <2>5
<1>6. Covered(l, m, c)
  <2> SUFFICES ASSUME NEW b \in m + 1 .. c PROVE CarriedBy(l, Len(l), b)
    BY DEF Covered
  <2>1. CarriedBy(line, Len(line), b)
    BY DEF Continues, Covered
  <2>2. Len(line) = Len(l) + 1 /\ Len(l) \in 0 .. Len(l) /\ b \in Int /\ b > m
    BY <1>1
  <2>3. QED BY <1>2, <2>1, <2>2
<1>7. m <= top
  <2>1. Useful(line[1]) => Stage(line[1]) \in n .. top
    BY <1>1 DEF Continues, Inside
  <2>2. QED BY <1>1, <2>1 DEF Continues
<1>8. QED BY <1>3, <1>4, <1>5, <1>6, <1>7 DEF Continues, l

\* A message that is not useful changes nothing.
LEMMA ContinuesUseless ==
  ASSUME NEW S, NEW line \in Seq(S), NEW n \in Nat, NEW top \in Nat, NEW c \in Nat,
         Continues(line, n, top, c), NEW x, ~Useful(x)
  PROVE  Continues(Append(line, x), n, top, c)
<1> DEFINE l == Append(line, x)
<1> HIDE DEF l
<1>1. /\ Len(line) \in Nat /\ Len(l) = Len(line) + 1
      /\ \A i \in 1 .. Len(line) : l[i] = line[i]
      /\ l[Len(line) + 1] = x
  BY Appended DEF l
<1>2. \A i \in 1 .. Len(l) : Useful(l[i]) => i \in 1 .. Len(line) /\ l[i] = line[i]
  BY <1>1
<1>3. ASSUME NEW k \in 0 .. Len(line), NEW b, CarriedBy(line, k, b)
      PROVE  CarriedBy(l, k, b)
  BY <1>1, <1>3 DEF CarriedBy
<1>4. Inside(l, n, top) /\ Monotone(l)
  <2>1. Inside(line, n, top) /\ Monotone(line)
    BY DEF Continues
  <2>2. Inside(l, n, top)
    BY <1>2, <2>1 DEF Inside
  <2>3. Monotone(l)
    BY <1>2, <2>1 DEF Monotone
  <2>4. QED BY <2>2, <2>3
<1>5. Gapless(l, n)
  <2> SUFFICES ASSUME NEW i \in 1 .. Len(l), Useful(l[i]),
                      NEW b \in n + 1 .. Stage(l[i]) - 1
               PROVE  CarriedBy(l, i - 1, b)
    BY DEF Gapless
  <2>1. i \in 1 .. Len(line) /\ CarriedBy(line, i - 1, b)
    BY <1>2 DEF Continues, Gapless
  <2>2. i - 1 \in 0 .. Len(line)
    BY <1>1, <2>1
  <2>3. QED BY <1>3, <2>1, <2>2
<1>6. \A b : CarriedBy(line, Len(line), b) => CarriedBy(l, Len(l), b)
  BY <1>1 DEF CarriedBy
<1>7. QED BY <1>4, <1>5, <1>6 DEF Continues, Covered, l

LEMMA LineAppend ==
  ASSUME NEW S, NEW line \in Seq(S), NEW x, NEW crc, NEW t
  PROVE  /\ /\ Clean(line, crc) /\ x.t # "bad" /\ (x.t = "pkt" => x.crc = crc)
            /\ Without(line, "CAN") \/ ~Useful(x)
            => Clean(Append(line, x), crc)
         /\ Without(line, t) /\ x.t # t => Without(Append(line, x), t)
<1> DEFINE l == Append(line, x)
<1> HIDE DEF l
<1>1. /\ Len(line) \in Nat /\ Len(l) = Len(line) + 1
      /\ \A i \in 1 .. Len(line) : l[i] = line[i]
      /\ l[Len(line) + 1] = x
  BY Appended DEF l
<1>2. \A i \in 1 .. Len(l) : i \in 1 .. Len(line) \/ i = Len(line) + 1
  BY <1>1
<1>3. Without(line, t) /\ x.t # t => Without(l, t)
  BY <1>1, <1>2 DEF Without
<1>4. ASSUME Clean(line, crc), x.t # "bad", x.t = "pkt" => x.crc = crc,
             Without(line, "CAN") \/ ~Useful(x)
      PROVE  Clean(l, crc)
  <2>1. \A i \in 1 .. Len(l) : /\ l[i].t # "bad"
                               /\ l[i].t = "pkt" => l[i].crc = crc
    BY <1>1, <1>2, <1>4 DEF Clean
  <2>2. ASSUME NEW i \in 1 .. Len(l), NEW j \in 1 .. Len(l), i < j, l[i].t = "CAN"
        PROVE  ~Useful(l[j])
    <3>1. i \in 1 .. Len(line) /\ line[i].t = "CAN"
      BY <1>1, <2>2
    <3>2. CASE j \in 1 .. Len(line)
      BY <1>1, <1>4, <2>2, <3>1, <3>2 DEF Clean
    <3>3. CASE j = Len(line) + 1
      BY <1>1, <1>4, <3>1, <3>3 DEF Without
    <3>4. QED BY <1>2, <3>2, <3>3
  <2>3. QED BY <2>1, <2>2 DEF Clean
<1>5. QED BY <1>3, <1>4 DEF l

LEMMA LineTail ==
  ASSUME NEW S, NEW line \in Seq(S), line # << >>, NEW crc, NEW t
  PROVE  /\ Clean(line, crc) => Clean(Tail(line), crc)
         /\ Without(line, t) => Without(Tail(line), t)
         /\ Clean(line, crc) /\ Head(line).t = "CAN" =>
              \A i \in 1 .. Len(Tail(line)) : ~Useful(Tail(line)[i])
<1> DEFINE l == Tail(line)
<1> HIDE DEF l
<1>1. /\ Len(line) \in Nat \ {0} /\ Len(l) = Len(line) - 1
      /\ \A i \in 1 .. Len(l) : /\ l[i] = line[i + 1]
                                /\ i + 1 \in 1 .. Len(line) /\ 1 < i + 1
      /\ Head(line) = line[1] /\ 1 \in 1 .. Len(line)
  BY Tailed DEF l
<1>2. Without(line, t) => Without(l, t)
  BY <1>1 DEF Without
<1>3. ASSUME Clean(line, crc) PROVE Clean(l, crc)
  <2>1. \A i \in 1 .. Len(l) : /\ l[i].t # "bad"
                               /\ l[i].t = "pkt" => l[i].crc = crc
    BY <1>1, <1>3 DEF Clean
  <2>2. ASSUME NEW i \in 1 .. Len(l), NEW j \in 1 .. Len(l), i < j, l[i].t = "CAN"
        PROVE  ~Useful(l[j])
    <3>1. /\ l[i] = line[i + 1] /\ i + 1 \in 1 .. Len(line)
          /\ l[j] = line[j + 1] /\ j + 1 \in 1 .. Len(line) /\ i + 1 < j + 1
      BY <1>1, <2>2
    <3>2. QED BY <1>3, <2>2, <3>1 DEF Clean
  <2>3. QED BY <2>1, <2>2 DEF Clean
<1>4. Clean(line, crc) /\ Head(line).t = "CAN" =>
        \A i \in 1 .. Len(l) : ~Useful(l[i])
  BY <1>1 DEF Clean
<1>5. QED BY <1>2, <1>3, <1>4 DEF l

\* Nothing useful waits in the line, and nothing is answered for.
LEMMA ContinuesEmpty ==
  ASSUME NEW line, NEW n \in Nat, NEW top \in Nat, NEW c \in Nat, n <= top, c <= n,
         \A i \in 1 .. Len(line) : ~Useful(line[i])
  PROVE  Continues(line, n, top, c)
<1>1. Inside(line, n, top) /\ Monotone(line) /\ Gapless(line, n)
  BY DEF Inside, Monotone, Gapless
<1>2. Covered(line, n, c)
  BY DEF Covered
<1>3. QED BY <1>1, <1>2 DEF Continues

LEMMA Controls ==
  /\ \A c \in {"C", "NAK", "ACK", "CAN", "EOT", "bad"} : Ctl(c).t = c
  /\ \A no, crc, b : LET p == Packet(no, crc, b) IN
       p.t = "pkt" /\ p.crc = crc /\ p.block = b /\ Useful(p) /\ Stage(p) = b
  /\ Useful(Ctl("EOT")) /\ Stage(Ctl("EOT")) = Blocks + 1
  /\ ~Useful(Ctl("CAN")) /\ ~Useful(Ctl("ACK"))
  BY DEF Ctl, Packet, Useful, Stage
-----------------------------------------------------------------------------
(* The transmitter keeps the flow.                                          *)

RxWaits == rx_pc = "wait" /\ UNCHANGED <<rx_pc, trychar, rx_crc, dest>>

LEMMA FlowTypes ==
  ASSUME XmodemAssumption, Inv
  PROVE  /\ to_rx \in Seq(Good(tx_len)) /\ to_tx \in Seq(ToTx)
         /\ Blocks \in Nat \ {0} /\ tx_len \in 0 .. Blocks
         /\ Len(dest) \in Nat /\ Sent \in Nat /\ Sent <= tx_len + 1
         /\ tx_pc \in {"sync", "data"} => tx_len < Blocks
         /\ tx_pc = "eot" => tx_len = Blocks
<1>1. tx_len \in 0 .. Blocks /\ Blocks \in Nat \ {0}
  BY DEF XmodemAssumption, Inv, TxInv
<1>2. Len(dest) \in Nat
  BY DEF Inv, RxInv, Received
<1>3. Sent \in Nat /\ Sent <= tx_len + 1
  BY <1>1 DEF Sent
<1>4. QED BY <1>1, <1>2, <1>3 DEF Inv, TxInv

LEMMA GiveUpFlows ==
  ASSUME XmodemAssumption, Inv, Flowing, RxWaits, tx_pc \in {"sync", "data"},
         NEW result, TxGiveUp(result)
  PROVE  Flowing'
<1> DEFINE S == Good(tx_len)
           l1 == Append(to_rx, Ctl("CAN"))
           l2 == Append(l1, Ctl("CAN"))
           l3 == Append(l2, Ctl("CAN"))
           n == Len(dest)
           top == tx_len + 1
<1>1. /\ to_rx \in Seq(S) /\ n \in Nat /\ top \in Nat /\ 0 \in Nat /\ Sent \in Nat
      /\ Ctl("CAN") \in S
  BY FlowTypes, GoodMessages
<1>2. l1 \in Seq(S) /\ l2 \in Seq(S) /\ l3 \in Seq(S)
  BY <1>1, AppendOf
<1>3. to_rx' = l3
  <2>1. \A a, s : s \in Seq(S) /\ a \in S =>
          s \o <<a, a, a>> = Append(Append(Append(s, a), a), a)
    OBVIOUS
  <2>2. QED BY <1>1, <2>1 DEF TxGiveUp, Cancel
<1> HIDE DEF l1, l2, l3
<1>4. /\ tx_pc' = "done" /\ tx_len' = tx_len /\ tx_crc' = tx_crc /\ CrcNow' = CrcNow
      /\ to_tx' = << >> /\ Sent' = 0
  BY DEF TxGiveUp, RxWaits, CrcNow, Sent
<1>5. /\ Ctl("CAN").t # "EOT" /\ Ctl("CAN").t # "bad" /\ Ctl("CAN").t # "pkt"
      /\ ~Useful(Ctl("CAN"))
  BY Controls
<1>6. Clean(to_rx', tx_crc')
  <2>1. Clean(to_rx, tx_crc)
    BY DEF Flowing
  <2>2. Clean(l1, tx_crc)
    BY <1>1, <1>5, <2>1, LineAppend DEF l1
  <2>3. Clean(l2, tx_crc)
    BY <1>2, <1>5, <2>2, LineAppend DEF l2
  <2>4. Clean(l3, tx_crc)
    BY <1>2, <1>5, <2>3, LineAppend DEF l3
  <2>5. QED BY <1>3, <1>4, <2>4
<1>7. Without(to_rx, "EOT") => Without(to_rx', "EOT")
  <2>1. Without(to_rx, "EOT") => Without(l1, "EOT")
    BY <1>1, <1>5, LineAppend DEF l1
  <2>2. Without(l1, "EOT") => Without(l2, "EOT")
    BY <1>2, <1>5, LineAppend DEF l2
  <2>3. Without(l2, "EOT") => Without(l3, "EOT")
    BY <1>2, <1>5, LineAppend DEF l3
  <2>4. QED BY <1>3, <2>1, <2>2, <2>3
<1>8. Stalled => Stalled'
  BY <1>4, <1>7 DEF Stalled, Without
<1>9. Continues(to_rx, n, top, Sent) => Continues(to_rx', n, top, 0)
  <2>1. ASSUME Continues(to_rx, n, top, Sent) PROVE Continues(to_rx, n, top, 0)
    BY <1>1, <2>1 DEF Continues, Covered
  <2>2. Continues(to_rx, n, top, 0) => Continues(l1, n, top, 0)
    BY <1>1, <1>5, ContinuesUseless DEF l1
  <2>3. Continues(l1, n, top, 0) => Continues(l2, n, top, 0)
    BY <1>1, <1>2, <1>5, ContinuesUseless DEF l2
  <2>4. Continues(l2, n, top, 0) => Continues(l3, n, top, 0)
    BY <1>1, <1>2, <1>5, ContinuesUseless DEF l3
  <2>5. QED BY <1>3, <2>1, <2>2, <2>3, <2>4
<1>10. trychar' = trychar /\ dest' = dest
  BY DEF RxWaits
<1>11. QED BY <1>4, <1>6, <1>8, <1>9, <1>10 DEF Flowing, Starting

\* The packet in hand, once more or for the first time.
LEMMA SendFlows ==
  ASSUME XmodemAssumption, Inv, Flowing, RxWaits, tx_pc \in {"data", "eot"},
         tx_pc' = tx_pc, tx_len' = tx_len, tx_crc' = tx_crc,
         Without(to_tx, "ACK") => Without(to_tx', "ACK"),
         NEW x, x \in {Packet(tx_no, tx_crc, tx_len + 1), Ctl("EOT")},
         x = Ctl("EOT") <=> tx_pc = "eot",
         to_rx' = Append(to_rx, x)
  PROVE  Flowing'
<1> DEFINE n == Len(dest)
           top == tx_len + 1
<1>1. /\ to_rx \in Seq(Good(tx_len)) /\ n \in Nat /\ top \in Nat /\ Sent \in Nat
      /\ tx_pc = "eot" => tx_len = Blocks
  BY FlowTypes
<1>2. /\ CrcNow' = CrcNow /\ Sent' = Sent /\ trychar' = trychar /\ dest' = dest
  BY DEF RxWaits, CrcNow, Sent
<1>3. /\ Useful(x) /\ Stage(x) = top /\ x.t # "bad" /\ x.t # "CAN"
      /\ x.t = "pkt" => x.crc = tx_crc
      /\ tx_pc = "data" => x.t = "pkt"
      /\ tx_pc # "eot" => x.t # "EOT"
  BY <1>1, Controls
<1>4. Clean(to_rx', tx_crc') /\ Without(to_rx', "CAN")
  <2>1. Clean(to_rx, tx_crc) /\ Without(to_rx, "CAN")
    BY DEF Flowing
  <2>2. QED BY <1>1, <1>3, <2>1, LineAppend
<1>5. Stalled => Stalled'
  <2>1. ASSUME Stalled PROVE Without(to_rx', "EOT")
    BY <1>1, <1>3, <2>1, LineAppend DEF Stalled
  <2>2. QED BY <2>1 DEF Stalled
<1>6. ASSUME Continues(to_rx, n, top, Sent) PROVE Continues(to_rx', n, top, Sent)
  <2>1. Stage(x) \in Nat /\ top <= Stage(x) /\ Stage(x) <= Sent + 1
    BY <1>1, <1>3 DEF Sent
  <2>2. Continues(to_rx', n, Stage(x), Sent)
    BY <1>1, <1>3, <1>6, <2>1, ContinuesAppend
  <2>3. QED BY <1>3, <2>2
<1>7. QED BY <1>2, <1>4, <1>5, <1>6 DEF Flowing, Starting

LEMMA StartFlows ==
  ASSUME XmodemAssumption, Inv, Flowing, RxWaits, TxStart
  PROVE  Flowing'
<1> DEFINE x == Packet(tx_no, tx_crc', tx_len + 1)
           e == << >>
<1>1. /\ to_rx = e /\ trychar # "silent" /\ tx_len = 0 /\ dest = << >>
      /\ to_tx \in Seq(ToTx) /\ e \in Seq(Good(tx_len))
      /\ Without(to_tx, "ACK")
  BY FlowTypes, EmptyOf DEF TxStart, Flowing, Starting, Stalled
<1>2. /\ to_rx' = Append(e, x) /\ to_tx # << >> /\ to_tx' = Tail(to_tx)
      /\ tx_pc' = "data" /\ tx_len' = 0 /\ Sent' = 1
      /\ trychar' = trychar /\ dest' = dest
  BY <1>1 DEF TxStart, Hears, RxWaits, Sent
<1>3. x.t = "pkt" /\ x.crc = tx_crc' /\ Useful(x) /\ Stage(x) = 1
  BY <1>1, Controls
<1>4. Without(to_tx', "ACK")
  BY <1>1, <1>2, LineTail
<1>5. Clean(e, tx_crc') /\ Without(e, "CAN") /\ Without(e, "EOT")
  BY DEF Clean, Without
<1>6. Clean(to_rx', tx_crc') /\ Without(to_rx', "CAN") /\ Without(to_rx', "EOT")
  BY <1>1, <1>2, <1>3, <1>5, LineAppend
<1>7. Continues(to_rx', 0, 1, 1)
  <2>1. Continues(e, 0, 0, 0)
    BY ContinuesEmpty
  <2>2. 0 \in Nat /\ Stage(x) \in Nat /\ 0 <= Stage(x) /\ Stage(x) <= 0 + 1
    BY <1>3
  <2>3. Continues(Append(e, x), 0, Stage(x), Stage(x))
    BY <1>1, <1>3, <2>1, <2>2, ContinuesAppend
  <2>4. QED BY <1>2, <1>3, <2>3
<1>8. Len(dest') = 0 /\ tx_len' + 1 = 1
  BY <1>1, <1>2
<1>9. QED BY <1>2, <1>4, <1>6, <1>7, <1>8 DEF Flowing, Starting, Stalled

LEMMA AckedFlows ==
  ASSUME XmodemAssumption, Inv, Flowing, RxWaits, TxAcked
  PROVE  Flowing'
<1> DEFINE x == IF More(tx_len') THEN Packet(tx_no', tx_crc, tx_len' + 1) ELSE Ctl("EOT")
           n == Len(dest)
           top == tx_len + 1
<1>1. /\ to_rx \in Seq(Good(tx_len)) /\ to_tx \in Seq(ToTx)
      /\ n \in Nat /\ top \in Nat /\ Sent = top
      /\ Blocks \in Nat /\ tx_len \in Nat /\ tx_len < Blocks
  BY FlowTypes DEF TxAcked, Sent
<1>2. /\ to_tx # << >> /\ Head(to_tx).t = "ACK" /\ to_tx' = Tail(to_tx)
      /\ tx_len' = top /\ tx_crc' = tx_crc /\ to_rx' = Append(to_rx, x)
      /\ tx_pc' = IF top < Blocks THEN "data" ELSE "eot"
      /\ trychar' = trychar /\ dest' = dest /\ CrcNow' = CrcNow
  BY DEF TxAcked, Hears, RxWaits, CrcNow, More
\* An acknowledgement was given: both ends agree on the check.
<1>3. trychar = "silent" /\ CrcNow = tx_crc /\ Continues(to_rx, n, top, top)
  <2>1. ~Without(to_tx, "ACK")
    <3>1. 1 \in 1 .. Len(to_tx) /\ Head(to_tx) = to_tx[1]
      BY <1>1, <1>2, Tailed
    <3>2. QED BY <1>2, <3>1 DEF Without
  <2>2. QED BY <1>1, <2>1 DEF Flowing, Stalled
<1>4. /\ Useful(x) /\ Stage(x) = top + 1 /\ x.t \notin {"bad", "CAN"}
      /\ x.t = "pkt" => x.crc = tx_crc
      /\ top < Blocks => x.t = "pkt"
  <2>1. CASE top < Blocks
    BY <1>2, <2>1, Controls DEF More
  <2>2. CASE top = Blocks
    BY <1>1, <1>2, <2>2, Controls DEF More
  <2>3. QED BY <1>1, <2>1, <2>2
<1>5. Clean(to_rx', tx_crc') /\ Without(to_rx', "CAN")
  <2>1. Clean(to_rx, tx_crc) /\ Without(to_rx, "CAN")
    BY DEF Flowing, TxAcked
  <2>2. QED BY <1>1, <1>2, <1>4, <2>1, LineAppend
<1>6. /\ Continues(to_rx', n, top + 1, top)
      /\ top < Blocks => Continues(to_rx', n, top + 1, top + 1)
  <2>1. Stage(x) \in Nat /\ top <= Stage(x) /\ Stage(x) <= top + 1
    BY <1>1, <1>4
  <2>2. /\ Continues(to_rx', n, Stage(x), top)
        /\ x.t = "pkt" => Continues(to_rx', n, Stage(x), Stage(x))
    BY <1>1, <1>2, <1>3, <1>4, <2>1, ContinuesAppend
  <2>3. QED BY <1>4, <2>2
<1>7. Sent' = IF top < Blocks THEN top + 1 ELSE top
  BY <1>1, <1>2 DEF Sent
<1>8. tx_pc' # "sync" /\ tx_pc' # "done"
  BY <1>2
<1>9. Continues(to_rx', Len(dest'), tx_len' + 1, Sent')
  BY <1>2, <1>6, <1>7
<1>10. QED BY <1>2, <1>3, <1>5, <1>8, <1>9 DEF Flowing, Starting

\* What a fruitless wait leaves in the line.
LEMMA FruitlessKeeps ==
  ASSUME NEW S, NEW s \in Seq(S), NEW useful, NEW k \in 0 .. 2,
         Fruitless(s, useful, k), NEW c
  PROVE  Without(s, c) => Without(After(s, k), c)
<1>1. CASE k = 0
  BY <1>1, AfterIs
<1>2. CASE k = 1
  <2>1. s # << >> /\ After(s, k) = Tail(s)
    BY <1>2, AfterIs DEF Fruitless
  <2>2. QED BY <2>1, LineTail
<1>3. CASE k = 2
  <2>1. Len(s) >= 2 /\ After(s, k) = Tail(Tail(s))
    BY <1>3, AfterIs DEF Fruitless
  <2>2. s # << >> /\ Tail(s) # << >> /\ Tail(s) \in Seq(S)
    BY <2>1, SMTT(40)
  <2>3. QED BY <2>1, <2>2, LineTail
<1>4. QED BY <1>1, <1>2, <1>3

LEMMA FlowTx ==
  ASSUME XmodemAssumption, Inv, Flowing, RxWaits,
         TxStart \/ TxNoPrompt \/ TxAcked \/ TxResend \/ TxCancel \/ TxEnd
           \/ TxEotAgain
  PROVE  Flowing'
<1>0. /\ to_rx \in Seq(Good(tx_len)) /\ to_tx \in Seq(ToTx) /\ Len(dest) \in Nat
      /\ Sent \in Nat /\ tx_len + 1 \in Nat /\ Blocks \in Nat \ {0}
  BY FlowTypes
<1>1. CASE TxStart
  BY <1>1, StartFlows
<1>2. CASE TxNoPrompt
  <2>1. PICK k \in 0 .. 2 :
          /\ Fruitless(to_tx, {"C", "NAK"}, k)
          /\ IF tx_retry + 1 < SyncTries
             THEN /\ tx_retry' = tx_retry + 1
                  /\ to_tx' = After(to_tx, k)
                  /\ UNCHANGED <<to_rx, tx_pc, tx_no, tx_len, tx_crc, tx_result>>
             ELSE TxGiveUp("no_sync")
    BY <1>2 DEF TxNoPrompt
  <2>2. CASE tx_retry + 1 < SyncTries
    <3>1. /\ UNCHANGED <<to_rx, tx_pc, tx_len, tx_crc, trychar, dest>>
          /\ to_tx' = After(to_tx, k)
          /\ CrcNow' = CrcNow /\ Sent' = Sent
      BY <2>1, <2>2 DEF RxWaits, CrcNow, Sent
    <3>2. Without(to_tx, "ACK") => Without(to_tx', "ACK")
      BY <1>0, <2>1, <3>1, FruitlessKeeps
    <3>3. Stalled => Stalled'
      BY <3>1, <3>2 DEF Stalled
    <3>4. QED BY <3>1, <3>3 DEF Flowing, Starting
  <2>3. QED BY <1>2, <2>1, <2>2, GiveUpFlows DEF TxNoPrompt
<1>3. CASE TxAcked
  BY <1>3, AckedFlows
<1>4. CASE TxResend
  <2>1. PICK k \in 0 .. 2 :
          /\ Fruitless(to_tx, {"ACK"}, k)
          /\ IF tx_retry + 1 < MaxRetrans
             THEN /\ tx_retry' = tx_retry + 1
                  /\ to_tx' = After(to_tx, k)
                  /\ to_rx' = Append(to_rx, Packet(tx_no, tx_crc, tx_len + 1))
                  /\ UNCHANGED <<tx_pc, tx_no, tx_len, tx_crc, tx_result>>
             ELSE TxGiveUp("xmit_error")
    BY <1>4 DEF TxResend
  <2>2. CASE tx_retry + 1 < MaxRetrans
    <3>1. Without(to_tx, "ACK") => Without(to_tx', "ACK")
      BY <1>0, <2>1, <2>2, FruitlessKeeps
    <3>2. Packet(tx_no, tx_crc, tx_len + 1) # Ctl("EOT")
      BY Controls
    <3>3. QED BY <1>4, <2>1, <2>2, <3>1, <3>2, SendFlows DEF TxResend
  <2>3. QED BY <1>4, <2>1, <2>2, GiveUpFlows DEF TxResend
<1>5. CASE TxCancel
  <2>1. /\ to_rx' = Append(to_rx, Ctl("ACK")) /\ to_tx' = << >> /\ tx_pc' = "done"
        /\ UNCHANGED <<tx_len, tx_crc, trychar, dest>>
        /\ CrcNow' = CrcNow /\ Sent' = 0
    BY <1>5 DEF TxCancel, RxWaits, CrcNow, Sent
  <2>2. ~Useful(Ctl("ACK")) /\ Ctl("ACK").t = "ACK"
    BY Controls
  <2>3. Clean(to_rx', tx_crc')
    BY <1>0, <2>1, <2>2, LineAppend DEF Flowing
  <2>4. Stalled => Stalled'
    BY <1>0, <2>1, <2>2, LineAppend DEF Stalled, Without
  <2>5. Continues(to_rx, Len(dest), tx_len + 1, Sent) => Continues(to_rx', Len(dest), tx_len + 1, 0)
    <3>1. ASSUME Continues(to_rx, Len(dest), tx_len + 1, Sent)
          PROVE  Continues(to_rx, Len(dest), tx_len + 1, 0)
      BY <1>0, <3>1 DEF Continues, Covered
    <3>2. QED BY <1>0, <2>1, <2>2, <3>1, ContinuesUseless
  <2>6. QED BY <2>1, <2>3, <2>4, <2>5 DEF Flowing, Starting
<1>6. CASE TxEnd
  <2>1. /\ to_tx' = << >> /\ tx_pc' = "done"
        /\ UNCHANGED <<to_rx, tx_len, tx_crc, trychar, dest>>
        /\ CrcNow' = CrcNow /\ Sent' = 0
    BY <1>6 DEF TxEnd, RxWaits, CrcNow, Sent
  <2>2. Stalled => Stalled'
    BY <2>1 DEF Stalled, Without
  <2>3. Continues(to_rx, Len(dest), tx_len + 1, Sent) => Continues(to_rx, Len(dest), tx_len + 1, 0)
    BY <1>0 DEF Continues, Covered
  <2>4. QED BY <2>1, <2>2, <2>3 DEF Flowing, Starting
<1>7. CASE TxEotAgain
  <2>1. PICK k \in 0 .. 1 :
          /\ Fruitless(to_tx, {"ACK"}, k)
          /\ IF tx_retry + 1 < EotTries
             THEN /\ tx_retry' = tx_retry + 1
                  /\ to_tx' = After(to_tx, k)
                  /\ to_rx' = Append(to_rx, Ctl("EOT"))
                  /\ UNCHANGED <<tx_pc, tx_result>>
             ELSE /\ tx_pc' = "done" /\ tx_result' = "no_ack"
                  /\ to_tx' = << >>
                  /\ UNCHANGED <<to_rx, tx_retry>>
    BY <1>7 DEF TxEotAgain
  <2>2. tx_pc = "eot" /\ UNCHANGED <<tx_no, tx_len, tx_crc>> /\ k \in 0 .. 2
    BY <1>7 DEF TxEotAgain
  <2>3. CASE tx_retry + 1 < EotTries
    <3>1. Without(to_tx, "ACK") => Without(to_tx', "ACK")
      BY <1>0, <2>1, <2>2, <2>3, FruitlessKeeps
    <3>2. QED BY <2>1, <2>2, <2>3, <3>1, SendFlows
  <2>4. CASE ~(tx_retry + 1 < EotTries)
    <3>1. /\ to_tx' = << >> /\ tx_pc' = "done"
          /\ UNCHANGED <<to_rx, tx_len, tx_crc, trychar, dest>>
          /\ CrcNow' = CrcNow /\ Sent' = 0
      BY <2>1, <2>2, <2>4 DEF RxWaits, CrcNow, Sent
    <3>2. Stalled => Stalled'
      BY <3>1 DEF Stalled, Without
    <3>3. Continues(to_rx, Len(dest), tx_len + 1, Sent) => Continues(to_rx, Len(dest), tx_len + 1, 0)
      BY <1>0 DEF Continues, Covered
    <3>4. QED BY <3>1, <3>2, <3>3 DEF Flowing, Starting
  <2>5. QED BY <2>3, <2>4
<1>8. QED BY <1>1, <1>2, <1>3, <1>4, <1>5, <1>6, <1>7
-----------------------------------------------------------------------------
(* The receiver keeps the flow.                                             *)

TxWaits == UNCHANGED <<tx_pc, tx_len, tx_crc>>

\* The packet numbers the receiver expects and sees, while they do not wrap.
LEMMA ExpectedNumber ==
  ASSUME XmodemAssumption, NoWrap, Inv, Incomplete
  PROVE  /\ rx_no = Len(dest) + 1
         /\ to_rx # << >> /\ Head(to_rx).t = "pkt" =>
              /\ Head(to_rx).block \in Nat /\ Head(to_rx).no = Head(to_rx).block
<1>1. /\ SeqSpan \in Nat \ {0} /\ Blocks \in Nat /\ Blocks < SeqSpan
  BY DEF XmodemAssumption, NoWrap
<1>2. Len(dest) \in Nat /\ rx_no = (Len(dest) + 1) % SeqSpan
      /\ Len(dest) + 1 <= Blocks
  BY DEF Incomplete, Inv, RxInv, Received, XmodemAssumption
<1>3. rx_no = Len(dest) + 1
  <2>1. Len(dest) + 1 \in 0 .. SeqSpan /\ Len(dest) + 1 # SeqSpan
    BY <1>1, <1>2
  <2>2. QED BY <1>1, <1>2, <2>1, RemainderSmall
<1>4. ASSUME to_rx # << >>, Head(to_rx).t = "pkt"
      PROVE  Head(to_rx).block \in Nat /\ Head(to_rx).no = Head(to_rx).block
  <2>1. Head(to_rx) \in Good(tx_len)
    BY <1>4, TailOf DEF Inv
  <2>2. /\ Head(to_rx).block \in 1 .. Blocks
        /\ Head(to_rx).no = Head(to_rx).block % SeqSpan
    BY <1>4, <2>1, GoodContents
  <2>3. Head(to_rx).block \in 0 .. SeqSpan /\ Head(to_rx).block # SeqSpan
    BY <1>1, <2>2
  <2>4. QED BY <1>1, <2>2, <2>3, RemainderSmall
<1>5. QED BY <1>3, <1>4

\* A useful message at the head is the block the receiver has, or the next.
LEMMA HeadStage ==
  ASSUME NEW S, NEW line \in Seq(S), line # << >>,
         NEW n \in Nat, NEW top \in Nat, NEW c \in Nat,
         Continues(line, n, top, c), Useful(Head(line))
  PROVE  Stage(Head(line)) \in {n, n + 1}
<1>1. 1 \in 1 .. Len(line) /\ Head(line) = line[1]
  BY Tailed
<1>2. Stage(line[1]) \in n .. top
  BY <1>1 DEF Continues, Inside
<1>3. CASE Stage(line[1]) > n + 1
  <2>1. n + 1 \in n + 1 .. Stage(line[1]) - 1
    BY <1>2, <1>3
  <2>2. CarriedBy(line, 1 - 1, n + 1)
    BY <1>1, <2>1 DEF Continues, Gapless
  <2>3. QED BY <2>2 DEF CarriedBy
<1>4. QED BY <1>1, <1>2, <1>3

\* A wait that brings nothing useful.
LEMMA NoHeaderFlows ==
  ASSUME XmodemAssumption, Inv, Flowing, TxWaits, dest' = dest,
         trychar' \in {"C", "NAK", "silent"}, rx_crc' = rx_crc,
         trychar' = "silent" <=> trychar = "silent",
         NEW k \in 0 .. 2, Fruitless(to_rx, {"pkt", "bad", "EOT"}, k),
         to_rx' = After(to_rx, k),
         Without(to_tx, "ACK") => Without(to_tx', "ACK")
  PROVE  Flowing'
<1> DEFINE n == Len(dest)
           top == tx_len + 1
<1>1. /\ to_rx \in Seq(Good(tx_len)) /\ n \in Nat /\ top \in Nat /\ Sent \in Nat
  BY FlowTypes
<1>2. /\ Sent' = Sent /\ tx_pc' = tx_pc /\ tx_len' = tx_len /\ tx_crc' = tx_crc
      /\ trychar = "silent" => CrcNow' = CrcNow
  BY DEF TxWaits, Sent, CrcNow
<1>3. Stalled => Stalled'
  BY <1>1, <1>2, FruitlessKeeps DEF Stalled
<1>4. Without(to_rx, "CAN") => Without(to_rx', "CAN")
  BY <1>1, FruitlessKeeps
<1>5. Clean(to_rx, tx_crc)
  BY DEF Flowing
<1>6. Clean(to_rx', tx_crc) /\ (Continues(to_rx, n, top, Sent) => Continues(to_rx', n, top, Sent))
  <2>1. CASE k = 0
    BY <1>1, <1>5, <2>1, AfterIs
  <2>2. CASE k = 1
    <3>1. to_rx # << >> /\ to_rx' = Tail(to_rx) /\ ~Useful(Head(to_rx))
      BY <1>1, <2>2, AfterIs DEF Fruitless, Useful
    <3>2. Clean(to_rx', tx_crc)
      BY <1>1, <1>5, <3>1, LineTail
    <3>3. Continues(to_rx, n, top, Sent) => Continues(to_rx', n, top, Sent)
      BY <1>1, <3>1, ContinuesTail
    <3>4. QED BY <3>2, <3>3
  <2>3. CASE k = 2
    <3>1. /\ Len(to_rx) >= 2 /\ to_rx' = Tail(Tail(to_rx)) /\ to_rx # << >>
          /\ Head(to_rx).t = "CAN"
      BY <1>1, <2>3, AfterIs, SMTT(40) DEF Fruitless, Hears
    <3>2. Tail(to_rx) # << >> /\ Tail(to_rx) \in Seq(Good(tx_len))
      BY <1>1, <3>1, AfterIs
    <3>3. Clean(Tail(to_rx), tx_crc) /\ Clean(to_rx', tx_crc)
      BY <1>1, <1>5, <3>1, <3>2, LineTail
    <3>4. \A i \in 1 .. Len(Tail(to_rx)) : ~Useful(Tail(to_rx)[i])
      BY <1>1, <1>5, <3>1, LineTail
    <3>5. \A i \in 1 .. Len(to_rx') : ~Useful(to_rx'[i])
      <4> DEFINE s == Tail(to_rx)
      <4>1. /\ Len(s) \in Nat \ {0} /\ Len(to_rx') = Len(s) - 1
            /\ \A i \in 1 .. Len(s) - 1 : to_rx'[i] = s[i + 1]
        BY <3>1, <3>2, Tailed
      <4>2. \A i \in 1 .. Len(s) : ~Useful(s[i])
        BY <3>4
      <4> HIDE DEF s
      <4>3. \A i \in 1 .. Len(to_rx') : i \in 1 .. Len(s) - 1 /\ i + 1 \in 1 .. Len(s)
        BY <4>1
      <4>4. QED BY <4>1, <4>2, <4>3
    <3>6. tx_pc = "done"
      <4>1. ~Without(to_rx, "CAN")
        <5>1. 1 \in 1 .. Len(to_rx) /\ Head(to_rx) = to_rx[1]
          BY <1>1, <3>1, Tailed
        <5>2. QED BY <3>1, <5>1 DEF Without
      <4>2. QED BY <4>1 DEF Flowing
    <3>7. Continues(to_rx, n, top, Sent) => Continues(to_rx', n, top, Sent)
      <4>1. Sent = 0
        BY <3>6 DEF Sent
      <4>2. ASSUME n <= top PROVE Continues(to_rx', n, top, 0)
        <5> DEFINE l == to_rx'
        <5>1. \A i \in 1 .. Len(l) : ~Useful(l[i])
          BY <3>5
        <5>2. 0 \in Nat /\ 0 <= n
          BY <1>1
        <5> HIDE DEF l, n, top
        <5>3. Continues(l, n, top, 0)
          BY <1>1, <4>2, <5>1, <5>2, ContinuesEmpty
        <5>4. QED BY <5>3 DEF l
      <4>3. QED BY <4>1, <4>2 DEF Continues
    <3>8. QED BY <3>3, <3>7
  <2>4. QED BY <2>1, <2>2, <2>3
<1>7. to_rx = << >> => to_rx' = << >>
  BY <1>1, AfterIs DEF Fruitless, Hears
<1>8. Starting'
  BY <1>2, <1>7 DEF Flowing, Starting
<1>9. QED BY <1>2, <1>3, <1>4, <1>6, <1>8 DEF Flowing

\* A packet taken from the head, new or a copy.
LEMMA PacketFlows ==
  ASSUME XmodemAssumption, Inv, Flowing, TxWaits,
         to_rx # << >>, PacketOK(Head(to_rx)), Stage(Head(to_rx)) = Len(dest'),
         Len(dest') \in Nat, Len(dest) <= Len(dest'),
         HeaderSeen, to_rx' = Tail(to_rx)
  PROVE  Flowing'
<1> DEFINE n == Len(dest)
           m == Len(dest')
           top == tx_len + 1
<1>1. /\ to_rx \in Seq(Good(tx_len)) /\ n \in Nat /\ top \in Nat /\ Sent \in Nat
      /\ m \in Nat /\ n <= m
  BY FlowTypes
<1>2. /\ Sent' = Sent /\ tx_pc' = tx_pc /\ tx_len' = tx_len /\ tx_crc' = tx_crc
      /\ trychar' = "silent" /\ CrcNow' = CrcNow
  BY DEF TxWaits, Sent, CrcNow, HeaderSeen
<1>3. Useful(Head(to_rx)) /\ Head(to_rx).t = "pkt" /\ Head(to_rx).crc = CrcNow
  BY DEF PacketOK, Useful
<1>4. Clean(to_rx, tx_crc)
  BY DEF Flowing
<1>5. CrcNow = tx_crc
  <2>1. 1 \in 1 .. Len(to_rx) /\ Head(to_rx) = to_rx[1]
    BY <1>1, Tailed
  <2>2. QED BY <1>3, <1>4, <2>1 DEF Clean
<1>6. Continues(to_rx, n, top, Sent)
  BY <1>5 DEF Flowing
<1>7. Continues(to_rx', m, top, Sent)
  <2>1. Stage(Head(to_rx)) = m
    OBVIOUS
  <2> HIDE DEF m, n, top
  <2>2. QED BY <1>1, <1>3, <1>6, <2>1, ContinuesTail
<1>8. Clean(to_rx', tx_crc)
  BY <1>1, <1>4, LineTail
<1>9. Without(to_rx, "CAN") => Without(to_rx', "CAN")
  BY <1>1, LineTail
<1>10. tx_pc # "sync"
  BY DEF Flowing, Starting
<1>11. QED BY <1>2, <1>5, <1>7, <1>8, <1>9, <1>10 DEF Flowing, Starting

LEMMA FlowRx ==
  ASSUME XmodemAssumption, NoWrap, Inv, InOrder, Incomplete, Incomplete', Flowing,
         rx_pc = "wait", rx_result # "ok", TxWaits,
         RxNoHeader \/ RxCancel \/ RxEot \/ RxAccept \/ RxCopy \/ RxReject
  PROVE  rx_result' # "ok" /\ (rx_pc' = "wait" => Flowing')
<1> DEFINE n == Len(dest)
           top == tx_len + 1
           p == Head(to_rx)
<1>0. /\ to_rx \in Seq(Good(tx_len)) /\ to_tx \in Seq(ToTx)
      /\ n \in Nat /\ top \in Nat /\ Sent \in Nat /\ Blocks \in Nat
      /\ n < Blocks /\ n < DestBlocks
  BY FlowTypes DEF Incomplete, XmodemAssumption
<1>1. CASE RxNoHeader
  <2>1. PICK k \in 0 .. 2 :
          /\ Fruitless(to_rx, {"pkt", "bad", "EOT"}, k)
          /\ \/ /\ ThisTry < SyncTries
                /\ rx_retry' = ThisTry
                /\ to_rx' = After(to_rx, k)
                /\ to_tx' = to_tx \o Prompt(trychar)
                /\ UNCHANGED <<rx_pc, rx_no, trychar, rx_crc, retrans,
                               rx_result, dest>>
             \/ /\ ThisTry = SyncTries /\ trychar = "C"
                /\ rx_retry' = 0 /\ trychar' = "NAK"
                /\ to_rx' = After(to_rx, k)
                /\ to_tx' = to_tx \o Prompt("NAK")
                /\ UNCHANGED <<rx_pc, rx_no, rx_crc, retrans, rx_result, dest>>
             \/ /\ ThisTry = SyncTries /\ trychar # "C"
                /\ RxReturns("sync_error", Cancel)
    BY <1>1 DEF RxNoHeader
  <2>2. trychar \in {"C", "NAK", "silent"}
    BY DEF Inv, RxInv, RxControl
  <2>3. ASSUME NEW c \in {"C", "NAK", "silent"}, to_tx' = to_tx \o Prompt(c)
        PROVE  Without(to_tx, "ACK") => Without(to_tx', "ACK")
    <3>1. CASE c = "silent"
      <4>1. to_tx' = to_tx
        BY <1>0, <2>3, <3>1 DEF Prompt
      <4>2. QED BY <4>1
    <3>2. CASE c # "silent"
      <4>1. Ctl(c) \in ToTx /\ Ctl(c).t # "ACK"
        BY <2>3, <3>2, Answers, Controls
      <4>2. to_tx' = Append(to_tx, Ctl(c))
        BY <1>0, <2>3, <3>2, <4>1 DEF Prompt
      <4>3. QED BY <1>0, <4>1, <4>2, LineAppend
    <3>3. QED BY <3>1, <3>2
  <2>4. CASE /\ to_rx' = After(to_rx, k)
             /\ to_tx' = to_tx \o Prompt(trychar)
             /\ UNCHANGED <<rx_pc, trychar, rx_crc, rx_result, dest>>
    BY <2>1, <2>2, <2>3, <2>4, NoHeaderFlows
  <2>5. CASE /\ trychar = "C" /\ trychar' = "NAK"
             /\ to_rx' = After(to_rx, k)
             /\ to_tx' = to_tx \o Prompt("NAK")
             /\ UNCHANGED <<rx_pc, rx_crc, rx_result, dest>>
    BY <2>1, <2>3, <2>5, NoHeaderFlows
  <2>6. CASE RxReturns("sync_error", Cancel)
    BY <2>6 DEF RxReturns
  <2>7. QED BY <2>1, <2>4, <2>5, <2>6
<1>2. CASE RxCancel
  BY <1>2 DEF RxCancel, RxReturns
\* An EOT at the head would mean that nothing is missing.
<1>3. CASE RxEot
  <2>1. to_rx # << >> /\ p.t = "EOT" /\ Useful(p) /\ Stage(p) = Blocks + 1
    BY <1>3 DEF RxEot, Hears, Useful, Stage
  <2>2. 1 \in 1 .. Len(to_rx) /\ p = to_rx[1]
    BY <1>0, <2>1, Tailed
  <2>3. ~Stalled
    BY <2>1, <2>2 DEF Stalled, Without
  <2>4. Continues(to_rx, n, top, Sent)
    BY <2>3 DEF Flowing
  <2>5. Stage(p) \in {n, n + 1}
    BY <1>0, <2>1, <2>4, HeadStage
  <2>6. QED BY <1>0, <2>1, <2>5
<1>4. CASE RxAccept
  <2>1. p.block = n + 1
    BY <1>0, <1>4, AcceptedBlock
  <2>2. /\ dest' = Append(dest, p.block) /\ dest \in Seq(1 .. Blocks)
        /\ rx_pc' = rx_pc /\ rx_result' = rx_result
        /\ to_rx # << >> /\ PacketOK(p) /\ p.t = "pkt" /\ HeaderSeen
        /\ to_rx' = Tail(to_rx)
    BY <1>0, <1>4 DEF RxAccept, PacketOK, Inv, RxInv, Received
  <2>3. Len(dest') = n + 1
    BY <2>2
  <2>4. Stage(p) = Len(dest')
    BY <2>1, <2>2, <2>3 DEF Stage
  <2>5. Len(dest') \in Nat /\ n <= Len(dest')
    BY <1>0, <2>3
  <2>6. Flowing'
    BY <2>2, <2>4, <2>5, PacketFlows
  <2>7. QED BY <2>2, <2>6
<1>5. CASE RxCopy
  <2>1. /\ to_rx # << >> /\ PacketOK(p) /\ p.no = rx_no - 1 /\ p.t = "pkt"
        /\ HeaderSeen /\ dest' = dest
    BY <1>5 DEF RxCopy, PacketOK, IsNew, IsCopy
  <2>2. Stage(p) = n
    BY <1>0, <2>1, ExpectedNumber DEF Stage
  <2>3. CASE retrans - 1 > 0
    <3>1. to_rx' = Tail(to_rx) /\ rx_pc' = rx_pc /\ rx_result' = rx_result
      BY <1>5, <2>3 DEF RxCopy
    <3>2. QED BY <1>0, <2>1, <2>2, <3>1, PacketFlows
  <2>4. CASE ~(retrans - 1 > 0)
    BY <1>5, <2>4 DEF RxCopy
  <2>5. QED BY <2>3, <2>4
\* Only a packet with the other kind of check is refused.
<1>6. CASE RxReject
  <2>1. /\ to_rx # << >> /\ ~PacketOK(p) /\ p.t \in {"pkt", "bad"}
        /\ HeaderSeen /\ dest' = dest /\ to_rx' = << >>
        /\ to_tx' = Append(to_tx, Ctl("NAK"))
        /\ rx_pc' = rx_pc /\ rx_result' = rx_result
    BY <1>6 DEF RxReject
  <2>2. p.t = "pkt" /\ p.crc = tx_crc
    <3>1. 1 \in 1 .. Len(to_rx) /\ p = to_rx[1]
      BY <1>0, <2>1, Tailed
    <3>2. QED BY <2>1, <3>1 DEF Flowing, Clean
  <2>3. CrcNow # tx_crc
    <3> SUFFICES ASSUME CrcNow = tx_crc PROVE FALSE
      OBVIOUS
    <3>1. Continues(to_rx, n, top, Sent)
      BY DEF Flowing
    <3>2. Stage(p) \in {n, n + 1} /\ Stage(p) = p.block
      BY <1>0, <2>1, <2>2, <3>1, HeadStage DEF Useful, Stage
    <3>3. rx_no = n + 1 /\ p.no = p.block
      BY <2>1, <2>2, ExpectedNumber
    <3>4. QED BY <1>0, <2>1, <2>2, <3>2, <3>3 DEF PacketOK, IsNew, IsCopy
  <2>4. Stalled
    BY <2>3 DEF Flowing
  <2>5. Stalled'
    <3>1. Ctl("NAK").t # "ACK"
      BY Controls
    <3>2. Without(to_tx', "ACK")
      BY <1>0, <2>1, <2>4, <3>1, LineAppend DEF Stalled
    <3>3. QED BY <2>1, <2>4, <3>2 DEF Stalled, Without, TxWaits
  <2>6. /\ CrcNow' # tx_crc' /\ trychar' = "silent" /\ tx_pc' = tx_pc
        /\ tx_pc # "sync"
    BY <2>1, <2>3 DEF HeaderSeen, CrcNow, TxWaits, Flowing, Starting
  <2>7. Clean(to_rx', tx_crc') /\ Without(to_rx', "CAN")
    BY <2>1 DEF Clean, Without
  <2>8. QED BY <2>1, <2>5, <2>6, <2>7 DEF Flowing, Starting
<1>7. QED BY <1>1, <1>2, <1>3, <1>4, <1>5, <1>6
-----------------------------------------------------------------------------
LEMMA FlowInit == ASSUME XmodemAssumption, Init PROVE Flow
<1>1. /\ to_rx = << >> /\ to_tx = <<Ctl("C")>> /\ dest = << >>
      /\ tx_pc = "sync" /\ tx_len = 0 /\ trychar = "C" /\ rx_result = "none"
  BY DEF Init
<1>2. Ctl("C").t = "C"
  BY Controls
<1>3. Stalled
  BY <1>1, <1>2 DEF Stalled, Without
<1>4. Continues(to_rx, Len(dest), tx_len + 1, Sent)
  <2>1. Len(dest) = 0 /\ tx_len + 1 = 1 /\ Sent = 0
    BY <1>1 DEF Sent
  <2>2. Continues(to_rx, 0, 1, 0)
    BY <1>1, ContinuesEmpty
  <2>3. QED BY <2>1, <2>2
<1>5. Clean(to_rx, tx_crc) /\ Without(to_rx, "CAN") /\ Starting
  BY <1>1 DEF Clean, Without, Starting
<1>6. QED BY <1>1, <1>3, <1>4, <1>5 DEF Flow, Flowing

LEMMA FlowNext ==
  ASSUME XmodemAssumption, NoWrap, Inv, InOrder, Flow, [Next]_vars
  PROVE  Flow'
<1> SUFFICES ASSUME Incomplete'
             PROVE  rx_result' # "ok" /\ (rx_pc' = "wait" => Flowing')
  BY DEF Flow
<1>1. faults \in Nat /\ dest \in Seq(1 .. Blocks) /\ Len(dest) \in Nat
  BY DEF Inv, RxInv, Received, XmodemAssumption
<1>2. CASE TxNext
  <2>1. /\ UNCHANGED <<rx_pc, trychar, rx_crc, dest, rx_result>> /\ faults' = faults
        /\ TxStart \/ TxNoPrompt \/ TxAcked \/ TxResend \/ TxCancel \/ TxEnd
             \/ TxEotAgain
    BY <1>2 DEF TxNext, rx
  <2>2. Incomplete
    BY <2>1 DEF Incomplete
  <2>3. rx_pc = "wait" => RxWaits
    BY <2>1 DEF RxWaits
  <2>4. QED BY <2>1, <2>2, <2>3, FlowTx DEF Flow
<1>3. CASE RxNext
  <2>1. /\ TxWaits /\ faults' = faults /\ rx_pc = "wait"
        /\ RxNoHeader \/ RxCancel \/ RxEot \/ RxAccept \/ RxCopy \/ RxReject
    BY <1>3 DEF RxNext, tx, TxWaits, RxNoHeader, RxCancel, RxEot, RxAccept,
                RxCopy, RxReject
  <2>2. Len(dest) <= Len(dest') /\ Len(dest') \in Nat
    <3>1. CASE RxAccept /\ Len(dest) < DestBlocks
      <4>1. dest' = Append(dest, Head(to_rx).block)
        BY <3>1 DEF RxAccept
      <4>2. QED BY <1>1, <4>1
    <3>2. CASE ~(RxAccept /\ Len(dest) < DestBlocks)
      <4>1. dest' = dest
        BY <2>1, <3>2 DEF RxNoHeader, RxCancel, RxEot, RxReturns, RxAccept,
                          RxCopy, RxReject
      <4>2. QED BY <1>1, <4>1
    <3>3. QED BY <3>1, <3>2
  <2>3. Incomplete
    <3>1. Blocks \in Nat
      BY DEF XmodemAssumption
    <3>2. QED BY <1>1, <2>1, <2>2, <3>1 DEF Incomplete
  <2>4. QED BY <2>1, <2>3, FlowRx DEF Flow
\* A fault ends what is claimed of a line without any.
<1>4. CASE LineFault
  BY <1>1, <1>4 DEF LineFault, Incomplete
<1>5. CASE UNCHANGED vars
  <2>1. /\ UNCHANGED <<to_rx, to_tx, tx_pc, tx_len, tx_crc, rx_pc, trychar, rx_crc>>
        /\ UNCHANGED <<rx_result, dest, faults>>
    BY <1>5 DEF vars, lines, tx, rx
  <2>2. Incomplete /\ rx_result # "ok"
    BY <2>1 DEF Incomplete, Flow
  <2>3. CrcNow' = CrcNow /\ Sent' = Sent /\ Stalled' = Stalled /\ Starting' = Starting
    BY <2>1 DEF CrcNow, Sent, Stalled, Starting
  <2>4. Flowing => Flowing'
    BY <2>1, <2>3 DEF Flowing
  <2>5. QED BY <2>1, <2>2, <2>4 DEF Flow
<1>6. QED BY <1>2, <1>3, <1>4, <1>5 DEF Next, Finished

\* On a line without faults, however late the answers are, a normal end of
\* xmodemReceive means that the whole image has arrived, if the destination
\* has room for it and the packet numbers do not wrap.
THEOREM FaultlessTransfer ==
  ASSUME XmodemAssumption, NoWrap PROVE Spec => []FaultlessComplete
<1>1. Init => Flow
  BY FlowInit
<1>2. Inv /\ InOrder /\ Flow /\ [Next]_vars => Flow'
  BY FlowNext
<1>3. Inv /\ InOrder /\ Flow => FaultlessComplete
  <2> SUFFICES ASSUME Inv, InOrder, Flow, faults = 0, rx_result = "ok",
                      Blocks <= DestBlocks
               PROVE  Len(dest) = Blocks
    BY DEF FaultlessComplete
  <2>1. ~(Len(dest) < Blocks)
    BY DEF Flow, Incomplete
  <2>2. Len(dest) \in Nat /\ dest \in Seq(1 .. Blocks) /\ Blocks \in Nat
    BY DEF Inv, RxInv, Received, XmodemAssumption
  <2>3. Len(dest) # 0 => dest[Len(dest)] = Len(dest) /\ dest[Len(dest)] \in 1 .. Blocks
    BY <2>2 DEF InOrder
  <2>4. QED BY <2>1, <2>2, <2>3
<1>4. QED BY <1>1, <1>2, <1>3, InvHolds, OrderKept, PTL DEF Spec
=============================================================================
