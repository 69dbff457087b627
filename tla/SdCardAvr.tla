----------------------------- MODULE SdCardAvr -----------------------------
(***************************************************************************)
(* The SD card driver of the AVR, sdcard_avr.c, under the guest's disk     *)
(* requests of machine.c.  It fetches anew at every request, and cur_blk   *)
(* only serves sdcard_flush().  Its loops in sdcard_open() have no count.  *)
(***************************************************************************)
EXTENDS SdMedium

CONSTANT Values   \* what the guest writes

ValuesAssumption == Values \subseteq Data

VARIABLES
  buffer, cur_blk, ccs,    \* statics of sdcard_avr.c
  pc,        \* "idle", "flush" or the next command of sdcard_open()
  rc,        \* result of sdcard_open(), 1 before its end
  disk_err, mem,           \* of machine.c
  request    \* the guest's last request (history)

driver == <<buffer, cur_blk, ccs>>
guest == <<disk_err, mem, request>>
vars == <<cardVars, driver, pc, rc, guest>>

Answers == {NoAnswer, 0, IdleState, Illegal, AddressError}
NoRequest == [op |-> "none", s |-> 0, r |-> 0]

Init == /\ CardInit
        /\ buffer = [r \in Records |-> Blank] /\ cur_blk = 0 /\ ccs = 0
        /\ pc = "cmd0" /\ rc = 1
        /\ disk_err = 0 /\ mem = Blank /\ request = NoRequest
-----------------------------------------------------------------------------
Return(code) == pc' = "idle" /\ rc' = code
Goto(p) == pc' = p /\ UNCHANGED rc

GoIdle ==
  /\ pc = "cmd0"
  /\ \E c \in Answers : /\ Cmd0(c)
                        /\ IF c = IdleState THEN Goto("cmd8") ELSE Return(-1)
  /\ UNCHANGED <<driver, guest>>

\* Any answer to cmd8 but the echo of its argument stands for a legacy card.
SendIfCond ==
  /\ pc = "cmd8"
  /\ \E c \in Answers, echo \in BOOLEAN :
       /\ Cmd8(c, echo)
       /\ Goto(IF echo THEN "acmd41" ELSE "cmd1")
  /\ UNCHANGED <<driver, guest>>

SendOpCond ==
  /\ pc = "cmd1"
  /\ \E c \in Answers :
       /\ Poll(c, FALSE)
       /\ CASE c = 0 -> Return(0) /\ ccs' = 0
            [] c = NoAnswer -> Return(-2) /\ UNCHANGED ccs
            [] OTHER -> Goto("cmd1") /\ UNCHANGED ccs
  /\ UNCHANGED <<buffer, cur_blk, guest>>

\* "no errors, no idle": the loop goes on without an answer, too.
Ready(c) == c = 0
AppOpCond ==
  /\ pc = "acmd41"
  /\ \E c \in Answers : /\ Poll(c, FALSE)
                        /\ Goto(IF Ready(c) THEN "ocr" ELSE "acmd41")
  /\ UNCHANGED <<driver, guest>>

\* Without an answer sd_cmd() returns ones, which read as a card that has
\* powered up and is of high capacity.
CapacityBit(c, hc) == IF c = NoAnswer \/ hc THEN 1 ELSE 0
ReadOcr ==
  /\ pc = "ocr"
  /\ \E c \in Answers, hc \in BOOLEAN : /\ Ocr(c, hc)
                                        /\ ccs' = CapacityBit(c, hc)
  /\ Return(0)
  /\ UNCHANGED <<buffer, cur_blk, guest>>

Open == GoIdle \/ SendIfCond \/ SendOpCond \/ AppOpCond \/ ReadOcr
Reopen == /\ pc = "idle" /\ pc' = "cmd0" /\ request' = NoRequest
          /\ UNCHANGED <<cardVars, driver, rc, disk_err, mem>>
-----------------------------------------------------------------------------
\* Mutant: byte addresses for the cards of high capacity.
ArgumentSwapped(s) == IF ccs = 1 THEN s * SectorBytes ELSE s
Argument(s) == IF ccs = 0 THEN s * SectorBytes ELSE s

\* sdcard_fetch_sec(); disk_read() drops its result.
FetchSec(s) ==
  /\ cur_blk' = s
  /\ \E c \in Answers :
       /\ ReadBlock(Argument(s), c)
       /\ buffer' = IF c = 0 THEN BlockAt(Argument(s)) ELSE buffer

\* sdcard_store_sec(), of d.
StoreSec(s, d, code) == \E c \in Answers : /\ WriteBlock(Argument(s), d, c)
                                           /\ IF c = 0 THEN code = 0
                                              ELSE code = -1

\* sdcard_flush() hands the sector number to sdcard_store(), which takes it for
\* a byte address and divides it.
FlushSector == cur_blk \div SectorBytes

Read(s, r) == /\ pc = "idle"
              /\ FetchSec(s)
              /\ mem' = buffer'[r] /\ disk_err' = 0
              /\ request' = [op |-> "read", s |-> s, r |-> r]
              /\ UNCHANGED <<ccs, pc, rc>>
WriteFetch(s, r, v) == /\ pc = "idle"
                       /\ FetchSec(s)
                       /\ mem' = v /\ pc' = "flush"
                       /\ request' = [op |-> "write", s |-> s, r |-> r]
                       /\ UNCHANGED <<ccs, rc, disk_err>>
DiskError(code) == IF code = 0 THEN 0 ELSE 6
WriteFlush == /\ pc = "flush"
              /\ buffer' = [buffer EXCEPT ![request.r] = mem]
              /\ \E code \in {0, -1} : /\ StoreSec(FlushSector, buffer', code)
                                       /\ disk_err' = DiskError(code)
              /\ pc' = "idle"
              /\ UNCHANGED <<cur_blk, ccs, rc, mem, request>>

Next == \/ Open \/ Reopen \/ WriteFlush
        \/ \E s \in Sectors, r \in Records :
             Read(s, r) \/ \E v \in Values : WriteFetch(s, r, v)

Spec == Init /\ [][Next]_vars /\ WF_vars(Open \/ WriteFlush)
-----------------------------------------------------------------------------
\* With a card that is open, the guest reads what the card holds at that
\* record, be the card's addresses bytes or sectors.
ReadIsRecord ==
  pc = "idle" /\ rc = 0 /\ request.op = "read"
    => mem = media[card][request.s][request.r]

\* A write reported as done is on the card, in the sector that was read: "the
\* data obtained by reading is written to the same sector"
\* (DesignNote.md:292).
WriteIsDone ==
  pc = "idle" /\ request.op = "write" /\ disk_err = 0
    => media[card][request.s][request.r] = mem

\* sdcard_open() says 0 for the cards that are there, and only for those; the
\* card is ready then, and addressed in its own unit.
OpenFindsCard ==
  pc = "idle" => /\ rc = 0 <=> card # NoCard
                 /\ rc = 0 => phase = "ready" /\ (ccs = 1 <=> card.hc)

\* sdcard_open() and a write return, while no card is taken out.
Returns == (pc # "idle") ~> (pc = "idle")
=============================================================================
