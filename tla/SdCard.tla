------------------------------- MODULE SdCard -------------------------------
(***************************************************************************)
(* The SD card driver of the Pico, sdcard_pico.c over spi_pico.c, with its *)
(* users in machine.c: machine_boot() and the monitor's so, sf and ss, and *)
(* the guest's disk requests when no image file is mounted (sd_fat = 0).   *)
(* The driver keeps one sector in buffer[] and its number in cur_sec.      *)
(* sdcard_open() goes command by command, because the card's state and the *)
(* driver's flags change on the way; a fetch or a store is one step.       *)
(***************************************************************************)
EXTENDS SdMedium

CONSTANTS
  MaxPolls,    \* polls of sdcard_open() before it gives up: 10
  MaxFlips,    \* changes of the pre-clock tweak before it gives up: 2
  Values,      \* what the guest writes
  MaxStores,   \* bound on the monitor's ss
  CharSigned   \* plain char has a sign (the AVR; not the Pico's ARM)

ASSUME DriverAssumption == /\ MaxPolls \in Nat \ {0} /\ MaxFlips \in Nat
                           /\ Values \subseteq Data
                           /\ CharSigned \in BOOLEAN /\ MaxStores \in Nat

VARIABLES
  buffer, cur_sec, ccs, preclock_tweak,     \* statics of sdcard_pico.c
  pc,          \* "idle", or the next command of sdcard_open()
  type, count, flip_count,                  \* its locals
  caller,      \* "boot" or "so"
  rc,          \* result of the last driver call
  shown,       \* what the console said of it: "ok" or "error"
  wr_prt, disk_err, mem,                    \* of machine.c
  \* History variables.
  request,     \* the guest's last request: [op, s, r]
  stores,      \* ss commands so far
  opened,      \* result of the last sdcard_open(), 1 before its end
  missed       \* the last transfer for cur_sec failed, or was made when
               \* the last opening had not succeeded

driver == <<buffer, cur_sec, ccs, preclock_tweak>>
open == <<pc, type, count, flip_count, caller>>
result == <<rc, shown>>
guest == <<wr_prt, disk_err, mem>>
others == <<request, missed, stores>>
history == <<others, opened>>
vars == <<cardVars, driver, open, result, guest, history>>

Codes == {-1, -2, -3, -4, -5, 0}
Answers == {NoAnswer, 0, IdleState, Illegal, AddressError}
NoRequest == [op |-> "none", s |-> 0, r |-> 0]
NoSector == -1

Init ==
  /\ CardInit
  /\ buffer = [r \in Records |-> Blank]
  /\ cur_sec = NoSector /\ ccs = 0 /\ preclock_tweak = TRUE
  /\ pc = "cmd0" /\ type = 0 /\ count = 0 /\ flip_count = 0
  /\ caller = "boot" /\ rc = 0 /\ shown = "error"
  /\ wr_prt = FALSE /\ disk_err = 0 /\ mem = Blank
  /\ request = NoRequest /\ missed = FALSE /\ opened = 1
  /\ stores = 0
-----------------------------------------------------------------------------
(* sdcard_open().                                                           *)

\* A result kept in a char loses its sign where char has none.
AsChar(code) == IF CharSigned THEN code ELSE code % 256
Shows(code) == shown' = IF code >= 0 THEN "ok" ELSE "error"
\* machine_boot() keeps the result in an int, the monitor in a char.
Return(code) ==
  /\ pc' = "idle" /\ rc' = code /\ opened' = code
  /\ Shows(IF caller = "boot" THEN code ELSE AsChar(code))
Goto(p) == pc' = p /\ UNCHANGED <<result, opened>>

\* cmd0 - GO_IDLE_STATE; the target of `restart'.
GoIdle ==
  /\ pc = "cmd0"
  /\ IF flip_count > MaxFlips
     THEN Return(-4) /\ UNCHANGED cardVars
     ELSE \E c \in Answers : /\ Cmd0(c)
                             /\ CASE c < 0 -> Return(-1)
                                  [] c = IdleState -> Goto("cmd8")
                                  [] OTHER -> Return(-3)
  /\ UNCHANGED <<driver, type, count, flip_count, caller, guest, others>>

\* cmd8 - SEND_IF_COND: an illegal command to a card of version 1; a card of
\* version 2 has to echo the argument.
SendIfCond ==
  /\ pc = "cmd8"
  /\ \E c \in Answers, echo \in BOOLEAN :
       /\ Cmd8(c, echo)
       /\ \/ c >= 0 /\ c = Illegal /\ Goto("poll") /\ type' = 1
          \/ c >= 0 /\ c # Illegal /\ echo /\ Goto("poll") /\ type' = 2
          \/ /\ c < 0 \/ (c # Illegal /\ ~echo)
             /\ Return(-4)
             /\ UNCHANGED type
  /\ count' = 0
  /\ UNCHANGED <<driver, flip_count, caller, guest, others>>

\* The loop of CMD1 or ACMD41.  An answer with the illegal command bit, and -1
\* has it too, turns the pre-clock tweak over and restarts.
Flipped == {NoAnswer, Illegal}
\* Mutant: one poll fewer.
GivesUpEarly(n) == n + 1 >= MaxPolls
GivesUp(n) == n >= MaxPolls
\* Mutant: the count of the changes starts anew at each restart.
FlipForgotten == 0
FlipCounted == flip_count + 1
SendOpCond ==
  /\ pc = "poll"
  /\ \E c \in Answers :
       /\ Poll(c, preclock_tweak)
       /\ count' = count + 1
       /\ \/ /\ GivesUp(count)
             /\ Return(-2)
             /\ UNCHANGED <<preclock_tweak, flip_count>>
          \/ /\ ~GivesUp(count) /\ c \in Flipped
             /\ preclock_tweak' = ~preclock_tweak
             /\ flip_count' = FlipCounted
             /\ Goto("cmd0")
          \/ /\ ~GivesUp(count) /\ c \notin Flipped
             /\ CASE c # 0 -> Goto("poll")
                  [] c = 0 /\ type = 1 -> Return(0)
                  [] OTHER -> Goto("ocr")
             /\ UNCHANGED <<preclock_tweak, flip_count>>
  /\ UNCHANGED <<buffer, cur_sec, ccs, type, caller, guest, others>>

\* cmd58 - READ_OCR, for cards of version 2 only: bit 30 tells high capacity.
\* Mutant: bit 31, set for every card that has powered up.
PoweredUp(hc) == 1
CapacityBit(hc) == IF hc THEN 1 ELSE 0
OcrFails(c) == c # 0
ReadOcr ==
  /\ pc = "ocr"
  /\ \E c \in Answers, hc \in BOOLEAN :
       /\ Ocr(c, hc)
       /\ IF OcrFails(c)
          THEN Return(-5) /\ UNCHANGED ccs
          ELSE Return(0) /\ ccs' = CapacityBit(hc)
  /\ UNCHANGED <<buffer, cur_sec, preclock_tweak>>
  /\ UNCHANGED <<type, count, flip_count, caller, guest, others>>

\* The monitor's so: sdcard_open() again.
Reopen ==
  /\ pc = "idle"
  /\ pc' = "cmd0" /\ caller' = "so" /\ flip_count' = 0
  /\ request' = NoRequest
  /\ UNCHANGED <<cardVars, driver, type, count, result, guest>>
  /\ UNCHANGED <<missed, stores, opened>>

Open == GoIdle \/ SendIfCond \/ SendOpCond \/ ReadOcr
-----------------------------------------------------------------------------
(* Fetch and store.                                                         *)

\* The argument of CMD17 and CMD24.
Argument(s) == IF ccs = 0 THEN s * SectorBytes ELSE s

\* sdcard_fetch_sec(): cur_sec is the new sector before it is read.  Without
\* an answer the result is -1, without the data token -2.
\* Mutant: another sector of the card counts as the sector in the buffer.
CachedAny(s) == cur_sec # NoSector
Cached(s) == cur_sec = s
\* Mutant: the number of the first sector stays.
CurSecKept(s) == IF cur_sec = NoSector THEN s ELSE cur_sec
CurSec(s) == s
FetchSec(s, code) ==
  IF Cached(s)
  THEN /\ code = 0
       /\ UNCHANGED <<cardVars, buffer, cur_sec, missed>>
  ELSE /\ cur_sec' = CurSec(s)
       /\ \E c \in Answers :
            /\ ReadBlock(Argument(s), c)
            /\ IF c = 0 THEN code = 0 /\ buffer' = BlockAt(Argument(s))
                        ELSE code \in {-1, -2} /\ UNCHANGED buffer
       /\ missed' = (code # 0 \/ opened # 0)

\* sdcard_store_sec() writes buffer[], d here, to any sector; -1 when the
\* command, -3 when the data is refused or not answered.
StoreSec(s, d, code) ==
  \E c \in Answers : /\ WriteBlock(Argument(s), d, c)
                     /\ IF c = 0 THEN code = 0 ELSE code \in {-1, -3}

\* The monitor's sf and ss.
Monitor == request' = NoRequest
Fetch(s) == /\ pc = "idle"
            /\ \E code \in Codes : FetchSec(s, code) /\ rc' = code
                                   /\ Shows(AsChar(code))
            /\ Monitor
            /\ UNCHANGED <<ccs, preclock_tweak, open, guest, opened, stores>>
Store(s) == /\ pc = "idle" /\ stores < MaxStores
            /\ stores' = stores + 1
            /\ \E code \in Codes : StoreSec(s, buffer, code) /\ rc' = code
                                   /\ Shows(AsChar(code))
                /\ missed' = (missed \/ (s = cur_sec /\ code # 0))
            /\ Monitor
            /\ UNCHANGED <<driver, open, guest, opened>>

\* Port 13: disk_read() drops the result of the fetch.  A read copies from the
\* buffer and reports success whatever came of the fetch.
Accepted(op, s, r) == /\ pc = "idle"
                      /\ request' = [op |-> op, s |-> s, r |-> r]
Read(s, r) ==
  /\ Accepted("read", s, r)
  /\ \E code \in Codes : FetchSec(s, code) /\ rc' = code
  /\ mem' = buffer'[r] /\ disk_err' = 0
  /\ UNCHANGED <<ccs, preclock_tweak, open, shown, wr_prt, opened, stores>>

\* A write fetches, puts its record into the buffer and flushes the sector that
\* cur_sec names; 6 stands for every result but 0.
WriteFetch(s, r, v) ==
  /\ ~wr_prt
  /\ Accepted("write", s, r)
  /\ \E code \in Codes : FetchSec(s, code) /\ rc' = code
  /\ pc' = "flush" /\ mem' = v
  /\ UNCHANGED <<ccs, preclock_tweak, type, count, flip_count, caller>>
  /\ UNCHANGED <<shown, wr_prt, disk_err, opened, stores>>
\* Mutant: an error of the flush is not reported.
NoError(code) == 0
DiskError(code) == IF code = 0 THEN 0 ELSE 6
WriteFlush ==
  /\ pc = "flush"
  /\ buffer' = [buffer EXCEPT ![request.r] = mem]
  /\ \E code \in Codes : /\ StoreSec(cur_sec, buffer', code)
                         /\ rc' = code /\ disk_err' = DiskError(code)
                         /\ missed' = (missed \/ code # 0)
  /\ pc' = "idle"
  /\ UNCHANGED <<cur_sec, ccs, preclock_tweak, type, count, flip_count>>
  /\ UNCHANGED <<caller, shown, wr_prt, mem, request, opened, stores>>
\* Write protection: the fetch is made, the write refused.
WriteRefused(s, r) ==
  /\ wr_prt
  /\ Accepted("refused", s, r)
  /\ \E code \in Codes : FetchSec(s, code) /\ rc' = code
  /\ disk_err' = 7
  /\ UNCHANGED <<ccs, preclock_tweak, open, shown, wr_prt, mem>>
  /\ UNCHANGED <<opened, stores>>

\* The monitor's wp.
Protect == /\ pc = "idle"
           /\ wr_prt' = ~wr_prt
           /\ UNCHANGED <<cardVars, driver, open, result>>
           /\ UNCHANGED <<disk_err, mem, history>>

ExchangeCard(c) == /\ pc = "idle" /\ Exchange(c)
                   /\ request' = NoRequest
                   /\ UNCHANGED <<driver, open, result, guest>>
                   /\ UNCHANGED <<missed, opened, stores>>
-----------------------------------------------------------------------------
Next ==
  \/ Open \/ Reopen \/ WriteFlush \/ Protect
  \/ \E s \in Sectors : Fetch(s) \/ Store(s)
  \/ \E s \in Sectors, r \in Records :
       \/ Read(s, r) \/ WriteRefused(s, r)
       \/ \E v \in Values : WriteFetch(s, r, v)
  \/ \E c \in Cards \cup {NoCard} : ExchangeCard(c)

\* The driver's own steps follow each other; nobody need ask for anything.
Spec == Init /\ [][Next]_vars /\ WF_vars(Open \/ WriteFlush)
-----------------------------------------------------------------------------
(* Properties.                                                              *)

TypeOK ==
  /\ CardTypeOK
  /\ buffer \in Sector /\ cur_sec \in Sectors \cup {NoSector}
  /\ ccs \in {0, 1} /\ preclock_tweak \in BOOLEAN
  /\ pc \in {"idle", "cmd0", "cmd8", "poll", "ocr", "flush"}
  /\ type \in {0, 1, 2} /\ caller \in {"boot", "so"}
  /\ count \in 0 .. MaxPolls + 1 /\ flip_count \in 0 .. MaxFlips + 1
  /\ rc \in Codes /\ shown \in {"ok", "error"}
  /\ wr_prt \in BOOLEAN /\ disk_err \in {0, 6, 7} /\ mem \in Data
  /\ request \in [op : {"none", "read", "write", "refused"},
                  s : Sectors, r : Records]
  /\ stores \in 0 .. MaxStores
  /\ missed \in BOOLEAN
  /\ opened \in Codes \cup {1}

Done == pc = "idle"
SameCard == exchanges = MaxExchanges
Undisturbed == SameCard /\ faults = MaxFaults

\* While the line loses nothing, sdcard_open() succeeds for every card that is
\* ready within its polls, whatever it thinks of pre-clocks and whatever the
\* tweak was left at by an earlier opening; and it fails for the others.
Fit == {c \in Cards : c.clocks # "never"}
OpenFindsCard ==
  Done /\ Undisturbed
    => (opened = 0 <=> card \in Fit /\ card.warm < MaxPolls)

\* After an opening that said 0, the driver addresses the card in the card's
\* own unit: a sector number for high capacity, a byte address otherwise.
OpenKnowsCard ==
  Done /\ phase = "ready" /\ opened = 0 => (ccs = 1 <=> card.hc)

\* The console says `ok' or `detect' only for a call that succeeded.  It fails
\* on the Pico, whose char has no sign.
ShownIsResult == Done /\ request = NoRequest /\ shown = "ok" => rc = 0

\* What the console says of a driver call: machine_boot(), which keeps the
\* result in an int, tells success from failure; the monitor's so, sf and ss
\* do where char has a sign, and show every call as a success elsewhere.
BootTells == Open /\ Done' /\ caller = "boot"
MonitorTells == \/ Open /\ Done' /\ caller = "so"
                \/ \E s \in Sectors : Fetch(s) \/ Store(s)
ConsoleTells ==
  [][/\ BootTells => (shown' = "ok" <=> rc' = 0)
     /\ MonitorTells => (shown' = "ok" <=> rc' = 0 \/ ~CharSigned)]_vars

\* The buffer holds what the card holds in cur_sec, unless the last transfer
\* for that sector failed or the card was exchanged.
BufferCoherent ==
  Done /\ SameCard /\ card # NoCard /\ cur_sec # NoSector /\ ~missed
    => buffer = media[card][cur_sec]

\* What the guest reads is the record of the card, once that is open, while
\* the line loses nothing.  A card may be ready without being open: one that
\* takes its last poll to get ready is given up, its unit of addresses unknown.
ReadIsRecord ==
  Done /\ Undisturbed /\ request.op = "read" /\ opened = 0
    => mem = media[card][request.s][request.r]

\* A write reported as done is on the card, when the last opening succeeded.
WriteIsDone ==
  Done /\ opened = 0 /\ request.op = "write" /\ disk_err = 0
    => media[card][request.s][request.r] = mem

\* While the line loses nothing and the card is open, a request changes no
\* record but the one it writes: "the data obtained by reading is written to
\* the same sector" (DesignNote.md:292).
WritesOnly(c, s, r) == /\ pc = "flush"
                       /\ c = card /\ s = request.s /\ r = request.r
OthersKept ==
  [][\A c \in Cards, s \in Sectors, r \in Records :
       Undisturbed' /\ opened = 0 /\ media'[c][s][r] # media[c][s][r] =>
         stores' # stores \/ WritesOnly(c, s, r)]_vars

\* sdcard_open() and a write come to an end, whatever is in the slot.
Returns == (pc # "idle") ~> (pc = "idle")
=============================================================================
