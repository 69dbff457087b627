---------------------------- MODULE SdCardProofs ----------------------------
(***************************************************************************)
(* Proofs about SdCard for every set of cards, geometry, number of polls   *)
(* and of lost answers.  What relates the driver to its card is proved for *)
(* a card that stays in the slot.                                          *)
(***************************************************************************)
EXTENDS SdDrivers, TLAPS

OneCard == MaxExchanges = 0

Opening == {"cmd0", "cmd8", "poll", "ocr"}

\* Types; the counts are bounded by the places where they are compared.
Types == /\ TypeOK
         /\ pc = "poll" => count <= MaxPolls
         /\ pc \in {"cmd8", "poll", "ocr"} => flip_count <= MaxFlips
         /\ pc \in Opening => request = NoRequest

\* The driver addresses the card in the card's unit.
Known == card # NoCard /\ (ccs = 1 <=> card.hc)

\* The inductive invariant for one card.  The driver knows the card from its
\* first successful opening on, and what it has fetched since is right even if
\* a later opening fails.
Inv == /\ Types
       /\ exchanges = 0
       /\ ccs = 1 => card # NoCard /\ card.hc
       /\ pc = "poll" /\ type = 1 => card # NoCard /\ ~card.v2
       /\ opened = 0 => Known
       /\ cur_sec # NoSector /\ ~missed =>
            Known /\ buffer = media[card][cur_sec]
       /\ pc = "flush" => request.op = "write" /\ cur_sec = request.s
       /\ WriteIsDone
-----------------------------------------------------------------------------
(* The card.                                                                *)

LEMMA CardTypes ==
  ASSUME CardTypeOK
  PROVE  /\ \A c, echo : Cmd0(c) \/ Cmd8(c, echo) => CardTypeOK'
         /\ \A c, p : Poll(c, p) => CardTypeOK'
         /\ \A c, hc : Ocr(c, hc) => CardTypeOK'
         /\ \A arg, c : ReadBlock(arg, c) => CardTypeOK' /\ media' = media
         /\ \A arg, c : \A d \in Sector : WriteBlock(arg, d, c) => CardTypeOK'
<1>1. UNCHANGED cardVars => CardTypeOK' /\ media' = media
  BY DEF CardTypeOK, cardVars
<1>2. Lost => CardTypeOK' /\ media' = media
  BY CardAssumption DEF CardTypeOK, Lost
<1>3. ASSUME NEW c, NEW echo, Cmd0(c) \/ Cmd8(c, echo) PROVE CardTypeOK'
  <2>1. card # NoCard => card.warm \in Nat
    BY CardAssumption DEF CardTypeOK
  <2>2. QED BY <1>1, <1>2, <1>3, <2>1 DEF Cmd0, Cmd8, CardTypeOK
<1>4. ASSUME NEW c, NEW p, Poll(c, p) PROVE CardTypeOK'
  BY <1>1, <1>2, <1>4 DEF Poll, CardTypeOK
<1>5. ASSUME NEW c, NEW hc, Ocr(c, hc) PROVE CardTypeOK'
  BY <1>1, <1>2, <1>5 DEF Ocr
<1>6. ASSUME NEW arg, NEW c, ReadBlock(arg, c) PROVE CardTypeOK' /\ media' = media
  BY <1>1, <1>2, <1>6 DEF ReadBlock
<1>7. ASSUME NEW arg, NEW c, NEW d \in Sector, WriteBlock(arg, d, c)
      PROVE CardTypeOK'
  <2>1. ASSUME media' = [media EXCEPT ![card][SectorAt(arg)] = d]
        PROVE  media' \in [Cards -> [Sectors -> Sector]]
    BY <2>1 DEF CardTypeOK
  <2>2. QED
    BY <1>1, <1>2, <1>7, <2>1, CardAssumption DEF WriteBlock, CardTypeOK
<1>8. QED BY <1>3, <1>4, <1>5, <1>6, <1>7

\* In the right unit, the argument for a sector means that sector.
LEMMA RightSector ==
  ASSUME Known, CardTypeOK, NEW s \in Sectors, ccs \in {0, 1}
  PROVE  SectorAt(Argument(s)) = s
<1>1. ASSUME NEW t \in Sectors, t * SectorBytes = s * SectorBytes PROVE t = s
  <2>1. t \in Nat /\ s \in Nat /\ SectorBytes \in Nat \ {0} BY CardAssumption
  <2>2. QED BY <1>1, <2>1, Z3
<1>2. Addressed(Argument(s)) = {s}
  <2>1. CASE card.hc
    <3>1. Argument(s) = s BY <2>1 DEF Argument, Known
    <3>2. QED BY <2>1, <3>1 DEF Addressed
  <2>2. CASE ~card.hc
    <3>1. Argument(s) = s * SectorBytes BY <2>2 DEF Argument, Known
    <3>2. Addressed(Argument(s)) =
            {t \in Sectors : s * SectorBytes = t * SectorBytes}
      BY <2>2, <3>1 DEF Addressed
    <3>3. QED BY <1>1, <3>2
  <2>3. QED BY <2>1, <2>2
<1>3. QED BY <1>2 DEF SectorAt
-----------------------------------------------------------------------------
(* Types.                                                                   *)

LEMMA FetchTypes ==
  ASSUME Types, NEW s \in Sectors, NEW code, FetchSec(s, code)
  PROVE  /\ CardTypeOK' /\ buffer' \in Sector /\ cur_sec' \in Sectors
         /\ missed' \in BOOLEAN
<1>1. CASE Cached(s)
  BY <1>1 DEF FetchSec, Cached, Types, TypeOK, CardTypeOK, cardVars
<1>2. CASE ~Cached(s)
  <2>1. PICK c \in Answers : /\ ReadBlock(Argument(s), c)
                             /\ IF c = 0 THEN code = 0 /\ buffer' = BlockAt(Argument(s))
                                ELSE code \in {-1, -2} /\ UNCHANGED buffer
    BY <1>2 DEF FetchSec
  <2>2. CardTypeOK' BY <2>1, CardTypes DEF Types, TypeOK
  <2>3. c = 0 => Serves(Argument(s))
    BY <2>1 DEF ReadBlock, Lost, NoAnswer, AddressError
  <2>4. Serves(Argument(s)) => BlockAt(Argument(s)) \in Sector
    <3>1. ASSUME Serves(Argument(s)) PROVE SectorAt(Argument(s)) \in Sectors
      BY <3>1 DEF Serves, SectorAt, Addressed
    <3>2. QED BY <3>1 DEF BlockAt, Serves, Types, TypeOK, CardTypeOK
  <2>5. buffer' \in Sector BY <2>1, <2>3, <2>4 DEF Types, TypeOK
  <2>6. QED BY <1>2, <2>2, <2>5 DEF FetchSec, CurSec
<1>3. QED BY <1>1, <1>2

LEMMA StoreTypes ==
  ASSUME Types, NEW s, NEW d \in Sector, NEW code, StoreSec(s, d, code)
  PROVE  CardTypeOK' /\ code \in Codes
  BY CardTypes DEF StoreSec, Types, TypeOK, Codes

LEMMA OpenTypes == ASSUME Types, Open PROVE Types'
<1> USE DEF Types, TypeOK
<1>0. CardTypeOK' /\ UNCHANGED <<buffer, cur_sec, guest, others, caller>>
  <2>1. UNCHANGED cardVars => CardTypeOK' BY DEF cardVars, CardTypeOK
  <2>2. CASE GoIdle
    BY <2>1, <2>2, CardTypes DEF GoIdle, driver
  <2>3. CASE SendIfCond
    <3>1. PICK c \in Answers, echo \in BOOLEAN : Cmd8(c, echo) BY <2>3 DEF SendIfCond
    <3>2. QED BY <2>3, <3>1, CardTypes DEF SendIfCond, driver
  <2>4. CASE SendOpCond
    <3>1. PICK c \in Answers : Poll(c, preclock_tweak) BY <2>4 DEF SendOpCond
    <3>2. QED BY <2>4, <3>1, CardTypes DEF SendOpCond
  <2>5. CASE ReadOcr
    <3>1. PICK c \in Answers, hc \in BOOLEAN : Ocr(c, hc) BY <2>5 DEF ReadOcr
    <3>2. QED BY <2>5, <3>1, CardTypes DEF ReadOcr
  <2>6. QED BY <2>2, <2>3, <2>4, <2>5 DEF Open
<1>1. CASE GoIdle
  <2>1. UNCHANGED <<driver, type, count, flip_count>> BY <1>1 DEF GoIdle
  <2>2. \/ \E code \in Codes : Return(code)
        \/ flip_count <= MaxFlips /\ Goto("cmd8")
    BY <1>1, DriverAssumption DEF GoIdle, Codes
  <2>3. QED BY <1>0, <1>1, <2>1, <2>2
              DEF GoIdle, Return, Goto, Shows, driver, guest, others, result, Opening
<1>2. CASE SendIfCond
  <2>1. count' = 0 /\ type' \in {0, 1, 2} /\ UNCHANGED <<driver, flip_count>>
    BY <1>2 DEF SendIfCond
  <2>2. (\E code \in Codes : Return(code)) \/ Goto("poll")
    BY <1>2 DEF SendIfCond, Codes
  <2>3. QED BY <1>0, <1>2, <2>1, <2>2, DriverAssumption
              DEF SendIfCond, Return, Goto, Shows, driver, guest, others, result, Opening
<1>3. CASE SendOpCond
  <2>1. count' = count + 1 /\ UNCHANGED <<ccs, type>> /\ count <= MaxPolls
    BY <1>3 DEF SendOpCond
  <2>2. \/ /\ \E code \in Codes : Return(code)
           /\ UNCHANGED <<preclock_tweak, flip_count>>
        \/ /\ ~GivesUp(count) /\ Goto("cmd0")
           /\ preclock_tweak' = ~preclock_tweak /\ flip_count' = flip_count + 1
        \/ /\ ~GivesUp(count) /\ (Goto("poll") \/ Goto("ocr"))
           /\ UNCHANGED <<preclock_tweak, flip_count>>
    BY <1>3 DEF SendOpCond, Codes, FlipCounted
  <2>3. count' \in 0 .. MaxPolls + 1 BY <2>1, DriverAssumption
  <2>4. ~GivesUp(count) => count' <= MaxPolls
    BY <2>1, DriverAssumption DEF GivesUp
  <2>5. flip_count <= MaxFlips BY <1>3 DEF SendOpCond
  <2>6. UNCHANGED <<buffer, cur_sec, caller, guest, others>> /\ pc = "poll"
    BY <1>3 DEF SendOpCond
  <2>7. flip_count + 1 \in 0 .. MaxFlips + 1 BY <2>5, DriverAssumption
  <2>8. ASSUME NEW code \in Codes, Return(code),
               UNCHANGED <<preclock_tweak, flip_count>>
        PROVE  Types'
    BY <1>0, <2>1, <2>3, <2>6, <2>8 DEF Return, Shows, guest, others, Opening
  <2>9. ASSUME ~GivesUp(count), Goto("cmd0"), flip_count' = flip_count + 1,
               preclock_tweak' = ~preclock_tweak
        PROVE  Types'
    BY <1>0, <2>1, <2>3, <2>6, <2>7, <2>9 DEF Goto, guest, others, result, Opening
  <2>10. ASSUME ~GivesUp(count), Goto("poll") \/ Goto("ocr"),
                UNCHANGED <<preclock_tweak, flip_count>>
         PROVE  Types'
    BY <1>0, <2>1, <2>3, <2>4, <2>5, <2>6, <2>10
    DEF Goto, guest, others, result, Opening
  <2>11. QED BY <2>2, <2>8, <2>9, <2>10
<1>4. CASE ReadOcr
  <2>1. /\ ccs' \in {0, 1}
        /\ UNCHANGED <<preclock_tweak, type, count, flip_count>>
    BY <1>4 DEF ReadOcr, CapacityBit
  <2>2. \E code \in Codes : Return(code)
    BY <1>4 DEF ReadOcr, Codes
  <2>3. QED BY <1>0, <1>4, <2>1, <2>2
              DEF ReadOcr, Return, Shows, guest, others, result, Opening
<1>5. QED BY <1>1, <1>2, <1>3, <1>4 DEF Open

LEMMA InitTypes == Init => Types
<1> SUFFICES ASSUME Init PROVE Types
  OBVIOUS
<1>1. CardTypeOK
  BY CardAssumption DEF Init, CardInit, CardTypeOK
<1>2. buffer \in Sector /\ mem \in Data
  BY CardAssumption DEF Init, Sector
<1>3. request = NoRequest /\ NoRequest \in [op : {"none", "read", "write", "refused"},
                                          s : Sectors, r : Records]
  BY CardAssumption DEF Init, NoRequest
<1>4. count \in 0 .. MaxPolls + 1 /\ flip_count \in 0 .. MaxFlips + 1
      /\ stores \in 0 .. MaxStores
  BY DriverAssumption DEF Init
<1>5. QED BY <1>1, <1>2, <1>3, <1>4 DEF Init, Types, TypeOK, Codes, Opening

LEMMA StepTypes == ASSUME Types, [Next]_vars PROVE Types'
<1> USE DEF Types, TypeOK
<1>1. CASE Open BY <1>1, OpenTypes
<1>2. CASE Reopen
  BY <1>2, CardAssumption, DriverAssumption
  DEF Reopen, cardVars, CardTypeOK, driver, result, guest, NoRequest, Opening
<1>3. ASSUME NEW s \in Sectors, Fetch(s) PROVE Types'
  <2>1. PICK code \in Codes : FetchSec(s, code) /\ rc' = code /\ Shows(AsChar(code))
    BY <1>3 DEF Fetch
  <2>2. QED
    BY <1>3, <2>1, FetchTypes, CardAssumption
    DEF Fetch, Shows, Monitor, NoRequest, open, guest, Opening
<1>4. ASSUME NEW s \in Sectors, Store(s) PROVE Types'
  <2>1. PICK code \in Codes : /\ StoreSec(s, buffer, code) /\ rc' = code
                              /\ Shows(AsChar(code))
                              /\ missed' = (missed \/ (s = cur_sec /\ code # 0))
    BY <1>4 DEF Store
  <2>2. stores' \in 0 .. MaxStores BY <1>4, DriverAssumption DEF Store
  <2>3. QED
    BY <1>4, <2>1, <2>2, StoreTypes, CardAssumption
    DEF Store, Shows, Monitor, NoRequest, driver, open, guest, Opening
<1>5. ASSUME NEW s \in Sectors, NEW r \in Records, Read(s, r) PROVE Types'
  <2>1. PICK code \in Codes : FetchSec(s, code) /\ rc' = code
    BY <1>5 DEF Read
  <2>2. buffer' \in Sector BY <2>1, FetchTypes
  <2>3. mem' \in Data BY <1>5, <2>2 DEF Read, Sector
  <2>4. QED
    BY <1>5, <2>1, <2>3, FetchTypes DEF Read, Accepted, open, Opening
<1>6. ASSUME NEW s \in Sectors, NEW r \in Records, WriteRefused(s, r) PROVE Types'
  <2>1. PICK code \in Codes : FetchSec(s, code) /\ rc' = code
    BY <1>6 DEF WriteRefused
  <2>2. QED
    BY <1>6, <2>1, FetchTypes DEF WriteRefused, Accepted, open, Opening
<1>7. ASSUME NEW s \in Sectors, NEW r \in Records, NEW v \in Values,
             WriteFetch(s, r, v)
      PROVE  Types'
  <2>1. PICK code \in Codes : FetchSec(s, code) /\ rc' = code
    BY <1>7 DEF WriteFetch
  <2>2. QED
    BY <1>7, <2>1, FetchTypes, DriverAssumption DEF WriteFetch, Accepted, Opening
<1>8. CASE WriteFlush
  <2>1. buffer' \in Sector BY <1>8 DEF WriteFlush, Sector
  <2>2. PICK code \in Codes : /\ StoreSec(cur_sec, buffer', code)
                              /\ rc' = code /\ disk_err' = DiskError(code)
                              /\ missed' = (missed \/ code # 0)
    BY <1>8 DEF WriteFlush
  <2>3. CardTypeOK' BY <2>1, <2>2, StoreTypes
  <2>4. QED BY <1>8, <2>1, <2>2, <2>3 DEF WriteFlush, DiskError, Opening
<1>9. CASE Protect
  BY <1>9 DEF Protect, cardVars, CardTypeOK, driver, open, result, history, others, Opening
<1>10. ASSUME NEW c \in Cards \cup {NoCard}, ExchangeCard(c) PROVE Types'
  <2>1. CardTypeOK' BY <1>10, CardAssumption DEF ExchangeCard, Exchange, CardTypeOK
  <2>2. QED
    BY <1>10, <2>1, CardAssumption
    DEF ExchangeCard, driver, open, result, guest, NoRequest, Opening
<1>11. CASE UNCHANGED vars
  BY <1>11 DEF vars, cardVars, CardTypeOK, driver, open, result, guest, history, others
<1>12. QED
  BY <1>1, <1>2, <1>3, <1>4, <1>5, <1>6, <1>7, <1>8, <1>9, <1>10, <1>11 DEF Next

\* Every variable keeps its type, for every number of polls and changes of the
\* tweak: the counts of sdcard_open() do not run past their limits.
THEOREM TypeCorrect == Spec => []TypeOK
<1>1. Types => TypeOK BY DEF Types
<1>2. QED BY <1>1, InitTypes, StepTypes, PTL DEF Spec
-----------------------------------------------------------------------------
(* One card: the invariant.                                                 *)

\* The commands of sdcard_open() leave the card in the slot, and its contents.
LEMMA CommandKeeps ==
  /\ \A c, echo : Cmd0(c) \/ Cmd8(c, echo) => UNCHANGED <<card, media, exchanges>>
  /\ \A c, p : Poll(c, p) => UNCHANGED <<card, media, exchanges>>
  /\ \A c, hc : Ocr(c, hc) => UNCHANGED <<card, media, exchanges>>
  /\ \A arg, c : ReadBlock(arg, c) => UNCHANGED <<card, media, exchanges>>
  /\ \A arg, d, c : WriteBlock(arg, d, c) => UNCHANGED <<card, exchanges>>
  BY DEF Cmd0, Cmd8, Poll, Ocr, ReadBlock, WriteBlock, Lost, cardVars

LEMMA FetchKnows ==
  ASSUME Inv, NEW s \in Sectors, NEW code, FetchSec(s, code),
         UNCHANGED <<ccs, opened>>
  PROVE  /\ UNCHANGED <<card, media, exchanges>>
         /\ cur_sec' = s
         /\ ~missed' => Known /\ buffer' = media[card][s]
<1>1. CASE Cached(s)
  <2>1. cur_sec = s /\ s # NoSector
    BY <1>1, CardAssumption DEF Cached, NoSector
  <2>2. QED BY <1>1, <2>1 DEF FetchSec, Inv, cardVars
<1>2. CASE ~Cached(s)
  <2>1. PICK c \in Answers : /\ ReadBlock(Argument(s), c)
                             /\ IF c = 0 THEN code = 0 /\ buffer' = BlockAt(Argument(s))
                                ELSE code \in {-1, -2} /\ UNCHANGED buffer
    BY <1>2 DEF FetchSec
  <2>2. UNCHANGED <<card, media, exchanges>> BY <2>1, CommandKeeps
  <2>3. cur_sec' = s /\ (~missed' => code = 0 /\ opened = 0)
    BY <1>2 DEF FetchSec, CurSec
  <2>4. ASSUME code = 0, opened = 0 PROVE Known /\ buffer' = media[card][s]
    <3>1. Known /\ CardTypeOK /\ ccs \in {0, 1} BY <2>4 DEF Inv, Types, TypeOK
    <3>2. buffer' = BlockAt(Argument(s)) BY <2>1, <2>4
    <3>3. SectorAt(Argument(s)) = s BY <3>1, RightSector
    <3>4. QED BY <3>1, <3>2, <3>3 DEF BlockAt
  <2>5. QED BY <2>2, <2>3, <2>4
<1>3. QED BY <1>1, <1>2

\* What is stored without an error is in its sector.
LEMMA StoreKnows ==
  ASSUME Inv, NEW s \in Sectors, NEW d \in Sector, NEW code, StoreSec(s, d, code)
  PROVE  /\ UNCHANGED <<card, exchanges>>
         /\ Known /\ code = 0 => media' = [media EXCEPT ![card][s] = d]
<1>1. PICK c \in Answers : /\ WriteBlock(Argument(s), d, c)
                           /\ IF c = 0 THEN code = 0 ELSE code \in {-1, -3}
  BY DEF StoreSec
<1>2. ASSUME Known, code = 0 PROVE media' = [media EXCEPT ![card][s] = d]
  <2>1. c = 0 BY <1>1, <1>2
  <2>2. media' = [media EXCEPT ![card][SectorAt(Argument(s))] = d]
    BY <1>1, <2>1 DEF WriteBlock, Lost, NoAnswer, AddressError
  <2>3. SectorAt(Argument(s)) = s BY <1>2, RightSector DEF Inv, Types, TypeOK
  <2>4. QED BY <2>2, <2>3
<1>3. QED BY <1>1, <1>2, CommandKeeps

\* Whether it succeeds or not, with the right unit it changes no other sector.
LEMMA StoreElsewhere ==
  ASSUME Inv, Known, NEW s \in Sectors, NEW d \in Sector, NEW code,
         StoreSec(s, d, code), NEW t \in Sectors, t # s
  PROVE  media'[card][t] = media[card][t]
<1>1. PICK c \in Answers : WriteBlock(Argument(s), d, c) BY DEF StoreSec
<1>2. SectorAt(Argument(s)) = s BY RightSector DEF Inv, Types, TypeOK
<1>3. media' = media \/ media' = [media EXCEPT ![card][s] = d]
  BY <1>1, <1>2 DEF WriteBlock, Lost, cardVars
<1>4. card \in Cards /\ media \in [Cards -> [Sectors -> Sector]]
  BY DEF Inv, Types, TypeOK, CardTypeOK, Known
<1>5. QED BY <1>3, <1>4

LEMMA OpenKnows == ASSUME Inv, Open PROVE Inv'
<1>0. Types' BY OpenTypes DEF Inv
<1>1. UNCHANGED <<card, media, exchanges, buffer, cur_sec, missed, request, mem, disk_err>>
  <2>1. CASE GoIdle
    BY <2>1, CommandKeeps DEF GoIdle, driver, others, guest, cardVars
  <2>2. CASE SendIfCond
    BY <2>2, CommandKeeps DEF SendIfCond, driver, others, guest
  <2>3. CASE SendOpCond
    BY <2>3, CommandKeeps DEF SendOpCond, others, guest
  <2>4. CASE ReadOcr
    BY <2>4, CommandKeeps DEF ReadOcr, others, guest
  <2>5. QED BY <2>1, <2>2, <2>3, <2>4 DEF Open
<1>2. pc \in Opening /\ request = NoRequest
  BY DEF Inv, Types, Open, GoIdle, SendIfCond, SendOpCond, ReadOcr, Opening
<1>3. WriteIsDone' /\ pc' # "flush"
  BY <1>1, <1>2 DEF WriteIsDone, NoRequest, Open, GoIdle, SendIfCond, SendOpCond,
     ReadOcr, Return, Goto
<1>4. CASE GoIdle
  <2>1. /\ ccs' = ccs
        /\ \/ pc' = "cmd8" /\ opened' = opened
           \/ pc' = "idle" /\ opened' # 0
    <3>1. ccs' = ccs BY <1>4 DEF GoIdle, driver
    <3>2. CASE flip_count > MaxFlips
      BY <1>4, <3>1, <3>2 DEF GoIdle, Return
    <3>3. CASE ~(flip_count > MaxFlips)
      <4>1. PICK c \in Answers : CASE c < 0 -> Return(-1)
                                   [] c = IdleState -> Goto("cmd8")
                                   [] OTHER -> Return(-3)
        BY <1>4, <3>3 DEF GoIdle
      <4>2. Return(-1) \/ Goto("cmd8") \/ Return(-3)
        <5>1. ~(c < 0 /\ c = IdleState) BY DEF IdleState
        <5>2. CASE c < 0 BY <4>1, <5>1, <5>2
        <5>3. CASE c = IdleState BY <4>1, <5>1, <5>3
        <5>4. CASE ~(c < 0) /\ c # IdleState BY <4>1, <5>4
        <5>5. QED BY <5>2, <5>3, <5>4
      <4>3. CASE Return(-1) BY <3>1, <4>3 DEF Return
      <4>4. CASE Return(-3) BY <3>1, <4>4 DEF Return
      <4>5. CASE Goto("cmd8") BY <3>1, <4>5 DEF Goto, result
      <4>6. QED BY <4>2, <4>3, <4>4, <4>5
    <3>4. QED BY <3>2, <3>3
  <2>2. QED BY <1>0, <1>1, <1>3, <2>1 DEF Inv, Known
<1>5. CASE SendIfCond
  <2>1. PICK c \in Answers, echo \in BOOLEAN :
          /\ Cmd8(c, echo)
          /\ \/ c >= 0 /\ c = Illegal /\ Goto("poll") /\ type' = 1
             \/ c >= 0 /\ c # Illegal /\ echo /\ Goto("poll") /\ type' = 2
             \/ /\ c < 0 \/ (c # Illegal /\ ~echo)
                /\ Return(-4)
                /\ UNCHANGED type
    BY <1>5 DEF SendIfCond
  <2>2. c = Illegal => card # NoCard /\ ~card.v2
    BY <2>1 DEF Cmd8, Silent, Illegal, IdleState, NoAnswer, Lost
  <2>3. \/ pc' = "idle" /\ opened' # 0
        \/ pc' = "poll" /\ opened' = opened /\ (type' = 1 => c = Illegal)
    BY <2>1 DEF Return, Goto
  <2>4. ccs' = ccs BY <1>5 DEF SendIfCond, driver
  <2>5. QED BY <1>0, <1>1, <1>3, <2>2, <2>3, <2>4 DEF Inv, Known
<1>6. CASE SendOpCond
  <2>1. PICK c \in Answers :
          /\ Poll(c, preclock_tweak)
          /\ \/ Return(-2)
             \/ Goto("cmd0")
             \/ CASE c # 0 -> Goto("poll")
                  [] c = 0 /\ type = 1 -> Return(0)
                  [] OTHER -> Goto("ocr")
    BY <1>6 DEF SendOpCond
  <2>2. \/ pc' # "poll" /\ opened' = opened
        \/ pc' = "poll" /\ opened' = opened
        \/ pc' = "idle" /\ (opened' = 0 => type = 1)
    BY <2>1 DEF Return, Goto
  <2>3. ccs' = ccs /\ type' = type /\ pc = "poll" BY <1>6 DEF SendOpCond
  <2>4. type = 1 => card # NoCard /\ ~card.hc
    BY <2>3, CardAssumption DEF Inv, Types, TypeOK, CardTypeOK
  <2>5. type = 1 => Known
    BY <2>4 DEF Inv, Known
  <2>6. QED BY <1>0, <1>1, <1>3, <2>2, <2>3, <2>5 DEF Inv, Known
<1>7. CASE ReadOcr
  <2>1. PICK c \in Answers, hc \in BOOLEAN :
          /\ Ocr(c, hc)
          /\ \/ c # 0 /\ Return(-5) /\ UNCHANGED ccs
             \/ c = 0 /\ Return(0) /\ ccs' = CapacityBit(hc)
    BY <1>7 DEF ReadOcr, OcrFails
  <2>2. c = 0 => card # NoCard /\ (hc <=> card.hc)
    <3>1. ASSUME c = 0 PROVE ~Silent /\ hc = (~Silent /\ card.hc)
      <4>1. c # NoAnswer BY <3>1 DEF NoAnswer
      <4>2. c = (IF Silent THEN NoAnswer ELSE 0) /\ hc = (~Silent /\ card.hc)
        BY <2>1, <4>1 DEF Ocr
      <4>3. QED BY <4>1, <4>2
    <3>2. c = 0 => (hc <=> card.hc) BY <3>1, Zenon
    <3>3. QED BY <3>1, <3>2 DEF Silent
  <2>3. pc' = "idle" /\ (c # 0 => ccs' = ccs /\ opened' # 0)
    BY <2>1 DEF Return
  <2>4. c = 0 => Known'
    BY <1>1, <2>1, <2>2 DEF Known, CapacityBit
  <2>5. CASE c = 0
    BY <1>0, <1>1, <1>3, <2>3, <2>4, <2>5 DEF Inv, Known
  <2>6. CASE c # 0
    BY <1>0, <1>1, <1>3, <2>3, <2>6 DEF Inv, Known
  <2>7. QED BY <2>5, <2>6
<1>8. QED BY <1>4, <1>5, <1>6, <1>7 DEF Open

LEMMA InitKnows == ASSUME OneCard, Init PROVE Inv
<1>1. Types BY InitTypes
<1>2. QED BY <1>1 DEF OneCard, Init, CardInit, Inv, NoSector, WriteIsDone

LEMMA StepKnows == ASSUME Inv, [Next]_vars PROVE Inv'
<1>0. Types' BY StepTypes DEF Inv
<1>1. CASE Open BY <1>1, OpenKnows
<1>2. CASE Reopen
  BY <1>0, <1>2
  DEF Reopen, Inv, Known, WriteIsDone, NoRequest, cardVars, driver, guest
<1>3. ASSUME NEW s \in Sectors, Fetch(s) PROVE Inv'
  <2>1. PICK code \in Codes : FetchSec(s, code) BY <1>3 DEF Fetch
  <2>2. UNCHANGED <<ccs, opened, pc, type>> /\ pc = "idle" /\ request' = NoRequest
    BY <1>3 DEF Fetch, open, Monitor
  <2>3. QED BY <1>0, <2>1, <2>2, FetchKnows DEF Inv, Known, WriteIsDone, NoRequest
<1>4. ASSUME NEW s \in Sectors, Store(s) PROVE Inv'
  <2>1. PICK code \in Codes : /\ StoreSec(s, buffer, code)
                              /\ missed' = (missed \/ (s = cur_sec /\ code # 0))
    BY <1>4 DEF Store
  <2>2. /\ UNCHANGED <<buffer, cur_sec, ccs, opened, pc, type>> /\ pc = "idle"
        /\ request' = NoRequest
    BY <1>4 DEF Store, open, Monitor, driver
  <2>3. buffer \in Sector /\ UNCHANGED <<card, exchanges>>
    BY <2>1, StoreKnows DEF Inv, Types, TypeOK
  <2>4. ASSUME cur_sec # NoSector, ~missed'
        PROVE  Known /\ buffer = media'[card][cur_sec]
    <3>1. ~missed /\ Known /\ buffer = media[card][cur_sec] /\ cur_sec \in Sectors
      BY <2>1, <2>4 DEF Inv, Types, TypeOK
    <3>2. CASE s = cur_sec
      <4>1. media' = [media EXCEPT ![card][s] = buffer]
        BY <2>1, <2>3, <2>4, <3>1, <3>2, StoreKnows
      <4>2. card \in Cards /\ media \in [Cards -> [Sectors -> Sector]]
        BY <3>1 DEF Inv, Types, TypeOK, CardTypeOK, Known
      <4>3. QED BY <3>1, <3>2, <4>1, <4>2
    <3>3. CASE s # cur_sec
      BY <2>1, <2>3, <3>1, <3>3, StoreElsewhere
    <3>4. QED BY <3>2, <3>3, <3>1
  <2>5. QED BY <1>0, <2>2, <2>3, <2>4 DEF Inv, Known, WriteIsDone, NoRequest
<1>5. ASSUME NEW s \in Sectors, NEW r \in Records, Read(s, r) PROVE Inv'
  <2>1. PICK code \in Codes : FetchSec(s, code) BY <1>5 DEF Read
  <2>2. /\ UNCHANGED <<ccs, opened, pc, type>> /\ pc = "idle"
        /\ request'.op = "read"
    BY <1>5 DEF Read, open, Accepted
  <2>3. QED BY <1>0, <2>1, <2>2, FetchKnows DEF Inv, Known, WriteIsDone
<1>6. ASSUME NEW s \in Sectors, NEW r \in Records, WriteRefused(s, r) PROVE Inv'
  <2>1. PICK code \in Codes : FetchSec(s, code) BY <1>6 DEF WriteRefused
  <2>2. /\ UNCHANGED <<ccs, opened, pc, type>> /\ pc = "idle"
        /\ request'.op = "refused"
    BY <1>6 DEF WriteRefused, open, Accepted
  <2>3. QED BY <1>0, <2>1, <2>2, FetchKnows DEF Inv, Known, WriteIsDone
<1>7. ASSUME NEW s \in Sectors, NEW r \in Records, NEW v \in Values,
             WriteFetch(s, r, v)
      PROVE  Inv'
  <2>1. PICK code \in Codes : FetchSec(s, code) BY <1>7 DEF WriteFetch
  <2>2. /\ UNCHANGED <<ccs, opened, type>> /\ pc' = "flush"
        /\ request' = [op |-> "write", s |-> s, r |-> r]
    BY <1>7 DEF WriteFetch, Accepted
  <2>3. QED BY <1>0, <2>1, <2>2, FetchKnows DEF Inv, Known, WriteIsDone, Done
<1>8. CASE WriteFlush
  <2>1. /\ UNCHANGED <<cur_sec, ccs, opened, type, request, mem>>
        /\ pc' = "idle" /\ request.op = "write" /\ cur_sec = request.s
        /\ buffer' = [buffer EXCEPT ![request.r] = mem]
    BY <1>8 DEF WriteFlush, Inv
  <2>2. PICK code \in Codes : /\ StoreSec(cur_sec, buffer', code)
                              /\ disk_err' = DiskError(code)
                              /\ missed' = (missed \/ code # 0)
    BY <1>8 DEF WriteFlush
  <2>3. cur_sec \in Sectors /\ request.r \in Records /\ buffer' \in Sector
    BY <1>0, <2>1 DEF Inv, Types, TypeOK
  <2>4. UNCHANGED <<card, exchanges>> BY <2>2, <2>3, StoreKnows
  <2>5. ASSUME Known, code = 0
        PROVE  media'[card][cur_sec] = buffer' /\ buffer'[request.r] = mem
    <3>1. media' = [media EXCEPT ![card][cur_sec] = buffer']
      BY <2>2, <2>3, <2>5, StoreKnows
    <3>2. card \in Cards /\ media \in [Cards -> [Sectors -> Sector]]
      BY <2>5 DEF Inv, Types, TypeOK, CardTypeOK, Known
    <3>3. buffer \in [Records -> Data] BY DEF Inv, Types, TypeOK, Sector
    <3>4. QED BY <2>1, <2>3, <3>1, <3>2, <3>3
  <2>6. cur_sec' # NoSector /\ ~missed' => Known' /\ buffer' = media'[card'][cur_sec']
    BY <2>1, <2>2, <2>4, <2>5 DEF Inv, Known
  <2>7. WriteIsDone'
    <3>1. ASSUME opened' = 0, disk_err' = 0
          PROVE  media'[card'][request'.s][request'.r] = mem'
      <4>1. Known /\ code = 0 BY <2>1, <2>2, <3>1 DEF Inv, DiskError
      <4>2. QED BY <2>1, <2>4, <2>5, <4>1
    <3>2. QED BY <3>1 DEF WriteIsDone
  <2>8. QED BY <1>0, <2>1, <2>4, <2>6, <2>7 DEF Inv, Known
<1>9. CASE Protect
  BY <1>0, <1>9
  DEF Protect, Inv, Known, WriteIsDone, Done, cardVars, driver, open, history, others
<1>10. ASSUME NEW c \in Cards \cup {NoCard}, ExchangeCard(c) PROVE Inv'
  BY <1>10 DEF ExchangeCard, Exchange, Inv
<1>11. CASE UNCHANGED vars
  BY <1>0, <1>11
  DEF vars, Inv, Known, WriteIsDone, Done, cardVars, driver, open, guest, history, others
<1>12. QED
  BY <1>1, <1>2, <1>3, <1>4, <1>5, <1>6, <1>7, <1>8, <1>9, <1>10, <1>11 DEF Next

LEMMA KnowsAlways == ASSUME OneCard PROVE Spec => []Inv
<1>1. Init => Inv BY InitKnows
<1>2. Inv /\ [Next]_vars => Inv' BY StepKnows
<1>3. QED BY <1>1, <1>2, PTL DEF Spec
-----------------------------------------------------------------------------
(* One card: the theorems.                                                  *)

\* With a card that stays in the slot, an opening that reported success has
\* found out the unit of its addresses, whichever answers the line lost.
THEOREM UnitIsKnown == ASSUME OneCard PROVE Spec => []OpenKnowsCard
<1>1. Inv => OpenKnowsCard BY DEF Inv, OpenKnowsCard, Known
<1>2. QED BY <1>1, KnowsAlways, PTL

\* The buffer is what the card holds in cur_sec, unless the last transfer for it
\* failed or was made while the card was not open.
THEOREM BufferIsRight == ASSUME OneCard PROVE Spec => []BufferCoherent
<1>1. Inv => BufferCoherent BY DEF Inv, BufferCoherent
<1>2. QED BY <1>1, KnowsAlways, PTL

\* A guest's write that disk_err reports as done is on the card, in its place.
THEOREM WritesArrive == ASSUME OneCard PROVE Spec => []WriteIsDone
<1>1. Inv => WriteIsDone BY DEF Inv
<1>2. QED BY <1>1, KnowsAlways, PTL

\* machine_boot() says on the console of every opening whether it succeeded,
\* in every build; the monitor says so of its calls where char has a sign, and
\* on the Pico, where it has none, shows each of them as a success.
THEOREM ConsoleSays == Spec => ConsoleTells
<1>1. ASSUME NEW code \in Codes
      PROVE  /\ code >= 0 <=> code = 0
             /\ AsChar(code) >= 0 <=> code = 0 \/ ~CharSigned
  <2>1. \A n \in Codes : n >= 0 <=> n = 0
    BY DEF Codes
  <2>2. \A n \in Codes : n % 256 >= 0
    BY DEF Codes
  <2>3. QED BY <2>1, <2>2, DriverAssumption DEF AsChar
<1>2. ASSUME Open, pc' = "idle" PROVE caller' = caller /\ \E code \in Codes : Return(code)
  <2>1. CASE GoIdle
    BY <1>2, <2>1 DEF GoIdle, Goto, Codes
  <2>2. CASE SendIfCond
    BY <1>2, <2>2 DEF SendIfCond, Goto, Codes
  <2>3. CASE SendOpCond
    BY <1>2, <2>3 DEF SendOpCond, Goto, Codes
  <2>4. CASE ReadOcr
    BY <2>4 DEF ReadOcr, Codes
  <2>5. QED BY <1>2, <2>1, <2>2, <2>3, <2>4 DEF Open
<1>3. ASSUME BootTells PROVE shown' = "ok" <=> rc' = 0
  <2>1. PICK code \in Codes : Return(code)
    BY <1>2, <1>3 DEF BootTells, Done
  <2>2. caller = "boot" /\ rc' = code
    BY <1>3, <2>1 DEF BootTells, Return
  <2>3. QED BY <1>1, <2>1, <2>2 DEF Return, Shows
<1>4. ASSUME MonitorTells PROVE shown' = "ok" <=> rc' = 0 \/ ~CharSigned
  <2>1. \E code \in Codes : rc' = code /\ Shows(AsChar(code))
    <3>1. CASE Open /\ Done' /\ caller = "so"
      <4>1. PICK code \in Codes : Return(code)
        BY <1>2, <3>1 DEF Done
      <4>2. QED BY <3>1, <4>1 DEF Return
    <3>2. CASE \E s \in Sectors : Fetch(s) \/ Store(s)
      BY <3>2 DEF Fetch, Store
    <3>3. QED BY <1>4, <3>1, <3>2 DEF MonitorTells
  <2>2. PICK code \in Codes : rc' = code /\ Shows(AsChar(code))
    BY <2>1
  <2>3. QED BY <1>1, <2>2 DEF Shows
<1>5. [/\ BootTells => (shown' = "ok" <=> rc' = 0)
       /\ MonitorTells => (shown' = "ok" <=> rc' = 0 \/ ~CharSigned)]_vars
  BY <1>3, <1>4
<1>6. QED BY <1>5, PTL DEF ConsoleTells
-----------------------------------------------------------------------------
(* A line that loses nothing, and a card that stays.                        *)

\* The code allows two changes of the tweak; one must be allowed.
OneFlip == MaxFlips > 0

\* A card that one of the two settings of the tweak suits, ready in time.
Usable == card # NoCard /\ card.clocks # "never" /\ card.warm < MaxPolls

\* What sdcard_open() has found out at each of its commands.  The count of the
\* polls is the time that the card has had; for a usable card, the tweak is
\* turned at most once, and to the setting that suits.
Places ==
  /\ pc = "cmd8" => card # NoCard /\ phase = "idle" /\ warm = card.warm
  /\ pc = "poll" => /\ card # NoCard /\ phase = "idle"
                    /\ type = IF card.v2 THEN 2 ELSE 1
                    /\ count <= card.warm /\ warm = card.warm - count
  /\ pc = "ocr" => Usable /\ phase = "ready" /\ card.v2
  /\ pc \in Opening /\ Usable =>
       flip_count = 0 \/ (flip_count = 1 /\ ~Objects(preclock_tweak))

\* What the driver has, once it has returned.
Opened ==
  /\ opened = 0 => Usable
  /\ pc \notin Opening /\ Usable => opened = 0 /\ phase = "ready" /\ Known
  /\ ccs = 1 /\ card # NoCard => card.hc

\* The buffer, and what the guest has got from it.
Served ==
  /\ Usable /\ cur_sec # NoSector => buffer = media[card][cur_sec]
  /\ pc = "flush" => request.op = "write" /\ cur_sec = request.s
  /\ pc = "idle" /\ request.op = "read" /\ Usable =>
       mem = media[card][request.s][request.r]

Faithful == Places /\ Opened /\ Served
QuietInv == Types /\ (Undisturbed => Faithful)

LEMMA NothingLost ==
  ASSUME CardTypeOK, faults' = MaxFaults
  PROVE  ~Lost /\ faults' # faults - 1
  BY CardAssumption DEF CardTypeOK, Lost

LEMMA CommandCounts ==
  /\ \A c, echo : Cmd0(c) \/ Cmd8(c, echo) => faults' \in {faults, faults - 1}
  /\ \A c, p : Poll(c, p) => faults' \in {faults, faults - 1}
  /\ \A c, hc : Ocr(c, hc) => faults' \in {faults, faults - 1}
  /\ \A arg, c : ReadBlock(arg, c) => faults' \in {faults, faults - 1}
  /\ \A arg, d, c : WriteBlock(arg, d, c) => faults' \in {faults, faults - 1}
  BY DEF Cmd0, Cmd8, Poll, Ocr, ReadBlock, WriteBlock, Lost, cardVars

\* Losses and exchanges are counted and never made good: what has been quiet
\* up to the next state has been quiet up to this one.
LEMMA FetchCounts ==
  ASSUME NEW s, NEW code, FetchSec(s, code)
  PROVE  faults' \in {faults, faults - 1} /\ UNCHANGED <<card, exchanges>>
  BY CommandCounts, CommandKeeps DEF FetchSec, cardVars

LEMMA StoreCounts ==
  ASSUME NEW s, NEW d, NEW code, StoreSec(s, d, code)
  PROVE  faults' \in {faults, faults - 1} /\ UNCHANGED <<card, exchanges>>
  BY CommandCounts, CommandKeeps DEF StoreSec

LEMMA OpenCounts ==
  ASSUME Open
  PROVE  /\ faults' \in {faults, faults - 1}
         /\ UNCHANGED <<card, media, exchanges, buffer, cur_sec, request, mem>>
         /\ pc \in Opening
<1>1. CASE GoIdle
  BY <1>1, CommandKeeps, CommandCounts
  DEF GoIdle, driver, others, guest, cardVars, Opening
<1>2. CASE SendIfCond
  BY <1>2, CommandKeeps, CommandCounts DEF SendIfCond, driver, others, guest, Opening
<1>3. CASE SendOpCond
  BY <1>3, CommandKeeps, CommandCounts DEF SendOpCond, others, guest, Opening
<1>4. CASE ReadOcr
  BY <1>4, CommandKeeps, CommandCounts DEF ReadOcr, others, guest, Opening
<1>5. QED BY <1>1, <1>2, <1>3, <1>4 DEF Open

LEMMA StaysQuiet ==
  ASSUME Types, [Next]_vars, Undisturbed'
  PROVE  Undisturbed /\ ~Lost /\ faults' = faults /\ card' = card
<1> USE DEF Types, TypeOK
<1>1. \/ faults' \in {faults, faults - 1} /\ UNCHANGED <<card, exchanges>>
      \/ exchanges' = exchanges - 1
  <2>1. CASE Open BY <2>1, OpenCounts
  <2>2. CASE Reopen \/ Protect \/ UNCHANGED vars
    BY <2>2 DEF Reopen, Protect, vars, cardVars
  <2>3. ASSUME NEW s \in Sectors, Fetch(s) \/ Store(s)
        PROVE  faults' \in {faults, faults - 1} /\ UNCHANGED <<card, exchanges>>
    BY <2>3, FetchCounts, StoreCounts DEF Fetch, Store
  <2>4. ASSUME NEW s \in Sectors, NEW r \in Records,
               \/ Read(s, r) \/ WriteRefused(s, r)
               \/ \E v \in Values : WriteFetch(s, r, v)
        PROVE  faults' \in {faults, faults - 1} /\ UNCHANGED <<card, exchanges>>
    BY <2>4, FetchCounts DEF Read, WriteRefused, WriteFetch
  <2>5. CASE WriteFlush BY <2>5, StoreCounts DEF WriteFlush
  <2>6. ASSUME NEW c \in Cards \cup {NoCard}, ExchangeCard(c)
        PROVE  exchanges' = exchanges - 1
    BY <2>6 DEF ExchangeCard, Exchange
  <2>7. QED BY <2>1, <2>2, <2>3, <2>4, <2>5, <2>6 DEF Next
<1>2. exchanges' = MaxExchanges /\ exchanges \in 0 .. MaxExchanges
      /\ faults' = MaxFaults /\ faults \in 0 .. MaxFaults
  BY DEF Undisturbed, SameCard, CardTypeOK
<1>3. exchanges' # exchanges - 1 /\ faults' # faults - 1
  BY <1>2, CardAssumption
<1>4. QED BY <1>1, <1>2, <1>3, NothingLost DEF Undisturbed, SameCard

\* A usable card serves every sector, under its own address.
LEMMA UsableServes ==
  ASSUME Types, Usable, Known, phase = "ready", NEW s \in Sectors
  PROVE  Serves(Argument(s)) /\ SectorAt(Argument(s)) = s
<1>1. SectorAt(Argument(s)) = s BY RightSector DEF Types, TypeOK
<1>2. s \in Addressed(Argument(s))
  <2>1. CASE card.hc
    BY <2>1 DEF Known, Argument, Addressed
  <2>2. CASE ~card.hc
    <3>1. Argument(s) = s * SectorBytes BY <2>2 DEF Known, Argument, Types, TypeOK
    <3>2. QED BY <2>2, <3>1 DEF Addressed
  <2>3. QED BY <2>1, <2>2
<1>3. QED BY <1>1, <1>2 DEF Serves, Usable

\* After a quiet fetch the buffer is the sector asked for.
LEMMA QuietFetch ==
  ASSUME Types, Opened, Served, pc = "idle", ~Lost,
         NEW s \in Sectors, NEW code, FetchSec(s, code)
  PROVE  /\ UNCHANGED <<card, phase, warm, media>> /\ cur_sec' = s
         /\ Usable => buffer' = media[card][s]
<1>1. CASE Cached(s)
  <2>1. cur_sec = s /\ s # NoSector
    BY <1>1, CardAssumption DEF Cached, NoSector
  <2>2. QED BY <1>1, <2>1 DEF FetchSec, Served, cardVars
<1>2. CASE ~Cached(s)
  <2>1. PICK c \in Answers : /\ ReadBlock(Argument(s), c)
                             /\ IF c = 0 THEN code = 0 /\ buffer' = BlockAt(Argument(s))
                                ELSE code \in {-1, -2} /\ UNCHANGED buffer
    BY <1>2 DEF FetchSec
  <2>2. /\ UNCHANGED <<card, phase, warm, media>>
        /\ Serves(Argument(s)) => c = 0
    BY <2>1 DEF ReadBlock, cardVars, Serves, Silent
  <2>3. cur_sec' = s BY <1>2 DEF FetchSec, CurSec
  <2>4. ASSUME Usable PROVE buffer' = media[card][s]
    <3>1. Known /\ phase = "ready" BY <2>4 DEF Opened, Opening
    <3>2. Serves(Argument(s)) /\ SectorAt(Argument(s)) = s
      BY <2>4, <3>1, UsableServes
    <3>3. QED BY <2>1, <2>2, <3>2 DEF BlockAt
  <2>5. QED BY <2>2, <2>3, <2>4
<1>3. QED BY <1>1, <1>2

\* A quiet store puts the data into its sector, and nowhere else.
LEMMA QuietStore ==
  ASSUME Types, Opened, pc \in {"idle", "flush"}, ~Lost, faults' # faults - 1,
         NEW s \in Sectors, NEW d, NEW code, StoreSec(s, d, code)
  PROVE  /\ UNCHANGED <<card, phase, warm>>
         /\ Usable => media' = [media EXCEPT ![card][s] = d]
<1>1. PICK c \in Answers : WriteBlock(Argument(s), d, c) BY DEF StoreSec
<1>2. UNCHANGED <<card, phase, warm>>
  BY <1>1 DEF WriteBlock, Lost, cardVars
<1>3. ASSUME Usable PROVE media' = [media EXCEPT ![card][s] = d]
  <2>1. Known /\ phase = "ready" BY <1>3 DEF Opened, Opening
  <2>2. Serves(Argument(s)) /\ SectorAt(Argument(s)) = s
    BY <1>3, <2>1, UsableServes
  <2>3. QED BY <1>1, <2>2 DEF WriteBlock
<1>4. QED BY <1>2, <1>3

LEMMA OpenQuiet ==
  ASSUME OneFlip, Types, Types', Undisturbed, ~Lost, card' = card, Faithful, Open
  PROVE  Faithful'
<1>1. /\ UNCHANGED <<card, media, buffer, cur_sec, request, mem>>
      /\ pc \in Opening /\ request = NoRequest
  BY OpenCounts DEF Types
<1>2. Usable' = Usable BY <1>1 DEF Usable
<1>3. pc' # "flush" /\ request'.op = "none"
  BY <1>1 DEF Open, GoIdle, SendIfCond, SendOpCond, ReadOcr, Goto, Return, NoRequest
<1>4. Served' BY <1>1, <1>2, <1>3 DEF Faithful, Served
<1>5. CASE GoIdle
  <2>1. UNCHANGED <<ccs, preclock_tweak, type, count, flip_count>> /\ pc = "cmd0"
    BY <1>5 DEF GoIdle, driver
  <2>2. \/ /\ pc' = "idle" /\ opened' # 0 /\ ~Usable
        \/ /\ card # NoCard /\ phase' = "idle" /\ warm' = card.warm
           /\ pc' = "cmd8" /\ opened' = opened
    <3>1. CASE flip_count > MaxFlips
      <4>1. ~(flip_count = 0) /\ ~(flip_count = 1)
        BY <3>1, DriverAssumption DEF OneFlip
      <4>2. ~Usable BY <1>1, <4>1 DEF Faithful, Places
      <4>3. QED BY <1>5, <3>1, <4>2 DEF GoIdle, Return
    <3>2. CASE ~(flip_count > MaxFlips)
      <4>1. PICK c \in Answers : /\ Cmd0(c)
                                 /\ CASE c < 0 -> Return(-1)
                                      [] c = IdleState -> Goto("cmd8")
                                      [] OTHER -> Return(-3)
        BY <1>5, <3>2 DEF GoIdle
      <4>2. CASE card = NoCard
        <5>1. c = -1 BY <4>1, <4>2 DEF Cmd0, NoAnswer
        <5>2. Return(-1) BY <4>1, <5>1 DEF IdleState
        <5>3. QED BY <4>2, <5>2 DEF Return, Usable
      <4>3. CASE card # NoCard
        <5>1. c = 1 /\ phase' = "idle" /\ warm' = card.warm
          BY <4>1, <4>3 DEF Cmd0, IdleState
        <5>2. Goto("cmd8") BY <4>1, <5>1 DEF IdleState
        <5>3. QED BY <4>3, <5>1, <5>2 DEF Goto
      <4>4. QED BY <4>2, <4>3
    <3>3. QED BY <3>1, <3>2
  <2>3. QED
    BY <1>1, <1>2, <1>4, <2>1, <2>2 DEF Faithful, Places, Opened, Opening, Objects, Known
<1>6. CASE SendIfCond
  <2>1. /\ UNCHANGED <<ccs, preclock_tweak, flip_count>>
        /\ pc = "cmd8" /\ count' = 0
    BY <1>6 DEF SendIfCond, driver
  <2>2. card # NoCard /\ phase = "idle" /\ warm = card.warm
    BY <2>1 DEF Faithful, Places
  <2>3. PICK c \in Answers, echo \in BOOLEAN :
          /\ Cmd8(c, echo)
          /\ \/ c >= 0 /\ c = Illegal /\ Goto("poll") /\ type' = 1
             \/ c >= 0 /\ c # Illegal /\ echo /\ Goto("poll") /\ type' = 2
             \/ /\ c < 0 \/ (c # Illegal /\ ~echo)
                /\ Return(-4)
                /\ UNCHANGED type
    BY <1>6 DEF SendIfCond
  <2>4. ~Silent BY <2>2 DEF Silent
  <2>5. /\ UNCHANGED cardVars
        /\ c = IF card.v2 THEN 1 ELSE 5
        /\ echo = (c = 1)
    BY <2>3, <2>4 DEF Cmd8, Illegal, IdleState
  <2>6. Goto("poll") /\ type' = IF card.v2 THEN 2 ELSE 1
    <3>1. CASE card.v2
      <4>1. c = 1 /\ echo BY <2>5, <3>1
      <4>2. QED BY <2>3, <3>1, <4>1 DEF Illegal
    <3>2. CASE ~card.v2
      <4>1. c = 5 BY <2>5, <3>2
      <4>2. QED BY <2>3, <3>2, <4>1 DEF Illegal
    <3>3. QED BY <3>1, <3>2
  <2>7. card.warm \in Nat
    BY <2>2, CardAssumption DEF Types, TypeOK, CardTypeOK
  <2>8. count' <= card.warm /\ warm' = card.warm - count'
    BY <2>1, <2>2, <2>5, <2>7 DEF cardVars
  <2>9. QED
    BY <1>1, <1>2, <1>4, <2>1, <2>2, <2>5, <2>6, <2>8
    DEF Faithful, Places, Opened, Opening, Objects, Known, Goto, cardVars
<1>7. CASE SendOpCond
  <2>1. /\ pc = "poll" /\ count' = count + 1 /\ UNCHANGED <<ccs, type>>
    BY <1>7 DEF SendOpCond
  <2>2. /\ card # NoCard /\ phase = "idle"
        /\ type = IF card.v2 THEN 2 ELSE 1
        /\ count <= card.warm /\ warm = card.warm - count
    BY <2>1 DEF Faithful, Places
  <2>3. /\ card.warm \in Nat /\ count \in Nat /\ MaxPolls \in Nat
        /\ card.clocks \in {"needs", "refuses", "any", "never"}
        /\ preclock_tweak \in BOOLEAN
        /\ card.hc => card.v2
    BY <2>2, CardAssumption, DriverAssumption DEF Types, TypeOK, CardTypeOK
  <2>4. PICK c \in Answers :
          /\ Poll(c, preclock_tweak)
          /\ \/ /\ GivesUp(count)
                /\ Return(-2)
                /\ UNCHANGED <<preclock_tweak, flip_count>>
             \/ /\ ~GivesUp(count) /\ c \in Flipped
                /\ preclock_tweak' = ~preclock_tweak
                /\ flip_count' = FlipCounted
                /\ Goto("cmd0")
             \/ /\ ~GivesUp(count) /\ c \notin Flipped
                /\ CASE c # 0 -> Goto("poll")
                     [] c = 0 /\ type = 1 -> Return(0)
                     [] OTHER -> Goto("ocr")
                /\ UNCHANGED <<preclock_tweak, flip_count>>
    BY <1>7 DEF SendOpCond
  <2>5. ~Silent BY <2>2 DEF Silent
  <2>6. CASE GivesUp(count)
    <3>1. ~Usable BY <2>2, <2>3, <2>6 DEF Usable, GivesUp
    <3>2. pc' = "idle" /\ opened' # 0 BY <2>4, <2>6 DEF Return
    <3>3. QED
      BY <1>1, <1>2, <1>4, <2>1, <3>1, <3>2 DEF Faithful, Places, Opened, Opening
  <2>7. CASE ~GivesUp(count) /\ c \in Flipped
    <3>1. preclock_tweak' = ~preclock_tweak /\ pc' = "cmd0" /\ opened' = opened
      BY <2>4, <2>7 DEF Goto
    <3>2. flip_count' = flip_count + 1 BY <2>4, <2>7 DEF FlipCounted
    <3>3. Objects(preclock_tweak)
      BY <2>4, <2>5, <2>7 DEF Poll, Flipped, NoAnswer, Illegal, IdleState
    <3>4. Usable => ~Objects(~preclock_tweak)
      BY <2>3, <3>3 DEF Usable, Objects
    <3>5. Usable => flip_count = 0
      BY <1>1, <3>3 DEF Faithful, Places
    <3>6. Usable => flip_count' = 1 /\ ~Objects(preclock_tweak)'
      <4>1. Objects(preclock_tweak)' = Objects(~preclock_tweak)
        BY <1>1, <3>1 DEF Objects
      <4>2. QED BY <3>2, <3>4, <3>5, <4>1
    <3>7. QED
      BY <1>1, <1>2, <1>4, <2>1, <3>1, <3>6 DEF Faithful, Places, Opened, Opening
  <2>8. CASE ~GivesUp(count) /\ c \notin Flipped
    <3>1. ~Objects(preclock_tweak)
      BY <2>4, <2>5, <2>8 DEF Poll, Flipped
    <3>2. /\ c = IF warm > 0 THEN 1 ELSE 0
          /\ phase' = IF warm > 0 THEN phase ELSE "ready"
          /\ warm' = IF warm > 0 THEN warm - 1 ELSE 0
      BY <2>4, <2>5, <3>1 DEF Poll, IdleState
    <3>3. UNCHANGED <<preclock_tweak, flip_count>> BY <2>4, <2>8
    <3>4. CASE warm > 0
      <4>1. c = 1 /\ phase' = "idle" /\ warm' = warm - 1 BY <2>2, <3>2, <3>4
      <4>2. Goto("poll") BY <2>4, <2>8, <4>1
      <4>3. count' <= card.warm /\ warm' = card.warm - count'
        BY <2>1, <2>2, <2>3, <3>4, <4>1
      <4>4. QED
        BY <1>1, <1>2, <1>4, <2>1, <2>2, <3>3, <4>1, <4>2, <4>3
        DEF Faithful, Places, Opened, Opening, Objects, Known, Goto
    <3>5. CASE ~(warm > 0)
      <4>1. c = 0 /\ phase' = "ready" BY <3>2, <3>5
      <4>2. count = card.warm BY <2>2, <2>3, <3>5
      <4>3. Usable
        <5>1. card.warm < MaxPolls BY <2>3, <2>8, <4>2 DEF GivesUp
        <5>2. card.clocks # "never" BY <3>1 DEF Objects
        <5>3. QED BY <2>2, <5>1, <5>2 DEF Usable
      <4>4. CASE type = 1
        <5>1. pc' = "idle" /\ opened' = 0 BY <2>4, <2>8, <4>1, <4>4 DEF Return
        <5>2. ~card.hc BY <2>2, <2>3, <4>4
        <5>3. Known' BY <1>1, <2>1, <2>2, <5>2 DEF Known, Faithful, Opened
        <5>4. QED
          BY <1>1, <1>2, <1>4, <2>1, <4>1, <4>3, <5>1, <5>3
          DEF Faithful, Places, Opened, Opening
      <4>5. CASE type # 1
        <5>1. pc' = "ocr" /\ opened' = opened BY <2>4, <2>8, <4>1, <4>5 DEF Goto
        <5>2. card.v2 BY <2>2, <4>5
        <5>3. QED
          BY <1>1, <1>2, <1>4, <2>1, <3>1, <3>3, <4>1, <4>3, <5>1, <5>2
          DEF Faithful, Places, Opened, Opening, Objects
      <4>6. QED BY <4>4, <4>5
    <3>6. QED BY <3>4, <3>5
  <2>9. QED BY <2>6, <2>7, <2>8
<1>8. CASE ReadOcr
  <2>1. pc = "ocr" /\ Usable /\ phase = "ready" /\ card.v2
    BY <1>8 DEF ReadOcr, Faithful, Places
  <2>2. PICK c \in Answers, hc \in BOOLEAN :
          /\ Ocr(c, hc)
          /\ IF OcrFails(c)
             THEN Return(-5) /\ UNCHANGED ccs
             ELSE Return(0) /\ ccs' = CapacityBit(hc)
    BY <1>8 DEF ReadOcr
  <2>3. ~Silent BY <2>1 DEF Silent, Usable
  <2>4. c = 0 /\ UNCHANGED cardVars /\ hc = (~Silent /\ card.hc)
    BY <2>2, <2>3 DEF Ocr
  <2>5. hc <=> card.hc BY <2>3, <2>4, Zenon
  <2>6. Return(0) /\ ccs' = CapacityBit(hc) BY <2>2, <2>4 DEF OcrFails
  <2>7. Known' BY <1>1, <2>1, <2>5, <2>6 DEF Known, CapacityBit, Usable
  <2>8. QED
    BY <1>1, <1>2, <1>4, <2>1, <2>4, <2>6, <2>7
    DEF Faithful, Places, Opened, Opening, Return, cardVars, Known
<1>9. QED BY <1>5, <1>6, <1>7, <1>8 DEF Open

LEMMA InitQuiet == ASSUME Init PROVE QuietInv
<1>1. Types BY InitTypes
<1>2. Places /\ Opened /\ Served
  BY DEF Init, CardInit, Places, Opened, Served, NoSector, NoRequest, Opening
<1>3. QED BY <1>1, <1>2 DEF QuietInv, Faithful

\* Fetches leave the driver as it is, and stores change what they name.
LEMMA StepQuiet == ASSUME OneFlip, QuietInv, [Next]_vars PROVE QuietInv'
<1>0. Types' BY StepTypes DEF QuietInv
<1> SUFFICES ASSUME Undisturbed' PROVE Faithful'
  BY <1>0 DEF QuietInv
<1>1. Types /\ Undisturbed /\ ~Lost /\ faults' = faults /\ faults' # faults - 1
      /\ card' = card /\ Faithful
  <2>1. faults \in Int
    BY CardAssumption DEF QuietInv, Types, TypeOK, CardTypeOK
  <2>2. QED BY <2>1, StaysQuiet DEF QuietInv
<1>2. Usable' = Usable BY <1>1 DEF Usable
<1> DEFINE Still == UNCHANGED <<ccs, preclock_tweak, type, count, flip_count, opened>>
<1>3. ASSUME Still, UNCHANGED <<phase, warm>>,
             pc \notin Opening, pc' \notin Opening
      PROVE  Places' /\ Opened'
  BY <1>1, <1>2, <1>3 DEF Faithful, Places, Opened, Opening, Known
<1>4. CASE Open BY <1>0, <1>1, <1>4, OpenQuiet
<1>5. CASE Reopen
  <2>1. /\ UNCHANGED <<cardVars, driver, opened>> /\ pc' = "cmd0"
        /\ flip_count' = 0 /\ request' = NoRequest
    BY <1>5 DEF Reopen
  <2>2. QED
    BY <1>1, <1>2, <2>1
    DEF Faithful, Places, Opened, Served, Opening, driver, cardVars, NoRequest
<1>6. ASSUME NEW s \in Sectors, Fetch(s) PROVE Faithful'
  <2>1. PICK code \in Codes : FetchSec(s, code) BY <1>6 DEF Fetch
  <2>2. Still /\ pc = "idle" /\ pc' = "idle" /\ request'.op = "none"
    BY <1>6 DEF Fetch, open, Monitor, NoRequest
  <2>3. /\ UNCHANGED <<card, phase, warm, media>> /\ cur_sec' = s
        /\ Usable => buffer' = media[card][s]
    BY <1>1, <2>1, <2>2, QuietFetch DEF Faithful
  <2>4. Places' /\ Opened' BY <1>3, <2>2, <2>3 DEF Opening
  <2>5. Served' BY <1>2, <2>2, <2>3 DEF Served
  <2>6. QED BY <2>4, <2>5 DEF Faithful
<1>7. ASSUME NEW s \in Sectors, Store(s) PROVE Faithful'
  <2>1. PICK code \in Codes : StoreSec(s, buffer, code) BY <1>7 DEF Store
  <2>2. /\ Still /\ pc = "idle" /\ pc' = "idle" /\ request'.op = "none"
        /\ UNCHANGED <<buffer, cur_sec>>
    BY <1>7 DEF Store, open, driver, Monitor, NoRequest
  <2>3. /\ UNCHANGED <<card, phase, warm>>
        /\ Usable => media' = [media EXCEPT ![card][s] = buffer]
    BY <1>1, <2>1, <2>2, QuietStore DEF Faithful
  <2>4. Places' /\ Opened' BY <1>3, <2>2, <2>3 DEF Opening
  <2>5. Usable /\ cur_sec # NoSector => buffer = media'[card][cur_sec]
    <3>1. ASSUME Usable, cur_sec # NoSector
          PROVE  card \in Cards /\ cur_sec \in Sectors /\ buffer = media[card][cur_sec]
                 /\ media \in [Cards -> [Sectors -> Sector]]
      BY <1>1, <3>1 DEF Types, TypeOK, CardTypeOK, Usable, Faithful, Served
    <3>2. QED BY <2>3, <3>1
  <2>6. Served' BY <1>2, <2>2, <2>3, <2>5 DEF Served
  <2>7. QED BY <2>4, <2>6 DEF Faithful
<1>8. ASSUME NEW s \in Sectors, NEW r \in Records, Read(s, r) PROVE Faithful'
  <2>1. PICK code \in Codes : FetchSec(s, code) BY <1>8 DEF Read
  <2>2. /\ Still /\ pc = "idle" /\ pc' = "idle" /\ mem' = buffer'[r]
        /\ request' = [op |-> "read", s |-> s, r |-> r]
    BY <1>8 DEF Read, open, Accepted
  <2>3. /\ UNCHANGED <<card, phase, warm, media>> /\ cur_sec' = s
        /\ Usable => buffer' = media[card][s]
    BY <1>1, <2>1, <2>2, QuietFetch DEF Faithful
  <2>4. Places' /\ Opened' BY <1>3, <2>2, <2>3 DEF Opening
  <2>5. Served' BY <1>2, <2>2, <2>3 DEF Served
  <2>6. QED BY <2>4, <2>5 DEF Faithful
<1>9. ASSUME NEW s \in Sectors, NEW r \in Records, WriteRefused(s, r)
      PROVE  Faithful'
  <2>1. PICK code \in Codes : FetchSec(s, code) BY <1>9 DEF WriteRefused
  <2>2. Still /\ pc = "idle" /\ pc' = "idle" /\ request'.op = "refused"
    BY <1>9 DEF WriteRefused, open, Accepted
  <2>3. /\ UNCHANGED <<card, phase, warm, media>> /\ cur_sec' = s
        /\ Usable => buffer' = media[card][s]
    BY <1>1, <2>1, <2>2, QuietFetch DEF Faithful
  <2>4. Places' /\ Opened' BY <1>3, <2>2, <2>3 DEF Opening
  <2>5. Served' BY <1>2, <2>2, <2>3 DEF Served
  <2>6. QED BY <2>4, <2>5 DEF Faithful
<1>10. ASSUME NEW s \in Sectors, NEW r \in Records, NEW v \in Values,
              WriteFetch(s, r, v)
       PROVE  Faithful'
  <2>1. PICK code \in Codes : FetchSec(s, code) BY <1>10 DEF WriteFetch
  <2>2. /\ Still /\ pc = "idle" /\ pc' = "flush"
        /\ request' = [op |-> "write", s |-> s, r |-> r]
    BY <1>10 DEF WriteFetch, Accepted
  <2>3. /\ UNCHANGED <<card, phase, warm, media>> /\ cur_sec' = s
        /\ Usable => buffer' = media[card][s]
    BY <1>1, <2>1, <2>2, QuietFetch DEF Faithful
  <2>4. Places' /\ Opened' BY <1>3, <2>2, <2>3 DEF Opening
  <2>5. Served' BY <1>2, <2>2, <2>3 DEF Served
  <2>6. QED BY <2>4, <2>5 DEF Faithful
<1>11. CASE WriteFlush
  <2>1. PICK code \in Codes : StoreSec(cur_sec, buffer', code)
    BY <1>11 DEF WriteFlush
  <2>2. /\ Still /\ pc = "flush" /\ pc' = "idle"
        /\ UNCHANGED <<cur_sec, request>>
    BY <1>11 DEF WriteFlush
  <2>3. /\ request.op = "write" /\ cur_sec = request.s /\ cur_sec \in Sectors
    BY <1>1, <2>2 DEF Faithful, Served, Types, TypeOK
  <2>4. /\ UNCHANGED <<card, phase, warm>>
        /\ Usable => media' = [media EXCEPT ![card][cur_sec] = buffer']
    BY <1>1, <2>1, <2>2, <2>3, QuietStore DEF Faithful
  <2>5. Places' /\ Opened' BY <1>3, <2>2, <2>4 DEF Opening
  <2>6. Usable => buffer' = media'[card][cur_sec]
    <3>1. ASSUME Usable
          PROVE  card \in Cards /\ media \in [Cards -> [Sectors -> Sector]]
      BY <1>1, <3>1 DEF Types, TypeOK, CardTypeOK, Usable
    <3>2. QED BY <2>3, <2>4, <3>1
  <2>7. Served' BY <1>2, <2>2, <2>3, <2>4, <2>6 DEF Served
  <2>8. QED BY <2>5, <2>7 DEF Faithful
<1>12. CASE Protect \/ UNCHANGED vars
  <2>1. /\ Still /\ UNCHANGED <<pc, phase, warm, media, buffer, cur_sec, request>>
        /\ mem' = mem
    BY <1>12 DEF Protect, vars, cardVars, driver, open, guest, history, others
  <2>2. QED
    BY <1>1, <1>2, <2>1 DEF Faithful, Places, Opened, Served, Opening, Known, Objects
<1>13. ASSUME NEW c \in Cards \cup {NoCard}, ExchangeCard(c) PROVE Faithful'
  BY <1>1, <1>13 DEF ExchangeCard, Exchange
<1>14. QED
  BY <1>4, <1>5, <1>6, <1>7, <1>8, <1>9, <1>10, <1>11, <1>12, <1>13 DEF Next

LEMMA QuietAlways == ASSUME OneFlip PROVE Spec => []QuietInv
<1>1. Init => QuietInv BY InitQuiet
<1>2. QuietInv /\ [Next]_vars => QuietInv' BY StepQuiet
<1>3. QED BY <1>1, <1>2, PTL DEF Spec

\* While the line loses nothing, sdcard_open() succeeds for exactly the cards
\* that are ready within its polls and that one of its two settings of the
\* pre-clock tweak suits, whatever the tweak was left at.
THEOREM OpeningIsExact == ASSUME OneFlip PROVE Spec => []OpenFindsCard
<1>1. ASSUME QuietInv PROVE OpenFindsCard
  <2>1. ASSUME Done, Undisturbed
        PROVE  opened = 0 <=> card \in Fit /\ card.warm < MaxPolls
    <3>1. Usable <=> card \in Fit /\ card.warm < MaxPolls
      BY <1>1, CardAssumption
      DEF QuietInv, Types, TypeOK, CardTypeOK, Usable, Fit
    <3>2. opened = 0 <=> Usable
      BY <1>1, <2>1 DEF QuietInv, Faithful, Opened, Done, Opening
    <3>3. QED BY <3>1, <3>2
  <2>2. QED BY <2>1 DEF OpenFindsCard
<1>2. QED BY <1>1, QuietAlways, PTL

\* While the line loses nothing and the card stays, what the guest reads from
\* an open card is its record of that card.
THEOREM ReadsAreRecords == ASSUME OneFlip PROVE Spec => []ReadIsRecord
<1>1. QuietInv => ReadIsRecord
  BY DEF QuietInv, Faithful, Opened, Served, ReadIsRecord, Done
<1>2. QED BY <1>1, QuietAlways, PTL

\* While the line loses nothing, the flush of a sector writes back what was
\* read from it, at its place: only the guest's record changes.
THEOREM OtherRecordsKept == ASSUME OneFlip PROVE Spec => OthersKept
<1> DEFINE Kept == \A c \in Cards, s \in Sectors, r \in Records :
       Undisturbed' /\ opened = 0 /\ media'[c][s][r] # media[c][s][r] =>
         stores' # stores \/ WritesOnly(c, s, r)
<1>1. ASSUME QuietInv, [Next]_vars PROVE Kept
  <2> SUFFICES ASSUME Undisturbed', opened = 0,
                      NEW c \in Cards, NEW s \in Sectors, NEW r \in Records,
                      media'[c][s][r] # media[c][s][r], stores' = stores
               PROVE  WritesOnly(c, s, r)
    OBVIOUS
  <2>1. Types /\ Undisturbed /\ ~Lost /\ faults' # faults - 1 /\ Faithful
    <3>1. faults \in Int
      BY <1>1, CardAssumption DEF QuietInv, Types, TypeOK, CardTypeOK
    <3>2. QED BY <1>1, <3>1, StaysQuiet DEF QuietInv
  <2>2. Usable BY <2>1 DEF Faithful, Opened
  <2>3. CASE WriteFlush
    <3>1. PICK code \in Codes : StoreSec(cur_sec, buffer', code)
      BY <2>3 DEF WriteFlush
    <3>2. pc = "flush" /\ buffer' = [buffer EXCEPT ![request.r] = mem]
      BY <2>3 DEF WriteFlush
    <3>3. cur_sec = request.s /\ cur_sec \in Sectors /\ cur_sec # NoSector
      BY <2>1, <3>2, CardAssumption DEF Faithful, Served, Types, TypeOK, NoSector
    <3>4. media' = [media EXCEPT ![card][cur_sec] = buffer']
      BY <2>1, <2>2, <3>1, <3>2, <3>3, QuietStore DEF Faithful
    <3>5. /\ card \in Cards /\ media \in [Cards -> [Sectors -> Sector]]
          /\ buffer \in Sector /\ buffer = media[card][cur_sec]
      BY <2>1, <2>2, <3>3 DEF Types, TypeOK, CardTypeOK, Usable, Faithful, Served
    <3>6. c = card /\ s = cur_sec BY <3>3, <3>4, <3>5
    <3>7. buffer'[r] # buffer[r] BY <3>3, <3>4, <3>5, <3>6
    <3>8. r = request.r BY <3>2, <3>5, <3>7 DEF Sector
    <3>9. QED BY <3>2, <3>3, <3>6, <3>8 DEF WritesOnly
  <2>4. CASE ~WriteFlush
    <3>1. media' = media
      <4>1. CASE Open BY <4>1, OpenCounts
      <4>2. CASE Reopen \/ Protect \/ UNCHANGED vars
        BY <4>2 DEF Reopen, Protect, vars, cardVars
      <4>3. ASSUME NEW t \in Sectors, Fetch(t) PROVE media' = media
        BY <4>3, CommandKeeps DEF Fetch, FetchSec, cardVars
      <4>4. ASSUME NEW t \in Sectors, Store(t) PROVE FALSE
        <5>1. stores \in Int /\ stores' = stores + 1
          BY <2>1, <4>4, DriverAssumption DEF Store, Types, TypeOK
        <5>2. QED BY <5>1
      <4>5. ASSUME NEW t \in Sectors, NEW k \in Records,
                   \/ Read(t, k) \/ WriteRefused(t, k)
                   \/ \E v \in Values : WriteFetch(t, k, v)
            PROVE  media' = media
        <5>1. PICK code \in Codes : FetchSec(t, code)
          BY <4>5 DEF Read, WriteRefused, WriteFetch
        <5>2. QED BY <5>1, CommandKeeps DEF FetchSec, cardVars
      <4>6. ASSUME NEW e \in Cards \cup {NoCard}, ExchangeCard(e)
            PROVE  media' = media
        BY <4>6 DEF ExchangeCard, Exchange
      <4>7. QED BY <1>1, <2>4, <4>1, <4>2, <4>3, <4>4, <4>5, <4>6 DEF Next
    <3>2. QED BY <3>1
  <2>5. QED BY <2>3, <2>4
<1>2. [][QuietInv /\ [Next]_vars => Kept]_vars
  BY <1>1, PTL
<1>3. QED BY <1>1, QuietAlways, PTL DEF Spec, OthersKept
-----------------------------------------------------------------------------
(* The AVR's driver.                                                        *)

\* What its sdcard_open() has found out at each command, and what the guest
\* has read.
AvrTypes ==
  /\ avrCard \in AvrCards \cup {NoCard} /\ avrFaults = 0 /\ avrCcs \in {0, 1}
  /\ avrPc \in {"idle", "flush", "cmd0", "cmd8", "cmd1", "acmd41", "ocr"}
  /\ avrPhase \in {"off", "idle", "ready"}
AvrPlaces ==
  /\ avrPc \in {"cmd8", "cmd1", "acmd41"} => avrCard # NoCard /\ avrPhase = "idle"
  /\ avrPc = "cmd1" => ~avrCard.v2
  /\ avrPc = "ocr" => avrCard # NoCard /\ avrPhase = "ready"
  /\ avrPc # "idle" => avrRequest.op # "read"
AvrOpened ==
  avrPc \in {"idle", "flush"} =>
    /\ avrRc = 0 <=> avrCard # NoCard
    /\ avrCard # NoCard => avrPhase = "ready" /\ (avrCcs = 1 <=> avrCard.hc)
AvrRead ==
  avrPc = "idle" /\ avrRequest.op = "read" /\ avrCard # NoCard =>
    avrMem = avrMedia[avrCard][avrRequest.s][avrRequest.r]
AvrInv == AvrTypes /\ AvrPlaces /\ AvrOpened /\ AvrRead

LEMMA AvrNotLost == ASSUME avrFaults = 0 PROVE ~Avr!Lost
  BY DEF Avr!Lost

LEMMA AvrFetch ==
  ASSUME AvrInv, avrPc = "idle", NEW s \in Sectors, Avr!FetchSec(s)
  PROVE  /\ UNCHANGED <<avrCard, avrPhase, avrMedia, avrFaults>>
         /\ avrCard # NoCard => avrBuffer' = avrMedia[avrCard][s]
<1>1. PICK c \in Avr!Answers :
        /\ Avr!ReadBlock(Avr!Argument(s), c)
        /\ avrBuffer' = IF c = 0 THEN Avr!BlockAt(Avr!Argument(s)) ELSE avrBuffer
  BY DEF Avr!FetchSec
<1>2. UNCHANGED <<avrCard, avrPhase, avrMedia, avrFaults>>
      /\ (Avr!Serves(Avr!Argument(s)) => c = 0)
  BY <1>1, AvrNotLost
  DEF Avr!ReadBlock, Avr!cardVars, Avr!Serves, Avr!Silent, AvrInv, AvrTypes
<1>3. ASSUME avrCard # NoCard
      PROVE  Avr!Serves(Avr!Argument(s)) /\ Avr!SectorAt(Avr!Argument(s)) = s
  <2>1. /\ avrPhase = "ready" /\ (avrCcs = 1 <=> avrCard.hc)
        /\ avrCcs \in {0, 1}
    BY <1>3 DEF AvrInv, AvrTypes, AvrOpened
  <2>2. ASSUME NEW t \in Sectors, t * SectorBytes = s * SectorBytes PROVE t = s
    <3>1. t \in Nat /\ s \in Nat /\ SectorBytes \in Nat \ {0} BY CardAssumption
    <3>2. QED BY <2>2, <3>1, Z3
  <2>3. Avr!Addressed(Avr!Argument(s)) = {s}
    <3>1. CASE avrCard.hc
      <4>1. Avr!Argument(s) = s BY <2>1, <3>1 DEF Avr!Argument
      <4>2. QED BY <3>1, <4>1 DEF Avr!Addressed
    <3>2. CASE ~avrCard.hc
      <4>1. Avr!Argument(s) = s * SectorBytes BY <2>1, <3>2 DEF Avr!Argument
      <4>2. Avr!Addressed(Avr!Argument(s)) =
              {t \in Sectors : s * SectorBytes = t * SectorBytes}
        BY <3>2, <4>1 DEF Avr!Addressed
      <4>3. QED BY <2>2, <4>2
    <3>3. QED BY <3>1, <3>2
  <2>4. QED BY <1>3, <2>1, <2>3 DEF Avr!Serves, Avr!SectorAt
<1>4. QED BY <1>1, <1>2, <1>3 DEF Avr!BlockAt

LEMMA AvrOpens ==
  ASSUME AvrInv, Avr!Open
  PROVE  AvrInv'
<1> USE AvrNotLost DEF AvrInv, AvrTypes
<1>1. CASE Avr!GoIdle
  <2>1. PICK c \in Avr!Answers :
          /\ Avr!Cmd0(c)
          /\ IF c = 1 THEN Avr!Goto("cmd8") ELSE Avr!Return(-1)
    BY <1>1 DEF Avr!GoIdle, Avr!IdleState
  <2>2. UNCHANGED <<avrCcs, avrMedia, avrMem, avrRequest>>
        /\ UNCHANGED <<avrCard, avrFaults>> /\ avrPc = "cmd0"
    BY <1>1, <2>1 DEF Avr!GoIdle, Avr!driver, Avr!guest, Avr!Cmd0, Avr!cardVars
  <2>3. CASE avrCard = NoCard
    <3>1. c = -1 /\ avrPhase' = avrPhase
      BY <2>1, <2>3 DEF Avr!Cmd0, Avr!NoAnswer, Avr!cardVars
    <3>2. Avr!Return(-1) BY <2>1, <3>1
    <3>3. QED
      BY <2>2, <2>3, <3>1, <3>2 DEF Avr!Return, AvrPlaces, AvrOpened, AvrRead
  <2>4. CASE avrCard # NoCard
    <3>1. c = 1 /\ avrPhase' = "idle"
      BY <2>1, <2>4 DEF Avr!Cmd0, Avr!IdleState
    <3>2. Avr!Goto("cmd8") BY <2>1, <3>1
    <3>3. QED
      BY <2>2, <2>4, <3>1, <3>2 DEF Avr!Goto, AvrPlaces, AvrOpened, AvrRead
  <2>5. QED BY <2>3, <2>4
<1>2. CASE Avr!SendIfCond
  <2>1. /\ UNCHANGED <<avrCcs, avrMem, avrRequest>> /\ avrPc = "cmd8"
        /\ avrCard # NoCard /\ avrPhase = "idle"
    BY <1>2 DEF Avr!SendIfCond, Avr!driver, Avr!guest, AvrPlaces
  <2>2. PICK c \in Avr!Answers, echo \in BOOLEAN :
          /\ Avr!Cmd8(c, echo)
          /\ Avr!Goto(IF echo THEN "acmd41" ELSE "cmd1")
    BY <1>2 DEF Avr!SendIfCond
  <2>3. UNCHANGED Avr!cardVars /\ (avrCard.v2 => echo)
    BY <2>1, <2>2 DEF Avr!Cmd8, Avr!Silent, Avr!IdleState
  <2>4. CASE echo
    <3>1. avrPc' = "acmd41" BY <2>2, <2>4 DEF Avr!Goto
    <3>2. QED
      BY <2>1, <2>3, <3>1 DEF Avr!cardVars, AvrPlaces, AvrOpened, AvrRead
  <2>5. CASE ~echo
    <3>1. avrPc' = "cmd1" BY <2>2, <2>5 DEF Avr!Goto
    <3>2. QED
      BY <2>1, <2>3, <2>5, <3>1 DEF Avr!cardVars, AvrPlaces, AvrOpened, AvrRead
  <2>6. QED BY <2>4, <2>5
<1>3. CASE Avr!SendOpCond \/ Avr!AppOpCond
  <2>1. /\ UNCHANGED <<avrMem, avrRequest>> /\ avrPc \in {"cmd1", "acmd41"}
        /\ avrCard # NoCard /\ avrPhase = "idle"
    BY <1>3 DEF Avr!SendOpCond, Avr!AppOpCond, Avr!driver, Avr!guest, AvrPlaces
  <2>2. PICK c \in Avr!Answers :
          /\ Avr!Poll(c, FALSE)
          /\ \/ /\ avrPc = "cmd1"
                /\ CASE c = 0 -> Avr!Return(0) /\ avrCcs' = 0
                     [] c = -1 -> Avr!Return(-2) /\ UNCHANGED avrCcs
                     [] OTHER -> Avr!Goto("cmd1") /\ UNCHANGED avrCcs
             \/ /\ avrPc = "acmd41" /\ UNCHANGED avrCcs
                /\ Avr!Goto(IF c = 0 THEN "ocr" ELSE "acmd41")
    BY <1>3 DEF Avr!SendOpCond, Avr!AppOpCond, Avr!NoAnswer, Avr!Ready, Avr!driver
  <2>3. /\ UNCHANGED <<avrCard, avrMedia, avrFaults>>
        /\ \/ c = 0 /\ avrPhase' = "ready"
           \/ c \in {1, 5} /\ avrPhase' = "idle"
    <3>1. ~Avr!Silent BY <2>1 DEF Avr!Silent
    <3>2. CASE Avr!Objects(FALSE)
      BY <2>1, <2>2, <3>1, <3>2 DEF Avr!Poll, Avr!Illegal, Avr!cardVars
    <3>3. CASE ~Avr!Objects(FALSE)
      BY <2>1, <2>2, <3>1, <3>3 DEF Avr!Poll, Avr!IdleState
    <3>4. QED BY <3>2, <3>3
  <2>4. CASE avrPc = "cmd1"
    <3>1. ~avrCard.v2 /\ ~avrCard.hc
      BY <2>1, <2>4, AvrAssumption DEF AvrPlaces, Avr!CardAssumption
    <3>2. CASE c = 0
      <4>1. avrPc' = "idle" /\ avrRc' = 0 /\ avrCcs' = 0 /\ avrPhase' = "ready"
        BY <2>2, <2>3, <2>4, <3>2 DEF Avr!Return
      <4>2. QED
        BY <2>1, <2>3, <3>1, <4>1 DEF AvrPlaces, AvrOpened, AvrRead
    <3>3. CASE c # 0
      <4>1. c \in {1, 5} /\ avrPhase' = "idle" BY <2>3, <3>3
      <4>2. avrPc' = "cmd1" /\ UNCHANGED avrCcs BY <2>2, <2>4, <4>1 DEF Avr!Goto
      <4>3. QED
        BY <2>1, <2>3, <3>1, <4>1, <4>2 DEF AvrPlaces, AvrOpened, AvrRead
    <3>4. QED BY <3>2, <3>3
  <2>5. CASE avrPc = "acmd41"
    <3>1. UNCHANGED avrCcs
          /\ avrPc' = (IF c = 0 THEN "ocr" ELSE "acmd41")
      BY <2>2, <2>5 DEF Avr!Goto
    <3>2. QED BY <2>1, <2>3, <3>1 DEF AvrPlaces, AvrOpened, AvrRead
  <2>6. QED BY <2>1, <2>4, <2>5
<1>4. CASE Avr!ReadOcr
  <2>1. /\ UNCHANGED <<avrMem, avrRequest>> /\ avrPc = "ocr"
        /\ avrCard # NoCard /\ avrPhase = "ready"
        /\ avrPc' = "idle" /\ avrRc' = 0
    BY <1>4 DEF Avr!ReadOcr, Avr!guest, Avr!Return, AvrPlaces
  <2>2. PICK c \in Avr!Answers, hc \in BOOLEAN :
          Avr!Ocr(c, hc) /\ avrCcs' = Avr!CapacityBit(c, hc)
    BY <1>4 DEF Avr!ReadOcr
  <2>3. ~Avr!Silent BY <2>1 DEF Avr!Silent
  <2>4. c = 0 /\ UNCHANGED Avr!cardVars /\ hc = (~Avr!Silent /\ avrCard.hc)
    BY <2>2, <2>3 DEF Avr!Ocr
  <2>5. hc <=> avrCard.hc BY <2>3, <2>4, Zenon
  <2>6. avrCcs' = IF hc THEN 1 ELSE 0
    BY <2>2, <2>4 DEF Avr!CapacityBit, Avr!NoAnswer
  <2>7. QED
    BY <2>1, <2>4, <2>5, <2>6 DEF Avr!cardVars, AvrPlaces, AvrOpened, AvrRead
<1>5. QED BY <1>1, <1>2, <1>3, <1>4 DEF Avr!Open

LEMMA AvrStep == ASSUME AvrInv, [Avr!Next]_Avr!vars PROVE AvrInv'
<1>1. CASE Avr!Open BY <1>1, AvrOpens
<1>2. CASE Avr!Reopen
  BY <1>2 DEF Avr!Reopen, Avr!cardVars, Avr!driver, Avr!NoRequest,
     AvrInv, AvrTypes, AvrPlaces, AvrOpened, AvrRead
<1>3. ASSUME NEW s \in Sectors, NEW r \in Records, Avr!Read(s, r) PROVE AvrInv'
  <2>1. /\ Avr!FetchSec(s) /\ avrPc = "idle" /\ UNCHANGED <<avrCcs, avrPc, avrRc>>
        /\ avrMem' = avrBuffer'[r]
        /\ avrRequest' = [op |-> "read", s |-> s, r |-> r]
    BY <1>3 DEF Avr!Read
  <2>2. /\ UNCHANGED <<avrCard, avrPhase, avrMedia, avrFaults>>
        /\ avrCard # NoCard => avrBuffer' = avrMedia[avrCard][s]
    BY <2>1, AvrFetch
  <2>3. QED
    BY <2>1, <2>2 DEF AvrInv, AvrTypes, AvrPlaces, AvrOpened, AvrRead
<1>4. ASSUME NEW s \in Sectors, NEW r \in Records, NEW v \in Values,
             Avr!WriteFetch(s, r, v)
      PROVE  AvrInv'
  <2>1. /\ Avr!FetchSec(s) /\ avrPc = "idle" /\ avrPc' = "flush"
        /\ UNCHANGED <<avrCcs, avrRc>>
        /\ avrRequest' = [op |-> "write", s |-> s, r |-> r]
    BY <1>4 DEF Avr!WriteFetch
  <2>2. UNCHANGED <<avrCard, avrPhase, avrMedia, avrFaults>>
    BY <2>1, AvrFetch
  <2>3. QED
    BY <2>1, <2>2 DEF AvrInv, AvrTypes, AvrPlaces, AvrOpened, AvrRead
<1>5. CASE Avr!WriteFlush
  <2>1. /\ avrPc = "flush" /\ avrPc' = "idle"
        /\ UNCHANGED <<avrCcs, avrRc, avrRequest>>
    BY <1>5 DEF Avr!WriteFlush
  <2>2. PICK code \in {0, -1} : Avr!StoreSec(Avr!FlushSector, avrBuffer', code)
    BY <1>5 DEF Avr!WriteFlush
  <2>3. PICK c : Avr!WriteBlock(Avr!Argument(Avr!FlushSector), avrBuffer', c)
    BY <2>2 DEF Avr!StoreSec
  <2>4. UNCHANGED <<avrCard, avrPhase, avrFaults>>
    BY <2>3 DEF Avr!WriteBlock, Avr!Lost, Avr!cardVars, AvrInv, AvrTypes
  <2>5. QED
    BY <2>1, <2>4 DEF AvrInv, AvrTypes, AvrPlaces, AvrOpened, AvrRead
<1>6. CASE UNCHANGED Avr!vars
  BY <1>6 DEF Avr!vars, Avr!cardVars, Avr!driver, Avr!guest,
     AvrInv, AvrTypes, AvrPlaces, AvrOpened, AvrRead
<1>7. QED BY <1>1, <1>2, <1>3, <1>4, <1>5, <1>6 DEF Avr!Next

LEMMA AvrAlways == Avr!Init /\ [][Avr!Next]_Avr!vars => []AvrInv
<1>1. Avr!Init => AvrInv
  BY DEF Avr!Init, Avr!CardInit, Avr!NoRequest, AvrInv, AvrTypes, AvrPlaces,
     AvrOpened, AvrRead
<1>2. AvrInv /\ [Avr!Next]_Avr!vars => AvrInv' BY AvrStep
<1>3. QED BY <1>1, <1>2, PTL

\* By either driver, sdcard_open() finds the cards that are there and only those:
\* on the Pico while its line loses nothing, on the AVR for a card that stays.
THEOREM CardsAreFound == ASSUME OneFlip PROVE DriversSpec => []OpeningFinds
<1>1. AvrInv => Avr!OpenFindsCard
  BY DEF AvrInv, AvrTypes, AvrOpened, Avr!OpenFindsCard
<1>2. OpenFindsCard /\ Avr!OpenFindsCard => OpeningFinds BY DEF OpeningFinds
<1>3. QED BY <1>1, <1>2, AvrAlways, OpeningIsExact, PTL DEF DriversSpec

\* By either driver, what the guest reads from an open card is its record,
\* whatever the unit of the card's addresses.
THEOREM ReadingIsOfTheCard ==
  ASSUME OneFlip PROVE DriversSpec => []ReadingIsRight
<1>1. AvrInv => Avr!ReadIsRecord
  BY DEF AvrInv, AvrTypes, AvrOpened, AvrRead, Avr!ReadIsRecord
<1>2. ReadIsRecord /\ Avr!ReadIsRecord => ReadingIsRight BY DEF ReadingIsRight
<1>3. QED BY <1>1, <1>2, AvrAlways, ReadsAreRecords, PTL DEF DriversSpec
=============================================================================
