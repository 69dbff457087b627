-------------------------- MODULE FlashDiskProofs --------------------------
(***************************************************************************)
(* Proofs about FlashDisk for every geometry, every request set within the *)
(* disk area and every initial contents of the flash.                      *)
(***************************************************************************)
EXTENDS FlashDisk, ModArith, TLAPS

\* The record's place in its block plus the block's place in its sector is
\* the record's place in the sector (out() and sdcard_fetch() agree).
LEMMA PlaceOf ==
  ASSUME NEW pos \in Nat
  PROVE  /\ SlotOf(pos) = pos % RecordsPerSector /\ SlotOf(pos) \in Slots
         /\ SectorOf(pos) = pos \div RecordsPerSector
<1> USE GeometryAssumption
<1> DEFINE B == RecordsPerBlock
           R == RecordsPerSector
           k == R \div B
           p == pos \div R
           u == pos % R
           v == u \div B
           w == u % B
<1>1. R = k * B /\ k \in Int
  OBVIOUS
<1>2. pos = R * p + u /\ u \in 0 .. R - 1 /\ p \in Int
  OBVIOUS
<1>3. u = B * v + w /\ w \in 0 .. B - 1 /\ v \in Int
  BY <1>2
<1> HIDE DEF k, p, u, v, w
<1>4. pos = B * (k * p + v) + w
  <2>1. ASSUME NEW a \in Int, NEW b \in Int, NEW c \in Int, NEW d \in Int
        PROVE  (a * b) * c + b * d = b * (a * c + d)
    OBVIOUS
  <2>2. pos = (k * B) * p + B * v + w
    BY <1>1, <1>2, <1>3
  <2>3. QED BY <2>1, <2>2, <1>1, <1>2, <1>3
<1>5. pos % B = w
  <2>1. k * p + v \in Int
    BY <1>1, <1>2, <1>3
  <2>2. QED BY <2>1, <1>3, <1>4, RemainderUnique
<1>6. BlockOf(pos) = R * p + B * v
  BY <1>2, <1>3, <1>5 DEF BlockOf
<1>7. B * v \in 0 .. R - 1
  BY <1>3, <1>2
<1>8. BlockOf(pos) % R = B * v
  <2>1. R \in Nat \ {0} /\ p \in Int
    BY <1>2
  <2>2. ASSUME NEW q \in 0 .. R - 1 PROVE (R * p + q) % R = q
    BY <2>1, RemainderUnique
  <2>3. QED BY <1>6, <1>7, <2>2
<1>9. SlotOf(pos) = u
  BY <1>8, <1>5, <1>3 DEF SlotOf
<1>10. SectorOf(pos) = p
  <2>1. R \in Nat \ {0} /\ p \in Int
    BY <1>2
  <2>2. ASSUME NEW q \in 0 .. R - 1 PROVE (R * p + q) \div R = p
    BY <2>1, QuotientUnique
  <2>3. QED BY <1>6, <1>7, <2>2 DEF SectorOf
<1>11. QED BY <1>9, <1>10, <1>2 DEF Slots, u, p

\* The guest's requests name records of flash sectors.
LEMMA RequestRange ==
  ASSUME NEW pos \in Requests
  PROVE  pos \in Nat /\ SectorOf(pos) \in Sectors /\ SlotOf(pos) \in Slots
<1>1. ASSUME NEW x \in Int PROVE x % PosSpan \in Nat
  BY GeometryAssumption
<1>2. PICK d \in Drives \cap {DriveA, DriveI}, t \in Tracks, s \in Sects :
        pos = Position(d, t, s)
  BY DEF Requests
<1>3. t \in Nat /\ s \in Nat
  BY <1>2, RequestAssumption
<1>4. t * SectorsA + s - 1 \in Int /\ t * SectorsI + s - 1 \in Int
  BY <1>3, GeometryAssumption
<1>5. pos \in Nat
  BY <1>1, <1>2, <1>4, GeometryAssumption DEF Position
<1>6. QED BY <1>5, RequestAssumption, PlaceOf

\* The records an upload writes, and the blocks boot() reads, lie in front of
\* the sector of the settings.
LEMMA DiskRange ==
  ASSUME NEW n \in Nat, n < DiskRecords
  PROVE  /\ n \div RecordsPerSector \in DiskSectors
         /\ n % RecordsPerSector \in Slots
<1>1. n < EepromSector * RecordsPerSector /\ EepromSector \in Nat
  BY GeometryAssumption DEF EepromSector
<1>2. /\ n \div RecordsPerSector \in 0 .. EepromSector - 1
      /\ n % RecordsPerSector \in 0 .. RecordsPerSector - 1
  BY <1>1, DivRange, GeometryAssumption
<1>3. QED BY <1>2, <1>1 DEF DiskSectors, Sectors, EepromSector, Slots

LEMMA BootRange == LastBootSector \in DiskSectors
<1> DEFINE n == (BootBlocks - 1) * RecordsPerBlock
<1>1. n \in Nat /\ n < DiskRecords
  BY GeometryAssumption
<1>2. QED BY <1>1, DiskRange DEF LastBootSector

LEMMA EepromRange == EepromSector \in Sectors /\ Sectors \subseteq Int /\ -1 \notin Sectors
  BY GeometryAssumption DEF EepromSector, Sectors

LEMMA DiskImageType ==
  ASSUME NEW f \in [Sectors -> Sector]
  PROVE  DiskImage(f) \in [0 .. DiskRecords - 1 -> Data]
<1>1. ASSUME NEW n \in 0 .. DiskRecords - 1
      PROVE  f[n \div RecordsPerSector][n % RecordsPerSector] \in Data
  <2>1. n \in Nat /\ n < DiskRecords
    BY GeometryAssumption
  <2>2. /\ n \div RecordsPerSector \in Sectors
        /\ n % RecordsPerSector \in Slots
    BY <2>1, DiskRange DEF DiskSectors
  <2>3. QED BY <2>2 DEF Sector
<1>2. QED BY <1>1 DEF DiskImage

LEMMA StoredEepromType ==
  ASSUME NEW f \in [Sectors -> Sector]
  PROVE  StoredEeprom(f) \in EepromImage
  BY EepromRange, GeometryAssumption
     DEF StoredEeprom, EepromImage, Sector, Slots
-----------------------------------------------------------------------------
(* Type correctness.                                                        *)

\* What the cache operations yield in a well-typed state.
LEMMA CacheType ==
  ASSUME TypeOK
  PROVE  /\ Flushed \in [Sectors -> Sector]
         /\ DirtyAfterFlush \in BOOLEAN
         /\ \A s \in Sectors : FetchedBuffer(s) \in Sector
  BY DEF TypeOK, Flushed, Programmed, DirtyAfterFlush, FetchedBuffer, Sector

LEMMA ZeroType == [i \in Slots |-> Zero] \in Sector /\ 0 \in 0 .. DiskRecords
  BY RequestAssumption, GeometryAssumption DEF Sector

LEMMA RamLostType ==
  ASSUME flash' \in [Sectors -> Sector], RamLost
  PROVE  TypeOK'
<1>1. eeprom' \in EepromImage /\ trespassed' = FALSE
  BY StoredEepromType DEF RamLost
<1>2. buffer' \in Sector /\ xr_len' \in 0 .. DiskRecords
  BY ZeroType DEF RamLost
<1>3. QED BY <1>1, <1>2 DEF RamLost, TypeOK

LEMMA InitType == ASSUME Init PROVE TypeOK
<1>1. flash \in [Sectors -> Sector]
  BY RequestAssumption DEF Init
<1>2. eeprom \in EepromImage
  BY <1>1, StoredEepromType DEF Init
<1>3. buffer \in Sector /\ xr_len \in 0 .. DiskRecords
  BY ZeroType DEF Init
<1>4. QED BY <1>1, <1>2, <1>3 DEF Init, TypeOK

LEMMA GuestType == ASSUME TypeOK, GuestNext PROVE TypeOK'
<1> USE CacheType
<1>1. ASSUME NEW d \in Drives, SelectDrive(d) PROVE TypeOK'
  BY <1>1 DEF SelectDrive, TypeOK, upload, settings
<1>2. ASSUME NEW t \in Tracks, SetTrack(t) PROVE TypeOK'
  BY <1>2 DEF SetTrack, TypeOK, upload, cache, settings
<1>3. ASSUME NEW s \in Sects, SetSect(s) PROVE TypeOK'
  BY <1>3 DEF SetSect, TypeOK, upload, cache, settings
<1>4. ASSUME NEW v \in Data, GuestFill(v) PROVE TypeOK'
  BY <1>4 DEF GuestFill, TypeOK, upload, cache, ports, settings
<1>5. CASE DiskRead
  BY <1>5, RequestRange DEF DiskRead, OnDisk, Fetch, TypeOK, upload, settings, Sector
<1>6. CASE DiskWrite
  BY <1>6, RequestRange DEF DiskWrite, OnDisk, Fetch, TypeOK, upload, settings, Sector
<1>7. CASE DiskRefuse
  BY <1>7, RequestRange DEF DiskRefuse, OnDisk, Fetch, TypeOK, upload, settings
<1>8. CASE NoSuchDrive
  BY <1>8 DEF NoSuchDrive, TypeOK, upload, cache, settings
<1>9. CASE Halt
  BY <1>9 DEF Halt, TypeOK, upload, cache, ports, settings
<1>10. QED
  BY <1>1, <1>2, <1>3, <1>4, <1>5, <1>6, <1>7, <1>8, <1>9 DEF GuestNext

LEMMA MonitorType == ASSUME TypeOK, MonitorNext PROVE TypeOK'
<1>1. CASE Boot
  BY <1>1, CacheType, BootRange
     DEF Boot, Fetch, TypeOK, upload, ports, settings, DiskSectors
<1>2. ASSUME NEW on \in BOOLEAN, WriteProtect(on) PROVE TypeOK'
  BY <1>2 DEF WriteProtect, TypeOK, upload, cache, ports, settings
<1>3. ASSUME NEW i \in 0 .. EepromRecords - 1, NEW v \in Data, EepromWrite(i, v)
      PROVE  TypeOK'
  <2>1. eeprom' \in EepromImage
    BY <1>3 DEF EepromWrite, TypeOK, EepromImage
  <2>2. ASSUME NEW j \in Slots, j < EepromRecords PROVE eeprom'[j] \in Data
    BY <2>1, <2>2, GeometryAssumption DEF EepromImage, Slots
  <2>3. [j \in Slots |-> IF j < EepromRecords THEN eeprom'[j]
                         ELSE flash[EepromSector][j]] \in Sector
    BY <2>2, EepromRange DEF TypeOK, Sector
  <2>4. flash' \in [Sectors -> Sector]
    BY <2>3, <1>3 DEF EepromWrite, TypeOK
  <2>5. QED
    BY <2>1, <2>4, <1>3 DEF EepromWrite, TypeOK, upload, cache, ports, settings
<1>4. CASE XrStart
  BY <1>4, GeometryAssumption DEF XrStart, TypeOK, cache, ports, settings
<1>5. QED BY <1>1, <1>2, <1>3, <1>4 DEF MonitorNext

LEMMA XrType == ASSUME TypeOK, XrNext PROVE TypeOK'
<1>1. ASSUME NEW n \in Slots \cup {RecordsPerSector}, n > 0,
             NEW data \in [1 .. n -> Data], XrWrite(n, data)
      PROVE  TypeOK'
  <2> DEFINE s == xr_len \div RecordsPerSector
             i == xr_len % RecordsPerSector
             f == IF dirty_flag /\ cur_sector >= 0 /\ cur_sector # s
                  THEN Programmed ELSE flash
             b == IF cur_sector # s THEN f[s] ELSE buffer
  <2>1. n \in Nat /\ xr_len \in Nat /\ xr_len + n \in 0 .. DiskRecords
    BY <1>1, GeometryAssumption DEF XrWrite, FitsImage, TypeOK, Slots
  <2>2. s \in Sectors /\ i \in Slots
    <3>1. xr_len < DiskRecords
      BY <2>1, <1>1, GeometryAssumption
    <3>2. QED BY <3>1, <2>1, DiskRange DEF DiskSectors
  <2>3. f \in [Sectors -> Sector]
    BY <2>2, EepromRange DEF TypeOK, Programmed
  <2>4. b \in Sector
    BY <2>2, <2>3 DEF TypeOK
  <2> HIDE DEF s, f, b, i
  <2>5. [j \in Slots |-> IF j \in i .. i + n - 1 THEN data[j - i + 1]
                         ELSE b[j]] \in Sector
    <3>1. ASSUME NEW j \in Slots, j \in i .. i + n - 1
          PROVE  data[j - i + 1] \in Data
      BY <3>1, <2>1, <2>2 DEF Slots
    <3>2. QED BY <3>1, <2>4 DEF Sector
  <2>6. /\ flash' = f /\ cur_sector' = s /\ dirty_flag' = TRUE
        /\ xr_len' = xr_len + n
        /\ buffer' = [j \in Slots |-> IF j \in i .. i + n - 1
                                      THEN data[j - i + 1] ELSE b[j]]
    BY <1>1 DEF XrWrite, FitsImage, s, f, b, i
  <2>7. QED
    BY <1>1, <2>1, <2>2, <2>3, <2>5, <2>6 DEF XrWrite, TypeOK, ports, settings
<1>2. CASE XrReceived
  BY <1>2, DiskImageType DEF XrReceived, TypeOK, cache, ports, settings
<1>3. CASE XrEnd
  BY <1>3, GeometryAssumption DEF XrEnd, EndFlashWrite, Programmed, TypeOK, ports, settings, NoCrc
<1>4. QED BY <1>1, <1>2, <1>3 DEF XrNext

LEMMA FailureType ==
  ASSUME TypeOK,
         Restart \/ \E k \in 0 .. RecordsPerSector : PowerLossInFlush(k)
  PROVE  TypeOK'
<1>1. CASE Restart
  BY <1>1, RamLostType DEF Restart, TypeOK
<1>2. ASSUME NEW k \in 0 .. RecordsPerSector, PowerLossInFlush(k) PROVE TypeOK'
  BY <1>2, RamLostType, RequestAssumption DEF PowerLossInFlush, TypeOK, Sector
<1>3. QED BY <1>1, <1>2

\* Every variable of the flash disk keeps its type in every reachable state:
\* in particular every access to flash and buffer is in range.
THEOREM TypeCorrect == Spec => []TypeOK
<1>1. Init => TypeOK
  BY InitType
<1>2. TypeOK /\ [Next]_vars => TypeOK'
  <2>1. ASSUME TypeOK, Next PROVE TypeOK'
    BY <2>1, GuestType, MonitorType, XrType, FailureType DEF Next
  <2>2. ASSUME TypeOK, UNCHANGED vars PROVE TypeOK'
    BY <2>2 DEF vars, cache, ports, upload, settings, TypeOK
  <2>3. QED BY <2>1, <2>2
<1>3. QED BY <1>1, <1>2, PTL DEF Spec
-----------------------------------------------------------------------------
(* Coherence of the cache, and the settings.                                *)

\* The settings are safe because, until the guest writes into their sector, a
\* copy of it in the buffer is clean, and a clean buffer is never written.
NoneAtRisk == ~trespassed => ~(dirty_flag /\ cur_sector = EepromSector)
IInv == TypeOK /\ BufferCoherent /\ SettingsKept /\ NoneAtRisk

\* The contents b and c of the sector s agree, but for the settings.
Agree(s, b, c) == \A i \in Slots : b[i] = c[i] \/ HoldsSettings(s, i)

LEMMA EepromSlots ==
  ASSUME NEW i \in 0 .. EepromRecords - 1
  PROVE  i \in Slots
  BY GeometryAssumption DEF Slots

\* A change of other sectors leaves the stored settings alone.
LEMMA EepromKept ==
  ASSUME NEW f, NEW g, f[EepromSector] = g[EepromSector]
  PROVE  StoredEeprom(f) = StoredEeprom(g)
  BY DEF StoredEeprom

\* Steps that keep the settings in the RAM and in the flash.
LEMMA SettingsStay ==
  ASSUME IInv, eeprom' = eeprom, trespassed => trespassed',
         ~trespassed' => flash'[EepromSector] = flash[EepromSector]
  PROVE  SettingsKept'
<1>1. SUFFICES ASSUME ~trespassed' PROVE eeprom' = StoredEeprom(flash')
  BY DEF SettingsKept
<1>2. ~trespassed /\ StoredEeprom(flash') = StoredEeprom(flash)
  BY <1>1, EepromKept
<1>3. QED BY <1>2 DEF IInv, SettingsKept

LEMMA AgreeWhole ==
  ASSUME NEW s, NEW b
  PROVE  Agree(s, b, b)
  BY DEF Agree

\* Flushing and fetching keep the cache coherent and the settings unchanged.
LEMMA FetchKeepsInv ==
  ASSUME IInv
  PROVE  /\ ~trespassed => Flushed[EepromSector] = flash[EepromSector]
         /\ ~DirtyAfterFlush
         /\ cur_sector # -1 => Agree(cur_sector, buffer, Flushed[cur_sector])
         /\ \A s \in Sectors : Agree(s, FetchedBuffer(s), Flushed[s])
<1>1. /\ cur_sector \in Sectors \cup {-1} /\ dirty_flag \in BOOLEAN
      /\ flash = [s \in Sectors |-> flash[s]]
      /\ dirty_flag => cur_sector # -1
  BY DEF IInv, TypeOK, BufferCoherent
<1>2. cur_sector # -1 => Agree(cur_sector, buffer, Flushed[cur_sector])
  <2>1. CASE dirty_flag
    <3>1. cur_sector # -1 => Flushed[cur_sector] = buffer
      BY <1>1, <2>1 DEF Flushed, Programmed
    <3>2. QED BY <3>1, AgreeWhole
  <2>2. CASE ~dirty_flag
    BY <2>2 DEF Flushed, IInv, BufferCoherent, Agree
  <2>3. QED BY <2>1, <2>2
<1>3. ~trespassed => Flushed[EepromSector] = flash[EepromSector]
  BY <1>1, EepromRange DEF Flushed, Programmed, IInv, NoneAtRisk
<1>4. ASSUME NEW s \in Sectors PROVE Agree(s, FetchedBuffer(s), Flushed[s])
  <2>1. CASE cur_sector # s
    BY <2>1, AgreeWhole DEF FetchedBuffer
  <2>2. CASE cur_sector = s
    BY <1>2, <2>2, EepromRange DEF FetchedBuffer
  <2>3. QED BY <2>1, <2>2
<1>5. ~DirtyAfterFlush
  BY <1>1 DEF DirtyAfterFlush
<1>6. QED BY <1>2, <1>3, <1>4, <1>5

LEMMA InitInv == ASSUME Init PROVE IInv
<1>1. cur_sector = -1 /\ dirty_flag = FALSE /\ SettingsKept
  BY DEF Init, SettingsKept
<1>2. QED BY <1>1, InitType DEF IInv, BufferCoherent, NoneAtRisk

LEMMA RamLostInv ==
  ASSUME flash' \in [Sectors -> Sector], RamLost
  PROVE  IInv'
<1>1. cur_sector' = -1 /\ dirty_flag' = FALSE /\ SettingsKept'
  BY DEF RamLost, SettingsKept
<1>2. QED BY <1>1, RamLostType DEF IInv, BufferCoherent, NoneAtRisk

\* Steps that end with the sector s cached and clean, or dirty.
LEMMA FetchInv ==
  ASSUME IInv, TypeOK', NEW s \in Sectors, Fetch(s), eeprom' = eeprom,
         dirty_flag' \/ buffer' = FetchedBuffer(s),
         trespassed => trespassed',
         dirty_flag' /\ s = EepromSector => trespassed'
  PROVE  IInv'
<1>1. flash' = Flushed /\ cur_sector' = s /\ s # -1
  BY EepromRange DEF Fetch
<1>2. SettingsKept'
  BY <1>1, FetchKeepsInv, SettingsStay
<1>3. NoneAtRisk'
  BY <1>1 DEF NoneAtRisk
<1>4. BufferCoherent'
  <2>1. dirty_flag' => cur_sector' # -1
    BY <1>1
  <2>2. ASSUME ~dirty_flag', NEW i \in Slots
        PROVE  buffer'[i] = flash'[cur_sector'][i] \/ HoldsSettings(cur_sector', i)
    BY <1>1, <2>2, FetchKeepsInv DEF Agree
  <2>3. QED BY <2>1, <2>2 DEF BufferCoherent
<1>5. QED BY <1>2, <1>3, <1>4 DEF IInv

\* Steps that leave the flash, the cache and the settings alone.
LEMMA StillInv ==
  ASSUME IInv, TypeOK', UNCHANGED <<flash, cache, settings>>
  PROVE  IInv'
<1>1. UNCHANGED <<flash, buffer, cur_sector, dirty_flag, eeprom, trespassed>>
  BY DEF cache, settings
<1>2. QED BY <1>1 DEF BufferCoherent, SettingsKept, NoneAtRisk, IInv

LEMMA GuestInv == ASSUME IInv, GuestNext PROVE IInv'
<1>1. TypeOK'
  BY GuestType DEF IInv
<1>2. ASSUME NEW d \in Drives, SelectDrive(d) PROVE IInv'
  <2>1. /\ flash' = Flushed /\ buffer' = buffer /\ ~dirty_flag'
        /\ UNCHANGED <<eeprom, trespassed>>
        /\ cur_sector' = -1 \/ cur_sector' = cur_sector
    BY <1>2, FetchKeepsInv DEF SelectDrive, settings
  <2>2. SettingsKept'
    BY <2>1, FetchKeepsInv, SettingsStay
  <2>3. BufferCoherent'
    BY <2>1, FetchKeepsInv DEF BufferCoherent, Agree
  <2>4. QED BY <1>1, <2>1, <2>2, <2>3 DEF IInv, NoneAtRisk
<1>3. ASSUME NEW t \in Tracks, SetTrack(t) PROVE UNCHANGED <<flash, cache, settings>>
  BY <1>3 DEF SetTrack
<1>4. ASSUME NEW s \in Sects, SetSect(s) PROVE UNCHANGED <<flash, cache, settings>>
  BY <1>4 DEF SetSect
<1>5. ASSUME NEW v \in Data, GuestFill(v) PROVE UNCHANGED <<flash, cache, settings>>
  BY <1>5 DEF GuestFill
<1>6. ASSUME NoSuchDrive \/ Halt PROVE UNCHANGED <<flash, cache, settings>>
  BY <1>6 DEF NoSuchDrive, Halt
<1>7. ASSUME DiskRead \/ DiskRefuse PROVE IInv'
  <2>1. SectorOf(Request) \in Sectors
    BY <1>7, RequestRange DEF DiskRead, DiskRefuse, OnDisk
  <2>2. /\ Fetch(SectorOf(Request)) /\ eeprom' = eeprom /\ trespassed' = trespassed
        /\ buffer' = FetchedBuffer(SectorOf(Request)) /\ ~dirty_flag'
    BY <1>7, FetchKeepsInv DEF DiskRead, DiskRefuse, settings
  <2>3. QED BY <1>1, <2>1, <2>2, FetchInv
<1>8. CASE DiskWrite
  <2>1. SectorOf(Request) \in Sectors
    BY <1>8, RequestRange DEF DiskWrite, OnDisk
  <2>2. /\ Fetch(SectorOf(Request)) /\ eeprom' = eeprom /\ dirty_flag'
        /\ trespassed' = (trespassed \/ SectorOf(Request) = EepromSector)
    BY <1>8 DEF DiskWrite
  <2>3. QED BY <1>1, <2>1, <2>2, FetchInv
<1>9. QED
  BY <1>1, <1>2, <1>3, <1>4, <1>5, <1>6, <1>7, <1>8, StillInv DEF GuestNext

LEMMA MonitorInv == ASSUME IInv, MonitorNext PROVE IInv'
<1>1. TypeOK'
  BY MonitorType DEF IInv
<1>2. CASE Boot
  <2>1. /\ Fetch(LastBootSector) /\ ~dirty_flag'
        /\ buffer' = FetchedBuffer(LastBootSector)
        /\ UNCHANGED <<eeprom, trespassed>> /\ LastBootSector \in Sectors
    BY <1>2, FetchKeepsInv, BootRange DEF Boot, settings, DiskSectors
  <2>2. QED BY <1>1, <2>1, FetchInv
<1>3. ASSUME NEW on \in BOOLEAN, WriteProtect(on)
      PROVE  UNCHANGED <<flash, cache, settings>>
  BY <1>3 DEF WriteProtect
<1>4. CASE XrStart
  BY <1>1, <1>4, StillInv DEF XrStart
<1>5. ASSUME NEW i \in 0 .. EepromRecords - 1, NEW v \in Data, EepromWrite(i, v)
      PROVE  IInv'
  <2>1. /\ UNCHANGED <<buffer, cur_sector, dirty_flag, trespassed>>
        /\ \A s \in DiskSectors : flash'[s] = flash[s]
    BY <1>5 DEF EepromWrite, DiskSectors, IInv, TypeOK, cache
  <2>2. \A j \in Slots : flash'[EepromSector][j] = IF j < EepromRecords THEN eeprom'[j]
                                                   ELSE flash[EepromSector][j]
    BY <1>5, EepromRange DEF EepromWrite, IInv, TypeOK
  <2>3. \A s \in Sectors : Agree(s, flash'[s], flash[s])
    BY <2>1, <2>2 DEF Agree, HoldsSettings, DiskSectors
  <2>4. BufferCoherent'
    <3>1. cur_sector \in Sectors \cup {-1}
      BY DEF IInv, TypeOK
    <3>2. QED BY <2>1, <2>3, <3>1 DEF BufferCoherent, IInv, Agree
  <2>5. \A j \in 0 .. EepromRecords - 1 : flash'[EepromSector][j] = eeprom'[j]
    BY <2>2, EepromSlots, GeometryAssumption
  <2>6. SettingsKept'
    BY <2>5, <1>1 DEF SettingsKept, StoredEeprom, TypeOK, EepromImage
  <2>7. QED BY <1>1, <2>1, <2>4, <2>6 DEF IInv, NoneAtRisk
<1>6. QED BY <1>1, <1>2, <1>3, <1>4, <1>5, StillInv DEF MonitorNext

\* flash_disk_write() and end_flash_write() write the buffer to its sector or
\* nothing.
LEMMA WrittenKeepsSettings ==
  ASSUME IInv, eeprom' = eeprom, trespassed' = trespassed,
         \/ flash' = flash
         \/ dirty_flag /\ flash' = [flash EXCEPT ![cur_sector] = buffer]
  PROVE  SettingsKept'
<1>1. ~trespassed => flash'[EepromSector] = flash[EepromSector]
  BY EepromRange DEF IInv, TypeOK, NoneAtRisk
<1>2. QED BY <1>1, SettingsStay

\* The iteration's sector, and what it finds and leaves.
LEMMA XrWritten ==
  ASSUME IInv, NEW n \in Slots \cup {RecordsPerSector}, n > 0,
         NEW data \in [1 .. n -> Data], XrWrite(n, data)
  PROVE  \E s \in DiskSectors :
           /\ cur_sector' = s /\ dirty_flag' = TRUE
           /\ flash' = IF dirty_flag /\ cur_sector # s THEN Programmed ELSE flash
           /\ UNCHANGED <<eeprom, trespassed, drive, track, sect, disk_err, mem>>
<1> DEFINE s == xr_len \div RecordsPerSector
<1>1. xr_len \in Nat /\ xr_len < DiskRecords
  BY GeometryAssumption DEF XrWrite, FitsImage, IInv, TypeOK, Slots
<1>2. s \in DiskSectors
  BY <1>1, DiskRange
<1>3. dirty_flag => cur_sector >= 0
  BY DEF IInv, TypeOK, BufferCoherent, Sectors
<1>4. QED BY <1>2, <1>3 DEF XrWrite, settings, ports

LEMMA XrInv == ASSUME IInv, XrNext PROVE IInv'
<1>1. TypeOK'
  BY XrType DEF IInv
<1>2. ASSUME NEW n \in Slots \cup {RecordsPerSector}, n > 0,
             NEW data \in [1 .. n -> Data], XrWrite(n, data)
      PROVE  IInv'
  <2>1. PICK s \in DiskSectors :
           /\ cur_sector' = s /\ dirty_flag' = TRUE
           /\ flash' = IF dirty_flag /\ cur_sector # s THEN Programmed ELSE flash
           /\ UNCHANGED <<eeprom, trespassed>>
    BY <1>2, XrWritten
  <2>2. SettingsKept'
    BY <2>1, WrittenKeepsSettings DEF Programmed
  <2>3. s # -1 /\ s # EepromSector
    BY EepromRange DEF DiskSectors
  <2>4. QED BY <1>1, <2>1, <2>2, <2>3 DEF IInv, BufferCoherent, NoneAtRisk
<1>3. CASE XrReceived
  BY <1>1, <1>3, StillInv DEF XrReceived
<1>4. CASE XrEnd
  <2>1. dirty_flag => cur_sector >= 0
    BY DEF IInv, TypeOK, BufferCoherent, Sectors
  <2>2. /\ UNCHANGED <<eeprom, trespassed, buffer, cur_sector>> /\ ~dirty_flag'
        /\ flash' = IF dirty_flag THEN [flash EXCEPT ![cur_sector] = buffer] ELSE flash
    <3>1. dirty_flag => ~(cur_sector < 0)
      BY <2>1 DEF IInv, TypeOK, Sectors
    <3>2. UNCHANGED <<eeprom, trespassed, buffer, cur_sector>> /\ ~dirty_flag'
      BY <1>4, <3>1 DEF XrEnd, settings
    <3>3. flash' = IF dirty_flag THEN [flash EXCEPT ![cur_sector] = buffer] ELSE flash
      BY <1>4, <2>1 DEF XrEnd, EndFlashWrite, Programmed
    <3>4. QED BY <3>2, <3>3
  <2>3. SettingsKept'
    BY <2>2, WrittenKeepsSettings
  <2>4. dirty_flag /\ cur_sector \in Sectors => flash'[cur_sector] = buffer
    BY <2>2 DEF IInv, TypeOK
  <2>5. BufferCoherent'
    <3>1. CASE dirty_flag
      <4>1. cur_sector' # -1 => buffer' = flash'[cur_sector']
        BY <2>1, <2>2, <2>4, <3>1 DEF IInv, TypeOK
      <4>2. QED BY <4>1, <2>2 DEF BufferCoherent
    <3>2. CASE ~dirty_flag
      BY <2>2, <3>2 DEF IInv, BufferCoherent
    <3>3. QED BY <3>1, <3>2 DEF IInv, TypeOK
  <2>6. QED BY <1>1, <2>2, <2>3, <2>5 DEF IInv, NoneAtRisk
<1>5. QED BY <1>2, <1>3, <1>4 DEF XrNext

LEMMA FailureInv ==
  ASSUME IInv,
         Restart \/ \E k \in 0 .. RecordsPerSector : PowerLossInFlush(k)
  PROVE  IInv'
<1>1. CASE Restart
  BY <1>1, RamLostInv DEF Restart, IInv, TypeOK
<1>2. ASSUME NEW k \in 0 .. RecordsPerSector, PowerLossInFlush(k) PROVE IInv'
  BY <1>2, RamLostInv, RequestAssumption
     DEF PowerLossInFlush, IInv, TypeOK, Sector
<1>3. QED BY <1>1, <1>2

LEMMA StepInv == ASSUME IInv, [Next]_vars PROVE IInv'
<1>1. CASE Next
  BY <1>1, GuestInv, MonitorInv, XrInv, FailureInv DEF Next
<1>2. CASE UNCHANGED vars
  <2>1. TypeOK'
    BY <1>2 DEF vars, cache, ports, upload, settings, IInv, TypeOK
  <2>2. QED BY <1>2, <2>1, StillInv DEF vars
<1>3. QED BY <1>1, <1>2

THEOREM InvHolds == Spec => []IInv
<1>1. Init => IInv
  BY InitInv
<1>2. IInv /\ [Next]_vars => IInv'
  BY StepInv
<1>3. QED BY <1>1, <1>2, PTL DEF Spec

\* A clean buffer always equals its flash sector, the settings excepted, and no
\* dirty buffer is without one, for every geometry and every request set in
\* the area, that of drive I in the settings' sector included.
THEOREM CacheCoherent == Spec => []BufferCoherent
<1>1. IInv => BufferCoherent
  BY DEF IInv
<1>2. QED BY InvHolds, <1>1, PTL

\* Neither uploads, boots, resets nor a power loss in a flush change the
\* settings in the flash, nor do disk commands before the guest writes into
\* their sector: reading it, and having it in the buffer while the settings
\* are rewritten, puts no old copy of them back.
THEOREM SettingsSafe == Spec => []SettingsKept
<1>1. IInv => SettingsKept
  BY DEF IInv
<1>2. QED BY InvHolds, <1>1, PTL
-----------------------------------------------------------------------------
(* The cached disk implements the disk that GuestDisk specifies.            *)

Image == View(LogicalFlash)
Stable == View(flash)
AtRisk == IF dirty_flag THEN cur_sector ELSE -1

\* The place of a record in the flash.
Row(pos) == pos \div RecordsPerSector
Col(pos) == pos % RecordsPerSector

LEMMA PlaceRange ==
  ASSUME NEW pos \in DiskRecordNumbers
  PROVE  /\ pos \in Nat /\ Row(pos) \in Sectors /\ Col(pos) \in Slots
         /\ ~HoldsSettings(Row(pos), Col(pos))
<1>1. /\ pos \in 0 .. AreaSectors * RecordsPerSector - 1
      /\ ~HoldsSettings(pos \div RecordsPerSector, pos % RecordsPerSector)
  BY DEF DiskRecordNumbers
<1>2. pos \in Nat /\ pos < AreaSectors * RecordsPerSector
  BY <1>1, GeometryAssumption
<1>3. /\ pos \div RecordsPerSector \in 0 .. AreaSectors - 1
      /\ pos % RecordsPerSector \in 0 .. RecordsPerSector - 1
  BY <1>2, DivRange, GeometryAssumption
<1>4. QED BY <1>1, <1>2, <1>3 DEF Row, Col, Sectors, Slots

LEMMA PlaceUnique ==
  ASSUME NEW p \in Nat, NEW q \in Nat, Row(p) = Row(q), Col(p) = Col(q)
  PROVE  p = q
<1>1. ASSUME NEW x \in Nat
      PROVE  x = RecordsPerSector * (x \div RecordsPerSector) + (x % RecordsPerSector)
  BY GeometryAssumption
<1>2. QED BY <1>1 DEF Row, Col

\* Two records of the guest's disks never share a place in the flash, so a
\* write of one never changes the other.
THEOREM NoAliasing ==
  ASSUME NEW p \in Requests, NEW q \in Requests,
         SectorOf(p) = SectorOf(q), SlotOf(p) = SlotOf(q)
  PROVE  p = q
<1>1. p \in Nat /\ q \in Nat
  BY RequestRange
<1>2. Row(p) = Row(q) /\ Col(p) = Col(q)
  BY <1>1, PlaceOf DEF Row, Col
<1>3. QED BY <1>1, <1>2, PlaceUnique

\* Every sector in front of that of the settings holds records of the disk.
LEMMA SectorNamed ==
  ASSUME NEW s \in DiskSectors
  PROVE  s \in GD!Sectors
<1> DEFINE pos == s * RecordsPerSector
<1> USE GeometryAssumption
<1>1. s \in 0 .. AreaSectors - 2 /\ s # EepromSector
  BY DEF DiskSectors, Sectors, EepromSector
<1>2. pos \div RecordsPerSector = s
  <2>1. pos = RecordsPerSector * s + 0 /\ 0 \in 0 .. RecordsPerSector - 1 /\ s \in Int
    BY <1>1
  <2>2. QED BY <2>1, QuotientUnique
<1>3. pos \in 0 .. AreaSectors * RecordsPerSector - 1
  <2>1. PICK d \in Nat \ {0} : AreaSectors = s + d
    <3>1. AreaSectors - s \in Nat \ {0} /\ AreaSectors = s + (AreaSectors - s)
      BY <1>1
    <3>2. QED BY <3>1
  <2>2. ASSUME NEW x \in Nat, NEW y \in Nat \ {0}, NEW z \in Nat \ {0}
        PROVE  x * z \in Nat /\ y * z \in Nat \ {0}
    OBVIOUS
  <2>3. ASSUME NEW x \in Int, NEW y \in Int, NEW z \in Int
        PROVE  (x + y) * z = x * z + y * z
    OBVIOUS
  <2>4. AreaSectors * RecordsPerSector = pos + d * RecordsPerSector
    BY <1>1, <2>1, <2>3
  <2>5. pos \in Nat /\ d * RecordsPerSector \in Nat \ {0}
    BY <1>1, <2>1, <2>2
  <2> HIDE DEF pos
  <2>6. QED BY <2>4, <2>5
<1>4. pos \in DiskRecordNumbers
  BY <1>1, <1>2, <1>3 DEF DiskRecordNumbers, HoldsSettings
<1>5. QED BY <1>2, <1>4 DEF GD!Sectors

LEMMA PositionNat ==
  ASSUME NEW d, NEW t \in Nat, NEW s \in Nat
  PROVE  Position(d, t, s) \in Nat
<1>1. ASSUME NEW x \in Int PROVE x % PosSpan \in Nat
  BY GeometryAssumption
<1>2. t * SectorsA + s - 1 \in Int /\ t * SectorsI + s - 1 \in Int
  BY GeometryAssumption
<1>3. ((t * SectorsI + s - 1) % PosSpan) + DiskRecords \in Int
  BY <1>1, <1>2, GeometryAssumption
<1>4. QED BY <1>1, <1>2, <1>3 DEF Position

LEMMA RequestNat ==
  /\ TypeOK => Request \in Nat
  /\ TypeOK' => Request' \in Nat
<1>1. TypeOK => track \in Nat /\ sect \in Nat
  BY RequestAssumption DEF TypeOK
<1>2. TypeOK' => track' \in Nat /\ sect' \in Nat
  BY RequestAssumption DEF TypeOK
<1>3. QED BY <1>1, <1>2, PositionNat DEF Request

\* What the two disks hold in a record.
LEMMA ViewAt ==
  ASSUME NEW f, NEW pos \in DiskRecordNumbers
  PROVE  View(f)[pos] = f[Row(pos)][Col(pos)]
  BY DEF View, Row, Col

LEMMA ViewIs ==
  ASSUME NEW f
  PROVE  View(f) = [pos \in DiskRecordNumbers |-> View(f)[pos]]
  BY DEF View

LEMMA ViewSame ==
  ASSUME NEW f, NEW g, \A s \in Sectors : Agree(s, f[s], g[s])
  PROVE  View(f) = View(g)
<1>1. ASSUME NEW pos \in DiskRecordNumbers PROVE View(f)[pos] = View(g)[pos]
  BY PlaceRange, ViewAt DEF Agree
<1>2. QED BY <1>1, ViewIs

LEMMA ImageAt ==
  ASSUME NEW pos \in DiskRecordNumbers
  PROVE  /\ Image[pos] = Logical(Row(pos))[Col(pos)]
         /\ Image'[pos] = (Logical(Row(pos)))'[Col(pos)]
<1>1. Row(pos) \in Sectors
  BY PlaceRange
<1>2. Image[pos] = LogicalFlash[Row(pos)][Col(pos)]
  BY ViewAt DEF Image
<1>3. Image'[pos] = LogicalFlash'[Row(pos)][Col(pos)]
  BY ViewAt DEF Image
<1>4. QED BY <1>1, <1>2, <1>3 DEF LogicalFlash

LEMMA ImageIs == Image' = [pos \in DiskRecordNumbers |-> Image'[pos]]
  BY ViewIs DEF Image

LEMMA ImageSame ==
  ASSUME \A s \in Sectors : Agree(s, Logical(s)', Logical(s))
  PROVE  Image' = Image
<1>1. \A s \in Sectors : Agree(s, LogicalFlash'[s], LogicalFlash[s])
  BY DEF LogicalFlash
<1>2. QED BY <1>1, ViewSame DEF Image

\* Flushing makes the flash the logical disk, and fetching leaves it so.
LEMMA FlushedIsImage ==
  ASSUME IInv
  PROVE  /\ \A s \in Sectors : Agree(s, Flushed[s], Logical(s))
         /\ \A s \in Sectors : Agree(s, FetchedBuffer(s), Logical(s))
         /\ View(Flushed) = Image
<1>1. ASSUME NEW s \in Sectors PROVE Agree(s, Flushed[s], Logical(s))
  <2>1. CASE s = cur_sector
    BY <2>1, FetchKeepsInv, EepromRange DEF Logical, Agree
  <2>2. CASE s # cur_sector
    <3>1. Flushed[s] = flash[s] /\ Logical(s) = flash[s]
      BY <2>2 DEF Flushed, Programmed, Logical, IInv, TypeOK
    <3>2. QED BY <3>1, AgreeWhole
  <2>3. QED BY <2>1, <2>2
<1>2. ASSUME NEW s \in Sectors PROVE Agree(s, FetchedBuffer(s), Logical(s))
  BY <1>1, FetchKeepsInv DEF Agree
<1>3. View(Flushed) = Image
  <2>1. \A s \in Sectors : Agree(s, Flushed[s], LogicalFlash[s])
    BY <1>1 DEF LogicalFlash
  <2>2. QED BY <2>1, ViewSame DEF Image
<1>4. QED BY <1>1, <1>2, <1>3

LEMMA RefineInit == ASSUME Init PROVE GD!Init
<1>1. TypeOK /\ cur_sector = -1 /\ dirty_flag = FALSE
  BY InitType DEF Init
<1>2. ASSUME NEW s \in Sectors PROVE Agree(s, LogicalFlash[s], flash[s])
  <2>1. LogicalFlash[s] = flash[s]
    BY <1>1, EepromRange DEF Logical, LogicalFlash
  <2>2. QED BY <2>1, AgreeWhole
<1>3. Image = Stable
  BY <1>2, ViewSame DEF Image, Stable
<1>4. Stable \in GD!Disk
  <2>1. ASSUME NEW pos \in DiskRecordNumbers PROVE flash[Row(pos)][Col(pos)] \in Data
    BY <1>1, PlaceRange DEF TypeOK, Sector
  <2>2. QED BY <2>1, ViewAt, ViewIs DEF Stable, GD!Disk
<1>5. Request \in Nat /\ mem \in Data /\ AtRisk = -1
  BY <1>1, RequestNat DEF TypeOK, AtRisk
<1>6. QED
  BY <1>3, <1>4, <1>5 DEF GD!Init, GD!NoSector, Image, Stable, AtRisk

\* A step that flushes and caches a sector, unchanged but for the settings.
LEMMA RefineFetch ==
  ASSUME IInv, NEW s \in Sectors, Fetch(s), ~dirty_flag',
         buffer' = FetchedBuffer(s)
  PROVE  Image' = Image /\ Stable' = Image /\ AtRisk' = -1
<1>1. flash' = Flushed /\ cur_sector' = s
  BY DEF Fetch
<1>2. Stable' = Image
  BY <1>1, FlushedIsImage DEF Stable
<1>3. \A x \in Sectors : Agree(x, Logical(x)', Logical(x))
  BY <1>1, FlushedIsImage DEF Logical
<1>4. QED BY <1>2, <1>3, ImageSame DEF AtRisk

\* Steps that neither the logical nor the stored disk notices.
LEMMA RefineStill ==
  ASSUME UNCHANGED <<flash, cache>>
  PROVE  Image' = Image /\ Stable' = Stable /\ AtRisk' = AtRisk
  BY DEF cache, Image, Stable, AtRisk, LogicalFlash, Logical

LEMMA RefineIdle ==
  ASSUME UNCHANGED <<flash, cache, ports, mem>>
  PROVE  UNCHANGED GD!vars
<1>1. Request' = Request /\ mem' = mem
  BY DEF ports, Request
<1>2. QED BY <1>1, RefineStill DEF GD!vars, Image, Stable, AtRisk

\* Steps that synchronise and do no more.
LEMMA RefineSync ==
  ASSUME Image' = Image, Stable' = Image, AtRisk' = -1, mem' = mem, TypeOK'
  PROVE  GD!SyncOnly
  BY RequestNat
     DEF GD!SyncOnly, GD!Sync, GD!NoSector, Image, Stable, AtRisk

LEMMA RefineSelect ==
  ASSUME IInv, NEW d \in Drives, SelectDrive(d)
  PROVE  GD!SyncOnly
<1>1. /\ flash' = Flushed /\ buffer' = buffer /\ ~dirty_flag' /\ mem' = mem
      /\ cur_sector' = -1 \/ cur_sector' = cur_sector
  BY FetchKeepsInv DEF SelectDrive
<1>2. TypeOK'
  BY GuestType DEF IInv, GuestNext
<1>3. Stable' = Image
  BY <1>1, FlushedIsImage DEF Stable
<1>4. ASSUME NEW s \in Sectors PROVE Agree(s, Logical(s)', Logical(s))
  <2>1. CASE cur_sector' = cur_sector /\ s = cur_sector
    <3>1. Logical(s)' = buffer /\ Logical(s) = buffer
      BY <1>1, <2>1 DEF Logical
    <3>2. QED BY <3>1, AgreeWhole
  <2>2. CASE ~(cur_sector' = cur_sector /\ s = cur_sector)
    <3>1. Logical(s)' = Flushed[s]
      BY <1>1, <2>2, EepromRange DEF Logical
    <3>2. QED BY <3>1, FlushedIsImage
  <2>3. QED BY <2>1, <2>2
<1>5. Image' = Image /\ AtRisk' = -1
  BY <1>1, <1>4, ImageSame DEF AtRisk
<1>6. QED BY <1>1, <1>2, <1>3, <1>5, RefineSync

\* The place of the record that a disk command is for.
LEMMA RequestPlace ==
  ASSUME OnDisk
  PROVE  /\ Request \in Nat /\ Row(Request) \in Sectors
         /\ Col(Request) \in Slots
         /\ SectorOf(Request) = Row(Request) /\ SlotOf(Request) = Col(Request)
<1>1. Request \in Requests
  BY DEF OnDisk
<1>2. Request \in Nat
  BY <1>1, RequestRange
<1>3. SectorOf(Request) = Row(Request) /\ SlotOf(Request) = Col(Request)
  BY <1>2, PlaceOf DEF Row, Col
<1>4. QED BY <1>1, <1>2, <1>3, RequestRange

LEMMA RefineRead == ASSUME IInv, DiskRead PROVE GD!Read
<1> DEFINE s == Row(Request)
           i == Col(Request)
<1>1. /\ Fetch(s) /\ ~dirty_flag' /\ buffer' = FetchedBuffer(s)
      /\ mem' = FetchedBuffer(s)[i] /\ s \in Sectors /\ i \in Slots
  BY RequestPlace, FetchKeepsInv DEF DiskRead
<1>2. Image' = Image /\ Stable' = Image /\ AtRisk' = -1
  BY <1>1, RefineFetch
<1>3. mem' \in Data
  BY GuestType DEF IInv, GuestNext, TypeOK
<1>4. ASSUME Request \in DiskRecordNumbers PROVE mem' = Image[Request]
  <2>1. Image[Request] = Logical(s)[i] /\ ~HoldsSettings(s, i)
    BY <1>4, ImageAt, PlaceRange
  <2>2. QED BY <1>1, <2>1, FlushedIsImage DEF Agree
<1>5. Request' = Request
  BY DEF DiskRead, Request
<1>6. QED
  BY <1>2, <1>3, <1>4, <1>5
     DEF GD!Read, GD!Sync, GD!NoSector, Image, Stable, AtRisk

LEMMA RefineWrite == ASSUME IInv, DiskWrite PROVE GD!Write
<1>1. PICK s \in Sectors, i \in Slots : s = Row(Request) /\ i = Col(Request)
  BY RequestPlace DEF DiskWrite
<1>2. SectorOf(Request) = s /\ SlotOf(Request) = i /\ Request \in Nat
  BY <1>1, RequestPlace DEF DiskWrite
<1>3. /\ flash' = Flushed /\ cur_sector' = s /\ dirty_flag' = TRUE /\ mem' = mem
      /\ buffer' = [FetchedBuffer(s) EXCEPT ![i] = mem]
  BY <1>2 DEF DiskWrite, Fetch
<1>4. FetchedBuffer(s) \in Sector
  BY CacheType DEF IInv
<1>5. ASSUME NEW pos \in DiskRecordNumbers
      PROVE  Image'[pos] = IF pos = Request THEN mem ELSE Image[pos]
  <2>1. /\ Row(pos) \in Sectors /\ Col(pos) \in Slots
        /\ ~HoldsSettings(Row(pos), Col(pos)) /\ pos \in Nat
    BY PlaceRange
  <2>2. CASE Row(pos) = s
    <3>1. Image'[pos] = IF Col(pos) = i THEN mem ELSE FetchedBuffer(s)[Col(pos)]
      BY <1>3, <1>4, <2>1, <2>2, ImageAt DEF Logical, Sector
    <3>2. FetchedBuffer(s)[Col(pos)] = Image[pos]
      BY <2>1, <2>2, FlushedIsImage, ImageAt DEF Agree
    <3>3. Col(pos) = i <=> pos = Request
      BY <1>1, <1>2, <2>1, <2>2, PlaceUnique
    <3>4. QED BY <3>1, <3>2, <3>3
  <2>3. CASE Row(pos) # s
    <3>1. Image'[pos] = Flushed[Row(pos)][Col(pos)]
      BY <1>3, <2>3, ImageAt DEF Logical
    <3>2. Flushed[Row(pos)][Col(pos)] = Image[pos]
      BY <2>1, FlushedIsImage, ImageAt DEF Agree
    <3>3. pos # Request
      BY <1>1, <2>3
    <3>4. QED BY <3>1, <3>2, <3>3
  <2>4. QED BY <2>2, <2>3
<1>6. Image' = IF Request \in DiskRecordNumbers
               THEN [Image EXCEPT ![Request] = mem] ELSE Image
  <2>1. Image = [pos \in DiskRecordNumbers |-> Image[pos]]
    BY ViewIs DEF Image
  <2>2. QED BY <1>5, <2>1, ImageIs
<1>7. Stable' = Image /\ AtRisk' = Request \div RecordsPerSector
  BY <1>1, <1>3, FlushedIsImage DEF Stable, AtRisk, Row
<1>8. Request' = Request
  BY DEF DiskWrite, Request
<1>9. QED
  BY <1>3, <1>6, <1>7, <1>8 DEF GD!Write, Image, Stable, AtRisk

LEMMA RefineRefuse == ASSUME IInv, DiskRefuse PROVE GD!SyncOnly
<1> DEFINE s == Row(Request)
<1>1. /\ Fetch(s) /\ ~dirty_flag' /\ buffer' = FetchedBuffer(s)
      /\ mem' = mem /\ s \in Sectors
  BY RequestPlace, FetchKeepsInv DEF DiskRefuse
<1>2. TypeOK'
  BY GuestType DEF IInv, GuestNext
<1>3. QED BY <1>1, <1>2, RefineFetch, RefineSync

LEMMA RefineGuest ==
  ASSUME IInv, GuestNext
  PROVE  GD!Next \/ UNCHANGED GD!vars
<1> USE DEF GD!Next
<1>1. ASSUME NEW d \in Drives, SelectDrive(d) PROVE GD!SyncOnly
  BY <1>1, RefineSelect
<1>2. ASSUME UNCHANGED <<flash, cache, mem>> PROVE GD!Seek
  <2>1. Request' \in Nat
    BY RequestNat, GuestType DEF IInv
  <2>2. QED BY <1>2, <2>1, RefineStill DEF GD!Seek, Image, Stable, AtRisk
<1>3. ASSUME NEW t \in Tracks, SetTrack(t) PROVE UNCHANGED <<flash, cache, mem>>
  BY <1>3 DEF SetTrack
<1>4. ASSUME NEW t \in Sects, SetSect(t) PROVE UNCHANGED <<flash, cache, mem>>
  BY <1>4 DEF SetSect
<1>5. ASSUME NEW v \in Data, GuestFill(v) PROVE GD!Fill
  <2>1. UNCHANGED <<flash, cache>> /\ mem' \in Data /\ Request' = Request
    BY <1>5 DEF GuestFill, ports, Request
  <2>2. QED BY <2>1, RefineStill DEF GD!Fill, Image, Stable, AtRisk
<1>6. CASE DiskRead
  BY <1>6, RefineRead
<1>7. CASE DiskWrite
  BY <1>7, RefineWrite
<1>8. CASE DiskRefuse
  BY <1>8, RefineRefuse
<1>9. ASSUME NoSuchDrive \/ Halt PROVE UNCHANGED <<flash, cache, mem>>
  BY <1>9 DEF NoSuchDrive, Halt
<1>10. QED
  BY <1>1, <1>2, <1>3, <1>4, <1>5, <1>6, <1>7, <1>8, <1>9 DEF GuestNext

LEMMA RefineMonitor ==
  ASSUME IInv, MonitorNext
  PROVE  GD!Next \/ UNCHANGED GD!vars
<1>1. TypeOK'
  BY MonitorType DEF IInv
<1>2. CASE Boot
  <2>1. LastBootSector \in Sectors
    BY BootRange DEF DiskSectors
  <2>2. /\ Fetch(LastBootSector) /\ ~dirty_flag' /\ mem' = mem
        /\ buffer' = FetchedBuffer(LastBootSector)
    BY <1>2, FetchKeepsInv DEF Boot
  <2>3. QED BY <1>1, <2>1, <2>2, RefineFetch, RefineSync DEF GD!Next
<1>3. ASSUME NEW on \in BOOLEAN, WriteProtect(on)
      PROVE  UNCHANGED <<flash, cache, ports, mem>>
  BY <1>3 DEF WriteProtect
<1>4. CASE XrStart
  BY <1>4, RefineIdle DEF XrStart
<1>5. ASSUME NEW i \in 0 .. EepromRecords - 1, NEW v \in Data, EepromWrite(i, v)
      PROVE  UNCHANGED GD!vars
  <2>1. /\ UNCHANGED <<buffer, cur_sector, dirty_flag, mem>> /\ Request' = Request
        /\ \A s \in DiskSectors : flash'[s] = flash[s]
    BY <1>5 DEF EepromWrite, DiskSectors, IInv, TypeOK, cache, ports, Request
  <2>2. \A j \in Slots : ~HoldsSettings(EepromSector, j) =>
                           flash'[EepromSector][j] = flash[EepromSector][j]
    BY <1>5, EepromRange DEF EepromWrite, IInv, TypeOK, HoldsSettings
  <2>3. \A s \in Sectors : Agree(s, flash'[s], flash[s])
    BY <2>1, <2>2 DEF Agree, HoldsSettings, DiskSectors
  <2>4. \A s \in Sectors : Agree(s, Logical(s)', Logical(s))
    BY <2>1, <2>3, AgreeWhole DEF Logical
  <2>5. Stable' = Stable /\ Image' = Image /\ AtRisk' = AtRisk
    BY <2>1, <2>3, <2>4, ViewSame, ImageSame DEF Stable, AtRisk
  <2>6. QED BY <2>1, <2>5 DEF GD!vars, Image, Stable, AtRisk
<1>6. QED BY <1>2, <1>3, <1>4, <1>5, RefineIdle DEF MonitorNext

LEMMA RefineXrWrite ==
  ASSUME IInv, NEW n \in Slots \cup {RecordsPerSector}, n > 0,
         NEW data \in [1 .. n -> Data], XrWrite(n, data)
  PROVE  \E s \in GD!Sectors : GD!Upload(s)
<1>1. PICK s \in DiskSectors :
         /\ cur_sector' = s /\ dirty_flag' = TRUE
         /\ flash' = IF dirty_flag /\ cur_sector # s THEN Programmed ELSE flash
         /\ UNCHANGED <<drive, track, sect, mem>>
  BY XrWritten
<1>2. s \in Sectors /\ s \in GD!Sectors /\ s # -1
  BY SectorNamed, EepromRange DEF DiskSectors
<1>3. TypeOK'
  BY XrType DEF IInv, XrNext
<1>4. Image' \in [DiskRecordNumbers -> Data]
  <2>1. ASSUME NEW pos \in DiskRecordNumbers PROVE Image'[pos] \in Data
    BY <1>3, PlaceRange, ImageAt DEF TypeOK, Sector, Logical
  <2>2. QED BY <2>1, ImageIs
<1>5. ASSUME NEW x \in Sectors, x # s PROVE Agree(x, flash'[x], Logical(x))
  <2>1. CASE dirty_flag /\ cur_sector # s
    <3>1. flash' = Flushed
      BY <1>1, <2>1 DEF Flushed, IInv, BufferCoherent
    <3>2. QED BY <3>1, FlushedIsImage
  <2>2. CASE ~(dirty_flag /\ cur_sector # s)
    <3>1. flash' = flash /\ (cur_sector = x => ~dirty_flag)
      BY <1>1, <1>5, <2>2
    <3>2. QED
      BY <3>1, EepromRange DEF Logical, Agree, IInv, BufferCoherent
  <2>3. QED BY <2>1, <2>2
<1>6. ASSUME NEW pos \in DiskRecordNumbers \ GD!Of(s)
      PROVE  Image'[pos] = Image[pos]
  <2>1. pos \in DiskRecordNumbers /\ Row(pos) # s
    BY DEF GD!Of, Row
  <2>2. Image'[pos] = flash'[Row(pos)][Col(pos)]
    BY <1>1, <2>1, ImageAt DEF Logical
  <2>3. QED BY <1>5, <2>1, <2>2, PlaceRange, ImageAt DEF Agree
<1>7. ASSUME AtRisk # s PROVE Stable' = Image
  <2>1. flash' = Flushed
    BY <1>1, <1>2, <1>7 DEF Flushed, AtRisk, IInv, BufferCoherent
  <2>2. QED BY <2>1, FlushedIsImage DEF Stable
<1>8. ASSUME AtRisk = s PROVE Stable' = Stable
  BY <1>1, <1>2, <1>8 DEF Stable, AtRisk
<1>9. Request' = Request /\ AtRisk' = s
  BY <1>1 DEF Request, AtRisk
<1>10. GD!Upload(s)
  BY <1>1, <1>4, <1>6, <1>7, <1>8, <1>9
     DEF GD!Upload, GD!Disk, Image, Stable, AtRisk
<1>11. QED BY <1>2, <1>10

\* What end_flash_write() leaves.
LEMMA XrEndFlushes ==
  ASSUME IInv, XrEnd
  PROVE  flash' = Flushed /\ ~dirty_flag' /\ UNCHANGED <<buffer, cur_sector>>
<1>1. dirty_flag => cur_sector \in Sectors /\ cur_sector >= 0 /\ ~(cur_sector < 0)
  BY DEF IInv, TypeOK, BufferCoherent, Sectors
<1>2. dirty_flag <=> dirty_flag /\ cur_sector # -1
  BY DEF IInv, BufferCoherent
<1>3. flash' = Flushed
  BY <1>1, <1>2 DEF XrEnd, EndFlashWrite, Flushed
<1>4. ~dirty_flag' /\ UNCHANGED <<buffer, cur_sector>>
  BY <1>1 DEF XrEnd
<1>5. QED BY <1>3, <1>4

LEMMA RefineXr ==
  ASSUME IInv, XrNext
  PROVE  GD!Next \/ UNCHANGED GD!vars
<1>1. ASSUME NEW n \in Slots \cup {RecordsPerSector}, n > 0,
             NEW data \in [1 .. n -> Data], XrWrite(n, data)
      PROVE  GD!Next
  BY <1>1, RefineXrWrite DEF GD!Next
<1>2. CASE XrReceived
  BY <1>2, RefineIdle DEF XrReceived
<1>3. CASE XrEnd
  <2>1. flash' = Flushed /\ ~dirty_flag' /\ UNCHANGED <<buffer, cur_sector, mem>>
    BY <1>3, XrEndFlushes DEF XrEnd
  <2>2. ASSUME NEW s \in Sectors PROVE Agree(s, Logical(s)', Logical(s))
    <3>1. CASE s = cur_sector
      <4>1. Logical(s)' = buffer /\ Logical(s) = buffer
        BY <2>1, <3>1 DEF Logical
      <4>2. QED BY <4>1, AgreeWhole
    <3>2. CASE s # cur_sector
      <4>1. Logical(s)' = Flushed[s]
        BY <2>1, <3>2 DEF Logical
      <4>2. QED BY <4>1, FlushedIsImage
    <3>3. QED BY <3>1, <3>2
  <2>3. Image' = Image /\ Stable' = Image /\ AtRisk' = -1
    BY <2>1, <2>2, ImageSame, FlushedIsImage DEF Stable, AtRisk
  <2>4. TypeOK'
    BY XrType DEF IInv
  <2>5. QED BY <2>1, <2>3, <2>4, RefineSync DEF GD!Next
<1>4. QED BY <1>1, <1>2, <1>3 DEF XrNext

LEMMA RefineFailure ==
  ASSUME IInv,
         Restart \/ \E k \in 0 .. RecordsPerSector : PowerLossInFlush(k)
  PROVE  GD!Next
<1>1. TypeOK'
  BY FailureType DEF IInv
<1>2. ASSUME RamLost
      PROVE  Image' = Stable' /\ AtRisk' = -1 /\ mem' \in Data /\ Request' \in Nat
  <2>1. ASSUME NEW s \in Sectors PROVE Agree(s, LogicalFlash'[s], flash'[s])
    <3>1. LogicalFlash'[s] = flash'[s]
      BY <1>2, EepromRange DEF RamLost, Logical, LogicalFlash
    <3>2. QED BY <3>1, AgreeWhole
  <2>2. Image' = Stable'
    BY <2>1, ViewSame DEF Image, Stable
  <2>3. QED BY <1>1, <1>2, <2>2, RequestNat DEF RamLost, AtRisk
<1>3. CASE Restart
  <2>1. Image' = Stable /\ Stable' = Stable
    BY <1>2, <1>3 DEF Restart, Stable
  <2>2. GD!Restart
    BY <1>2, <1>3, <2>1
       DEF Restart, GD!Restart, GD!Started, GD!NoSector, Image, Stable, AtRisk
  <2>3. QED BY <2>2 DEF GD!Next
<1>4. ASSUME NEW k \in 0 .. RecordsPerSector, PowerLossInFlush(k)
      PROVE  GD!PowerLoss
  <2> DEFINE torn == {pos \in GD!Of(AtRisk) : ~(Col(pos) < k)}
  <2>1. cur_sector \in Sectors /\ AtRisk = cur_sector /\ RamLost
    BY <1>4 DEF PowerLossInFlush, IInv, TypeOK, AtRisk
  <2>2. flash' = [flash EXCEPT ![cur_sector] =
                    [i \in Slots |-> IF i < k THEN buffer[i] ELSE Erased]]
    BY <1>4 DEF PowerLossInFlush
  <2>3. ASSUME NEW pos \in DiskRecordNumbers
        PROVE  Stable'[pos] = IF pos \in torn THEN Erased
                              ELSE IF pos \in GD!Of(AtRisk) THEN Image[pos]
                              ELSE Stable[pos]
    <3>1. Row(pos) \in Sectors /\ Col(pos) \in Slots
      BY PlaceRange
    <3>2. Stable'[pos] = flash'[Row(pos)][Col(pos)] /\ Stable[pos] = flash[Row(pos)][Col(pos)]
      BY ViewAt DEF Stable
    <3>3. pos \in GD!Of(AtRisk) <=> Row(pos) = cur_sector
      BY <2>1 DEF GD!Of, Row
    <3>4. CASE Row(pos) = cur_sector
      <4>1. Stable'[pos] = IF Col(pos) < k THEN buffer[Col(pos)] ELSE Erased
        BY <2>1, <2>2, <3>1, <3>2, <3>4 DEF IInv, TypeOK
      <4>2. Image[pos] = buffer[Col(pos)]
        BY <3>4, ImageAt DEF Logical
      <4>3. pos \in torn <=> ~(Col(pos) < k)
        BY <3>3, <3>4
      <4>4. QED BY <3>3, <3>4, <4>1, <4>2, <4>3
    <3>5. CASE Row(pos) # cur_sector
      <4>1. Stable'[pos] = Stable[pos]
        BY <2>1, <2>2, <3>1, <3>2, <3>5 DEF IInv, TypeOK
      <4>2. pos \notin torn
        BY <3>3, <3>5
      <4>3. QED BY <3>3, <3>5, <4>1, <4>2
    <3>6. QED BY <3>4, <3>5
  <2>4. Stable' = [pos \in DiskRecordNumbers |->
                     IF pos \in torn THEN Erased
                     ELSE IF pos \in GD!Of(AtRisk) THEN Image[pos]
                     ELSE Stable[pos]]
    <3>1. Stable' = [pos \in DiskRecordNumbers |-> Stable'[pos]]
      BY ViewIs DEF Stable
    <3>2. QED BY <2>3, <3>1
  <2>5. torn \in SUBSET GD!Of(AtRisk)
    OBVIOUS
  <2> HIDE DEF torn
  <2>6. GD!Started
    BY <1>2, <2>1 DEF GD!Started, GD!NoSector, AtRisk
  <2>7. Image' = Stable'
    BY <1>2, <2>1
  <2>8. QED
    BY <2>4, <2>5, <2>6, <2>7 DEF GD!PowerLoss, Image, Stable, AtRisk
<1>5. QED BY <1>3, <1>4 DEF GD!Next

\* For every geometry and every request set in the area, the cached flash disk
\* implements GuestDisk: a read returns the latest contents of the record named,
\* a write changes that record alone, and only one sector is ever at risk.
THEOREM FlashDiskImplements == Spec => ImplementsGuestDisk
<1>1. Init => GD!Init
  BY RefineInit
<1>2. IInv /\ [Next]_vars => [GD!Next]_(GD!vars)
  <2>1. ASSUME IInv, UNCHANGED vars PROVE UNCHANGED GD!vars
    BY <2>1, RefineIdle DEF vars
  <2>2. ASSUME IInv, Next PROVE GD!Next \/ UNCHANGED GD!vars
    BY <2>2, RefineGuest, RefineMonitor, RefineXr, RefineFailure DEF Next
  <2>3. QED BY <2>1, <2>2
<1>3. QED
  BY <1>1, <1>2, InvHolds, PTL DEF Spec, ImplementsGuestDisk, GD!Spec

\* After every upload the flash holds what a user of the cache sees, in every
\* sector in front of the settings': end_flash_write leaves nothing in the
\* buffer only.
THEOREM UploadReachesFlash == Spec => UploadDurable
<1>1. ASSUME IInv, XrEnd, NEW s \in DiskSectors
      PROVE  flash'[s] = Logical(s)
  <2>1. flash' = Flushed /\ TypeOK /\ BufferCoherent /\ s \in Sectors
    BY <1>1, XrEndFlushes DEF IInv, DiskSectors
  <2>2. CASE s # cur_sector
    BY <2>1, <2>2 DEF Flushed, Programmed, Logical, TypeOK
  <2>3. CASE s = cur_sector /\ dirty_flag
    BY <2>1, <2>3, EepromRange DEF Flushed, Programmed, Logical, TypeOK
  <2>4. CASE s = cur_sector /\ ~dirty_flag
    <3>1. \A i \in Slots : ~HoldsSettings(s, i)
      BY DEF HoldsSettings, DiskSectors
    <3>2. flash' = flash /\ Logical(s) = buffer
      BY <2>1, <2>4 DEF Flushed, Logical
    <3>3. \A i \in Slots : buffer[i] = flash[s][i]
      BY <2>1, <2>4, <3>1, EepromRange DEF BufferCoherent
    <3>4. /\ buffer = [i \in Slots |-> buffer[i]]
          /\ flash[s] = [i \in Slots |-> flash[s][i]]
      BY <2>1 DEF TypeOK, Sector
    <3>5. buffer = flash[s]
      BY <3>3, <3>4
    <3>6. QED BY <3>2, <3>5
  <2>5. QED BY <2>1, <2>2, <2>3, <2>4 DEF TypeOK
<1>2. IInv => [XrEnd => \A s \in DiskSectors : flash'[s] = Logical(s)]_vars
  BY <1>1
<1>3. QED BY <1>2, InvHolds, PTL DEF UploadDurable
=============================================================================
