----------------------------- MODULE FlashDisk -----------------------------
(***************************************************************************)
(* The disk of the Pico flash build: sdcard_picoflash.c, a write-back      *)
(* cache of one 4096-byte flash sector, under its three users:             *)
(*   - the CP/M guest, through the disk ports of out() and in() in         *)
(*     machine.c (drive 10, track 11, sector 12, command 13, result 14);   *)
(*   - the monitor, which boots the guest from the disk, uploads a disk    *)
(*     image with `xr' (xmodem.c calls flash_disk_write), and resets;      *)
(*   - eeprom_image.c and eeprom_pico.c, which keep the settings in the    *)
(*     last sector of the same flash, past the cache.                      *)
(* Disk contents are counted in 128-byte CP/M records.  The code runs on   *)
(* one core and masks interrupts while it erases and programs, so handlers *)
(* do not interleave; a power loss or reset can come between any two, or   *)
(* within an erase and program.                                            *)
(***************************************************************************)
EXTENDS Integers, FiniteSets

CONSTANTS
  RecordsPerSector,  \* FLASH_SECTOR_SIZE / 128 (32)
  RecordsPerBlock,   \* 512 / 128 (4): the unit of sdcard_fetch
  AreaSectors,       \* DISK_AREA_SIZE / FLASH_SECTOR_SIZE (64)
  DiskRecords,       \* DISK_SIZE / 128 (2002): drive A, and the base of drive I
  SectorsA,          \* records per track of drive A (26)
  SectorsI,          \* records per track of drive I (128)
  PosSpan,           \* 2^32 / 128: an unsigned long position wraps here
  EepromRecords,     \* EEPROM_SIZE / 128 (4)
  BootBlocks,        \* 512-byte blocks that boot() loads (13)
  Drives, Tracks, Sects,  \* values the guest writes to ports 10, 11 and 12
  Data,              \* contents of a record
  Zero, Erased,      \* a record of zeroed memory; one of an erased sector
  InitialFlash       \* contents the device may have at first

DriveA == 0
DriveI == 8
Slots == 0 .. RecordsPerSector - 1
Sectors == 0 .. AreaSectors - 1
EepromSector == AreaSectors - 1       \* EEPROM_BASE
DiskSectors == Sectors \ {EepromSector}
Sector == [Slots -> Data]

\* `pos' of out(): the record a drive, track and sector name.  track * sectors
\* + sect - 1 is unsigned: sector 0 of track 0 wraps around.
Position(d, t, s) ==
  IF d = DriveA
  THEN (t * SectorsA + s - 1) % PosSpan
  ELSE (((t * SectorsI + s - 1) % PosSpan) + DiskRecords) % PosSpan

\* out() fetches the 512-byte block of the record and copies from the
\* record's place in it; sdcard_fetch() finds the block in a flash sector.
BlockOf(pos)  == pos - (pos % RecordsPerBlock)
SectorOf(pos) == BlockOf(pos) \div RecordsPerSector
SlotOf(pos)   == (BlockOf(pos) % RecordsPerSector) + (pos % RecordsPerBlock)

\* The records the guest's requests name on the drives that exist.
Requests == {Position(d, t, s) : d \in Drives \cap {DriveA, DriveI},
                                 t \in Tracks, s \in Sects}

ASSUME GeometryAssumption ==
  /\ RecordsPerBlock \in Nat \ {0}
  /\ RecordsPerSector \in Nat \ {0}
  /\ RecordsPerSector % RecordsPerBlock = 0
  /\ AreaSectors \in Nat \ {0, 1}
  /\ PosSpan \in Nat \ {0}
  /\ SectorsA \in Nat /\ SectorsI \in Nat
  /\ DiskRecords \in Nat /\ DiskRecords <= EepromSector * RecordsPerSector
  /\ EepromRecords \in 1 .. RecordsPerSector
  /\ BootBlocks \in Nat \ {0}
  /\ BootBlocks * RecordsPerBlock <= DiskRecords

\* The guest stays within the disk area, the sector of the settings included.
\* out() does not check this; the CP/M BIOS that issues the requests is not
\* part of the repository.
ASSUME RequestAssumption ==
  /\ Tracks \subseteq Nat /\ Sects \subseteq Nat /\ Drives \subseteq Nat
  /\ \A pos \in Requests : SectorOf(pos) \in Sectors
  /\ Zero \in Data /\ Erased \in Data
  /\ InitialFlash \subseteq [Sectors -> Sector]

VARIABLES
  flash,       \* the disk area of the flash device, sector by sector
  buffer,      \* buffer[]: the cached sector
  cur_sector,  \* the sector in buffer[], -1 when there is none
  dirty_flag,  \* buffer[] is newer than the flash
  cur_drive,   \* drive of the last select_drive(), -1 when there was none
  drive, track, sect, disk_err,   \* registers behind ports 10, 11, 12 and 14
  wr_prt,      \* write protection, set by the monitor's `wp'
  mem,         \* guest memory at the DMA address: one record
  mode,        \* "monitor", "guest", "xr" (receiving) or "xr_end"
  xr_len,      \* records received so far (len of xmodemReceive)
  crc,         \* the disk contents that the printed CRC describes
  eeprom,      \* RAM image of the settings (buffer[] of eeprom_image.c)
  trespassed   \* history: since the start the guest has written into the
               \* sector of the settings

cache == <<buffer, cur_sector, dirty_flag>>
ports == <<drive, track, sect, disk_err>>
upload == <<xr_len, crc>>
settings == <<eeprom, trespassed>>
vars == <<flash, cache, cur_drive, ports, wr_prt, mem, mode, upload, settings>>

NoCrc == << >>
EepromImage == [0 .. EepromRecords - 1 -> Data]
\* The disk image in the flash, as crc16_ccitt, xs and fd read it.
DiskImage(f) == [pos \in 0 .. DiskRecords - 1 |->
                   f[pos \div RecordsPerSector][pos % RecordsPerSector]]
StoredEeprom(f) == [i \in 0 .. EepromRecords - 1 |-> f[EepromSector][i]]

Init ==
  /\ flash \in InitialFlash
  /\ buffer = [i \in Slots |-> Zero]
  /\ cur_sector = -1
  /\ dirty_flag = FALSE
  /\ cur_drive = -1
  /\ drive = 0 /\ track = 0 /\ sect = 0 /\ disk_err = 0
  /\ wr_prt = FALSE
  /\ mem \in Data                 \* what mem_chk() left in the SRAM
  /\ mode = "monitor"
  /\ xr_len = 0
  /\ crc = NoCrc
  /\ eeprom = StoredEeprom(flash) /\ trespassed = FALSE
-----------------------------------------------------------------------------
(* The cache.                                                               *)

\* flash_erase_and_program_sector(), completed.
Programmed == [flash EXCEPT ![cur_sector] = buffer]

\* flush_buffer_if_necessary(): write a dirty buffer out, if it has a sector.
\* Mutant: sector 0 taken for no sector.
FlushedButZero == IF dirty_flag /\ cur_sector > 0 THEN Programmed ELSE flash
\* Mutant: a clean buffer is written as well.
FlushedClean == IF cur_sector # -1 THEN Programmed ELSE flash
Flushed == IF dirty_flag /\ cur_sector # -1 THEN Programmed ELSE flash
DirtyAfterFlush == dirty_flag /\ cur_sector = -1

\* sdcard_fetch(): flush, then read the sector unless it is cached.
\* Mutant: a buffer that was dirty before the flush is taken for the sector.
FetchedUnlessDirty(s) == IF cur_sector # s /\ ~dirty_flag
                         THEN Flushed[s] ELSE buffer
FetchedBuffer(s) == IF cur_sector # s THEN Flushed[s] ELSE buffer
Fetch(s) == /\ flash' = Flushed
            /\ cur_sector' = s

\* select_drive(): always flush; another drive invalidates the buffer.
SelectDrive(d) ==
  /\ mode = "guest"
  /\ drive' = d
  /\ flash' = Flushed
  /\ dirty_flag' = DirtyAfterFlush
  /\ cur_drive' = d
  /\ cur_sector' = IF cur_drive # d THEN -1 ELSE cur_sector
  /\ UNCHANGED <<buffer, track, sect, disk_err, wr_prt, mem, mode, upload,
                 settings>>
-----------------------------------------------------------------------------
(* The guest: ports 11, 12 and 13, and its own memory.                      *)

SetTrack(t) ==
  /\ mode = "guest"
  /\ track' = t
  /\ UNCHANGED <<flash, cache, cur_drive, drive, sect, disk_err, wr_prt, mem,
                 mode, upload, settings>>

SetSect(s) ==
  /\ mode = "guest"
  /\ sect' = s
  /\ UNCHANGED <<flash, cache, cur_drive, drive, track, disk_err, wr_prt, mem,
                 mode, upload, settings>>

GuestFill(v) ==
  /\ mode = "guest"
  /\ mem' = v
  /\ UNCHANGED <<flash, cache, cur_drive, ports, wr_prt, mode, upload, settings>>

\* A disk command for a drive that exists, on a record of the guest's disks.
Request == Position(drive, track, sect)
OnDisk == drive \in {DriveA, DriveI} /\ Request \in Requests

\* Port 13, command 0: fetch the block, copy the record to the guest.
DiskRead ==
  LET s == SectorOf(Request) IN
  /\ mode = "guest" /\ OnDisk
  /\ Fetch(s)
  /\ dirty_flag' = DirtyAfterFlush
  /\ buffer' = FetchedBuffer(s)
  /\ mem' = FetchedBuffer(s)[SlotOf(Request)]
  /\ disk_err' = 0
  /\ UNCHANGED <<cur_drive, drive, track, sect, wr_prt, mode, upload, settings>>

\* Port 13, command 1: fetch, overwrite the record, mark the buffer dirty.
\* sdcard_flush() finds the block's sector cached: it writes nothing, and
\* returns 0, so the guest is told of success.
DiskWrite ==
  LET s == SectorOf(Request) IN
  /\ mode = "guest" /\ OnDisk
  /\ ~wr_prt
  /\ Fetch(s)
  /\ dirty_flag' = TRUE
  /\ buffer' = [FetchedBuffer(s) EXCEPT ![SlotOf(Request)] = mem]
  /\ disk_err' = 0
  /\ trespassed' = (trespassed \/ s = EepromSector)
  /\ UNCHANGED <<cur_drive, drive, track, sect, wr_prt, mem, mode, upload,
                 eeprom>>

\* Port 13, a protected write or an unknown command: fetched all the same.
DiskRefuse ==
  LET s == SectorOf(Request) IN
  /\ mode = "guest" /\ OnDisk
  /\ Fetch(s)
  /\ dirty_flag' = DirtyAfterFlush
  /\ buffer' = FetchedBuffer(s)
  /\ disk_err' = 7
  /\ UNCHANGED <<cur_drive, drive, track, sect, wr_prt, mem, mode, upload,
                 settings>>

\* Port 13 on a drive that does not exist.
NoSuchDrive ==
  /\ mode = "guest" /\ drive \notin {DriveA, DriveI}
  /\ disk_err' = 1
  /\ UNCHANGED <<flash, cache, cur_drive, drive, track, sect, wr_prt, mem,
                 mode, upload, settings>>

\* The guest halts: boot() returns to the prompt.
Halt ==
  /\ mode = "guest"
  /\ mode' = "monitor"
  /\ UNCHANGED <<flash, cache, cur_drive, ports, wr_prt, mem, upload, settings>>
-----------------------------------------------------------------------------
(* The monitor.                                                             *)

\* `b': boot() fetches the first blocks one after the other; the first fetch
\* flushes, the last decides which sector stays in the buffer.
LastBootSector == ((BootBlocks - 1) * RecordsPerBlock) \div RecordsPerSector
Boot ==
  /\ mode = "monitor"
  /\ mode' = "guest"
  /\ Fetch(LastBootSector)
  /\ dirty_flag' = DirtyAfterFlush
  /\ buffer' = FetchedBuffer(LastBootSector)
  /\ UNCHANGED <<cur_drive, ports, wr_prt, mem, upload, settings>>

\* `wp on' and `wp off'.
WriteProtect(on) ==
  /\ mode = "monitor"
  /\ wr_prt' = on
  /\ UNCHANGED <<flash, cache, cur_drive, ports, mem, mode, upload, settings>>

\* eeprom_write(), for `a on' and `a off': change the RAM image, then read the
\* whole flash sector, overlay the image, erase and program it.
EepromWrite(i, v) ==
  /\ mode = "monitor"
  /\ eeprom' = [eeprom EXCEPT ![i] = v]
  /\ flash' = [flash EXCEPT ![EepromSector] =
                 [j \in Slots |-> IF j < EepromRecords THEN eeprom'[j]
                                  ELSE flash[EepromSector][j]]]
  /\ UNCHANGED <<cache, cur_drive, ports, wr_prt, mem, mode, upload, trespassed>>

\* `xr': xmodemReceive(0, DISK_SIZE) starts.
XrStart ==
  /\ mode = "monitor"
  /\ mode' = "xr"
  /\ xr_len' = 0
  /\ UNCHANGED <<flash, cache, cur_drive, ports, wr_prt, mem, crc, settings>>

\* `count' in xmodemReceive: packets past the end of the image are cut off.
\* Mutant: only the disk area bounds them.
FitsArea(n) == xr_len + n <= AreaSectors * RecordsPerSector
FitsImage(n) == n <= DiskRecords - xr_len

\* One iteration of the loop of flash_disk_write(): n records of a packet go
\* into one sector.  A packet may take two iterations.
XrWrite(n, data) ==
  LET s == xr_len \div RecordsPerSector
      i == xr_len % RecordsPerSector
      evicts == dirty_flag /\ cur_sector >= 0 /\ cur_sector # s
      f == IF evicts THEN Programmed ELSE flash
      b == IF cur_sector # s THEN f[s] ELSE buffer
  IN /\ mode = "xr"
     /\ FitsImage(n)
     /\ n <= RecordsPerSector - i
     /\ flash' = f
     /\ cur_sector' = s
     /\ buffer' = [j \in Slots |->
                     IF j \in i .. i + n - 1 THEN data[j - i + 1] ELSE b[j]]
     /\ dirty_flag' = TRUE
     /\ xr_len' = xr_len + n
     /\ UNCHANGED <<cur_drive, ports, wr_prt, mem, mode, crc, settings>>

\* xmodemReceive returns (completed or given up); the CRC is taken here.
XrReceived ==
  /\ mode = "xr"
  /\ mode' = "xr_end"
  /\ crc' = DiskImage(flash)
  /\ UNCHANGED <<flash, cache, cur_drive, ports, wr_prt, mem, xr_len, settings>>

\* end_flash_write().  Mutant: sector 0 taken for no sector.
EndFlashWriteButZero == IF dirty_flag /\ cur_sector > 0 THEN Programmed ELSE flash
EndFlashWrite == IF dirty_flag /\ cur_sector >= 0 THEN Programmed ELSE flash

\* end_flash_write(); then length and CRC are printed.
XrEnd ==
  /\ mode = "xr_end"
  /\ mode' = "monitor"
  /\ flash' = EndFlashWrite
  /\ dirty_flag' = (dirty_flag /\ cur_sector < 0)
  /\ crc' = NoCrc /\ xr_len' = 0
  /\ UNCHANGED <<buffer, cur_sector, cur_drive, ports, wr_prt, mem, settings>>
-----------------------------------------------------------------------------
(* Restarts.  RAM is initialised; sdcard_init() and the static initial      *)
(* values apply; the settings are loaded from the flash.                    *)

RamLost ==
  /\ buffer' = [i \in Slots |-> Zero]
  /\ cur_sector' = -1
  /\ dirty_flag' = FALSE
  /\ cur_drive' = -1
  /\ drive' = 0 /\ track' = 0 /\ sect' = 0 /\ disk_err' = 0
  /\ wr_prt' = FALSE
  /\ mem' \in Data
  /\ mode' = "monitor"
  /\ xr_len' = 0
  /\ crc' = NoCrc
  /\ eeprom' = StoredEeprom(flash') /\ trespassed' = FALSE

\* `r' (platform_reset), or a power loss while no sector is being written.
Restart == UNCHANGED flash /\ RamLost

\* Power is lost in flash_erase_and_program_sector(): the sector is erased,
\* and its first k records may have been programmed.
PowerLossInFlush(k) ==
  /\ dirty_flag /\ cur_sector # -1
  /\ flash' = [flash EXCEPT ![cur_sector] =
                 [i \in Slots |-> IF i < k THEN buffer[i] ELSE Erased]]
  /\ RamLost
-----------------------------------------------------------------------------
GuestNext == \/ \E d \in Drives : SelectDrive(d)
             \/ \E t \in Tracks : SetTrack(t)
             \/ \E s \in Sects : SetSect(s)
             \/ \E v \in Data : GuestFill(v)
             \/ DiskRead \/ DiskWrite \/ DiskRefuse
             \/ NoSuchDrive
             \/ Halt

XrNext == \/ \E n \in Slots \cup {RecordsPerSector} : n > 0 /\
               \E data \in [1 .. n -> Data] : XrWrite(n, data)
          \/ XrReceived
          \/ XrEnd

MonitorNext == \/ Boot
               \/ \E on \in BOOLEAN : WriteProtect(on)
               \/ \E i \in 0 .. EepromRecords - 1, v \in Data : EepromWrite(i, v)
               \/ XrStart

Next == \/ GuestNext
        \/ MonitorNext
        \/ XrNext
        \/ Restart
        \/ \E k \in 0 .. RecordsPerSector : PowerLossInFlush(k)

Spec == Init /\ [][Next]_vars
-----------------------------------------------------------------------------
(* Properties.                                                              *)

TypeOK ==
  /\ flash \in [Sectors -> Sector]
  /\ buffer \in Sector
  /\ cur_sector \in Sectors \cup {-1}
  /\ dirty_flag \in BOOLEAN
  /\ cur_drive \in Drives \cup {-1}
  /\ drive \in Drives \cup {0}
  /\ track \in Tracks \cup {0}
  /\ sect \in Sects \cup {0}
  /\ disk_err \in {0, 1, 7}
  /\ wr_prt \in BOOLEAN
  /\ mem \in Data
  /\ mode \in {"monitor", "guest", "xr", "xr_end"}
  /\ xr_len \in 0 .. DiskRecords
  /\ crc \in [0 .. DiskRecords - 1 -> Data] \cup {NoCrc}
  /\ eeprom \in EepromImage /\ trespassed \in BOOLEAN

\* The contents a user of the cache sees in a sector.
Logical(s) == IF s = cur_sector THEN buffer ELSE flash[s]
LogicalFlash == [s \in Sectors |-> Logical(s)]
\* The disk image a user of the cache sees.
LogicalImage == DiskImage(LogicalFlash)

\* The records of the area that the guest may name and that hold no settings,
\* by their numbers, and what is in them.
HoldsSettings(s, i) == s = EepromSector /\ i < EepromRecords
DiskRecordNumbers ==
  {pos \in 0 .. AreaSectors * RecordsPerSector - 1 :
     ~HoldsSettings(pos \div RecordsPerSector, pos % RecordsPerSector)}
View(f) == [pos \in DiskRecordNumbers |->
              f[pos \div RecordsPerSector][pos % RecordsPerSector]]

GD == INSTANCE GuestDisk WITH
        Records <- DiskRecordNumbers,
        PerSector <- RecordsPerSector,
        image <- View(LogicalFlash),
        stable <- View(flash),
        at_risk <- IF dirty_flag THEN cur_sector ELSE -1,
        record <- Request

\* The cached disk is the disk of GuestDisk: every read returns the latest
\* write or upload of the record named, a write changes that record alone, at
\* most one sector is not yet durable and a power loss tears no other, drive
\* I's way into the sector of the settings included (sdcard_fetch,
\* sdcard_write, select_drive, flash_disk_write, end_flash_write).
ImplementsGuestDisk == GD!Spec

\* A clean buffer is a copy of its sector, but for the settings, which are
\* rewritten past it; and a dirty one has a sector to go to:
\* flush_buffer_if_necessary() neither drops data nor resurrects old data.
BufferCoherent ==
  /\ dirty_flag => cur_sector # -1
  /\ ~dirty_flag /\ cur_sector # -1 =>
       \A i \in Slots : buffer[i] = flash[cur_sector][i]
                           \/ HoldsSettings(cur_sector, i)

\* When `xr' has printed its result the upload is durable: no sector of the
\* image is left in the buffer only (end_flash_write in prompt()).
UploadDurable ==
  [][XrEnd => \A s \in DiskSectors : flash'[s] = Logical(s)]_vars

\* The settings in the flash are those eeprom_image.c has in RAM, unless the
\* guest has written into their sector: an upload, boot, a guest that only
\* reads them on drive I while `a' rewrites them, a reset and a power loss put
\* no old copy of them back.
SettingsKept == ~trespassed => eeprom = StoredEeprom(flash)

\* What the comment on the memory map claims (sdcard_picoflash.c:56): the
\* settings do not interfere with the disk image.  Drive I is not bounded by
\* the image (machine.c:988): its write to the settings' sector takes them
\* for a part of the disk.
SettingsIntact == eeprom = StoredEeprom(flash)

\* The CRC printed after `xr' is that of the disk image now on the device.
PrintedCrcOfImage == mode = "xr_end" => crc = LogicalImage

\* `xs' and `fd', which read the flash directly, show the guest's disk.
DownloadIsTheDisk == mode = "monitor" => DiskImage(flash) = LogicalImage
=============================================================================
