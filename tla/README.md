# CP/Mega88 for the Pico: specification, model checking and proofs

CP/Mega88 runs CP/M 2.2 on an emulated 8080, on a Raspberry Pi Pico, on AVRs, on
a host and in a browser. This directory holds TLA+ specifications of its control
logic, the TLC configurations that check them on small instances, and proofs
about them. Paths are relative to the repository's root; sources without a
directory are in `src/src/`.

## 1. The system

| component | sources | state | operations | hard behaviour |
|---|---|---|---|---|
| flash disk | `sdcard_picoflash.c` | one cached 4096-byte sector, its number, a dirty flag, the last drive | fetch, record write, flush, drive select, upload, end of upload | lost or misplaced write-back, power loss in erase and program, users that read past the cache |
| SD card disk | `sdcard_pico.c`, `spi_pico.c`; `sdcard_avr.c` | one 512-byte buffer and its sector, the card's unit of addresses, the clock tweak | open, fetch, store, flush | errors and timeouts, exchanged cards; the sector number is set before the read succeeds |
| FAT | `fat.c` | geometry, directory cursor, open file, last cluster and offset | init, next, name, open, seek, read | cluster boundaries, FAT12 entries across sectors, failed reads that count as cached, names gathered from several entries |
| machine | `machine.c` | drive, track, sector, DMA address, result, write protection | ports of the guest, boot, mount | unchecked results and positions |
| monitor, terminal | `machine.c`, `con_pico.c`, `con_posix.c` | command line, held character, escape state | prompt and its commands, IN 0, IN 1, OUT 1 | characters read ahead, recall, sequences cut by a stop of the guest |
| settings | `eeprom_image.c`, `eeprom_pico.c` | 512-byte image, loaded flag | read, write (rewrites the sector) | power loss between and within writes, first initialisation |
| XMODEM | `xmodem.c`, `crc16.c` | packet number, length, retry counters, CRC mode | receive, transmit | loss, damage, late answers, wrapping numbers |
| AVR consoles | `con_avr_uart.c`, `con_avr_cdc.c` | ring buffers, control requests | interrupt handlers, put, get, peek | interrupts between read and update of an index, full rings, bus resets |
| IOEXT bus | `io_avr.c`, `ioext/ioext_test.ino` | handshake lines | port in and out | a timeout against a late answer, a restart of the device |
| 8080 | `cpu_8080.c`, `i8080.S` | registers, flags, memory | 256 opcodes | flags, decimal adjust |
| Native Client host | `platform_nacl.cc` | mutex, flag | block, timer | lost wake-up |

The guest calls the disk through ports 10 (drive), 11 (track), 12 (sector), 13
(command) and 14 (result) of `out()` and `in()`; the monitor calls the same disk
to boot, to read sectors and to mount an image file, and `xr`/`xs` replace or read
the flash image through `xmodem.c`. Settings and flash disk share the flash area,
but not the cache. Handlers of the machine do not interleave: there is one loop.
Around them everything else moves: a reset or a power loss between any two steps
and inside an erase-and-program, a card that is slow, silent or exchanged, the
other end of a serial line, interrupt handlers on AVR, a second microcontroller on
the IOEXT bus, a second thread in the browser.

What makes each part correct: the disk shows each read the latest write and loses
at most the one sector that was not yet flushed; the settings are never
overwritten by the disk and survive as a whole or not at all; a card is addressed
in its own unit and written where it was asked to be; FAT reads the sector its
chain names and finds just the names that are there; a transfer stores every block
once and in order, and both ends return; consoles and rings deliver characters in
order; whoever waits is woken; arithmetic is that of the 8080.

## 2. Modules

| module | models |
|---|---|
| `FlashDisk` | the flash disk with its three users: guest ports, monitor (boot, write protection, upload, settings), restarts |
| `GuestDisk` | the abstract promise of the flash disk; `FlashDisk` implements it |
| `Xmodem` | both ends of a transfer and the line |
| `Settings` | the settings in the last flash sector: initialisation, mount, automatic boot, power losses |
| `SettingsStore` | the abstract promise of the settings; `Settings` implements it |
| `SdMedium` | an SD card and the line to it, as the drivers use them (external) |
| `SdCard` | the Pico's SD card driver, with the monitor and the guest's requests |
| `SdCardAvr` | the AVR's SD card driver, with the guest's requests |
| `SdDrivers` | both drivers side by side, and what they have in common |
| `Fat` | FAT12/16/32 with one open file: init, walk, open, seek, read; `ls`, `cd`, `m` and the guest's requests |
| `Fat12` | the links of a FAT12 table, byte by byte |
| `ExfatDir` | the entry sets of an exFAT directory; `ls`, `cd`, `m` |
| `Terminal` | the console of Pico or host, the line editor, ports 0 and 1, escape sequences |
| `UartFifo` | the software UART of the ATmega88 |
| `CdcConsole` | the USB console of the ATmega32U2 with its control requests |
| `Rings` | the rings of both AVR consoles side by side, and what they have in common |
| `Ioext` | the IOEXT bus: host, device, lines |
| `NaclHost` | the browser's main thread against the machine's |
| `Handshakes` | the IOEXT bus and the browser's threads side by side, and what they promise |
| `Alu8080`, `Cpu8080` | the arithmetic of the 8080; all its instructions |
| `MCFlashDisk`, `MCXmodem`, `MCSettings`, `MCSdCard`, `MCFiles`, `MCConsoles`, `MCHandshakes`, `MCCpu8080` | small instances for TLC |
| `FlashDiskProofs`, `XmodemProofs`, `SettingsProofs`, `Cpu8080Proofs` | theorems about the module each is named for |
| `SdCardProofs` | theorems about `SdCard` and `SdDrivers` |
| `FatProofs` | theorems about `Fat` and `Fat12` |
| `ConsoleProofs` | theorems about `Terminal`, `Rings` and `Handshakes` |
| `ModArith` | quotients and remainders, and iterated functions, for the proofs |

Several MC modules hold parts that no build combines: a build has one console, one
drive, one kind of volume. A variable (`console`, `link`, `card`, `setting`) chosen
in the initial state then says which part runs, and the others stay at their
start. A property of such a module is the conjunction of what each part promises.

### FlashDisk

`flash` is the 64-sector disk area, `buffer`, `cur_sector` and `dirty_flag` the
cache, as in the source (-1 is "no sector"). Contents are counted in 128-byte
records, the unit of CP/M. `cur_blk` and `cur_offset` only carry a position from
`sdcard_fetch()` to `sdcard_read()`/`sdcard_write()`, which the same handler
calls: they are folded into `SectorOf` and `SlotOf`. One action is one port write
of the guest (`SelectDrive`, `SetTrack`, `SetSect`, `DiskRead`, `DiskWrite`,
`DiskRefuse`, `NoSuchDrive`), one monitor command (`Boot`, `WriteProtect`,
`EepromWrite`, `XrStart`), one iteration of the loop of `flash_disk_write()`
(`XrWrite`), the two steps after the transfer (`XrReceived`, `XrEnd`), or a
restart. `PowerLossInFlush(k)` is a power loss in
`flash_erase_and_program_sector()` when the sector has been erased and its first
`k` records programmed.

`RequestAssumption` names what the code does not check: the guest's track and
sector stay in the disk area (`out()` computes positions without a bound, and
sector 0 of track 0 wraps around). The sector that holds the settings is part of
that area: drive I reaches it (`machine.c:988`), and the instance that TLC checks
contains such requests. `trespassed` is history: since the start, the guest has
written into that sector. `SettingsKept` says that nothing else changes the
settings; that the guest's write does, against the comment on the memory map
(`SettingsIntact`), is in section 4. `InitialFlash` bounds the initial contents.

`GuestDisk` has a logical `image`, the `stable` contents that a restart would
find, the one sector `at_risk` where they differ, and the `record` that a read
returns and a write changes. `FlashDisk` maps `image` to the buffer over the flash,
`stable` to the flash, each without the settings; `at_risk` to `cur_sector` while
the buffer is dirty; and `record` to the position of the guest's registers. So a
request of drive I in the settings' sector is a request of that disk like any other
as far as it names no settings, and a flush or a torn program of that sector may
change no record of another one.

### Xmodem

The two ends are sequential; an action is the pass of an end's loop between two
waits in `_inbyte()`. The lines are queues of messages: a packet (number, CRC or
checksum, block) or a control character. A wait may time out although the answer
is already on its way (the answer is late), so retries and duplicates arise
without faults. `LineFault` drops or damages the message at the head of a line.
`flushinput()` empties the line: all that is on its way is taken to arrive within
its 1.5 s. Left out: a packet whose header byte is lost is a lost packet, so bytes
of a packet body never read as control characters; a check that passes by chance.
The receiver's `dest` is what it passes to `flash_disk_write()`.

The transmitter may be the program at the other end of the cable; the model takes
`xmodemTransmit`, which `xs` runs, for it.

### Settings

In the SD card build, `store` is the settings' part of the last flash sector and
`image` is `buffer[]` of `eeprom_image.c`. Every `eeprom_write()` rewrites the
sector, so one action is one such call: a handler that makes several
(`machine_boot()`'s initialisation, `mount()`) puts them in `todo`, in the order
of the code, and `WriteNext` makes the next one. `pc` is what `machine_boot()` or
`prompt()` is doing. A restart can come between any two calls, a power loss also
within one, after the erase (`PowerLossInWrite`, `PowerLossInAuto`): all settings
are then 0xff. The sector's two pages cannot be torn between settings, which are
all in the first.

`files` are the images in the root directory, which may change while the power
is off; the search of `mount()` is membership in it. A restart also chooses
whether the card and its file system were found (`sd_fat`). `InitialStore` is
any flash contents but valid settings; `SettingsAssumption` also says that the
names fit in the bytes that are initialised.

`SettingsStore` has the name `asked` for last, the name `remembered` and
`auto_boot`. Its steps say: the name remembered is forgotten before another
one is, only the one asked for is remembered, and a power loss loses all or
nothing.

### SdMedium, SdCard, SdCardAvr

A card has a version, a unit of addresses (`hc`), an opinion on clocks before a
command, and polls it needs to warm up; all of this is external, taken from what
the drivers send and expect. A command is one exchange: the answer is R1 or
nothing. The line may lose an answer or spoil the pattern that CMD8 sends back; for a
store whose answer is lost, the block may or may not have been written.
`sdcard_open()` goes command by command (`cmd0`, `cmd8`, `poll`, `ocr`), since the
card and the driver's flags change on the way; a fetch or a store is one step; a guest's write is two, the fetch and the flush. `buffer`,
`cur_sec`, `ccs` and `preclock_tweak` are the statics of `sdcard_pico.c`. The 512
bytes are the four records of a sector. `missed` is history: the last transfer of
`cur_sec` failed. `sdcard_avr.c` has no retry, no count and no cached number, and
opens only at the start. Left out: the bits of PIO and DMA and the CRC of a block.

### Fat, Fat12, ExfatDir

What a sector holds follows from its number, so the buffer of the driver is the
number of the sector whose contents it has (`io.buffer`) and of the one it is taken
for (`io.cur_sec`); a failed fetch sets only the second. Positions are counted in
directory entries (32 bytes) and, for the guest, in sectors. `last_cluster` and
`last_offset` are the cursor of `fetch_cluster()`. A command of the monitor goes
entry by entry. `NthCluster` is the reference: the chain followed from its start.
`CardIsWhole` says what the code takes for granted of a card: the table and the
sectors of the files are on it, and no file begins where a directory does.
`Fat` has the table entry by entry; that an entry of 12 bits is put together
rightly is the question of `Fat12`, whose `Byte` is the layout of the standard and
whose `Step` and `StepAcross` are the code's arithmetic. In `ExfatDir` a name is a
sequence of characters, because names are compared piece by piece; the walk from
entry to entry is that of `Fat`, but for the sector that begins a further cluster
(`Behind`) and for a directory read without its chain (`NoChain`).

### Terminal

One module for three owners of the console: the prompt, the guest and the user.
`held` is the unget character; `line` is what was typed and not yet fetched.
`buffer`, `size` and `echo` are the line editor's and what the user sees of it;
`esc` and `vt_cnv` the translation of ADM-3A sequences, a sequence of tokens
instead of the bytes of a VT100 (numbers are digit by digit, as the code makes
them). `typed`, `taken`, `sent` are history.

### UartFifo, CdcConsole

The interrupt handler is a process of its own, and every step of the program that
touches a shared variable is one: `con_getchar()` increments `rdptr`, then masks
it; `con_putchar()` looks at the line with the interrupt on and then receives. Of
the bits of a character only their edges and levels matter: a `uart_rx()` that does
not begin with the start bit gives garbage. In `CdcConsole` the handler sends,
receives and answers requests in stages, since its inner loops wait for the host. A
bus reset comes between two requests (a bound, see section 6). Endpoint banks are what the host has yet to fetch
or has left. Characters are numbered in order.

### Ioext, NaclHost

`Ioext` has the lines /IOE, /DATA, /W, /READY and both drivers of the data bus; a
wait of either side is a place, and the first wait of the host may time out.
`NaclHost` has the mutex that one thread locks and the other unlocks, the flag,
the timer and the prompt, which polls for a key and sleeps a tick between polls.

### Alu8080, Cpu8080

The helpers `add()` to `daa()` are operators from operands and flags to result and
flags; an action is an instruction, decoded by the fields of its opcode. Memory and
ports are those of the callbacks of `machine.c`. Programs (`Guests`) are a
constant.

## 3. Runs

| run | question | bounds |
|---|---|---|
| `flash_disk` | does the cache implement `GuestDisk`; are the settings safe; is an upload durable | 3 sectors of 2 records, a disk of 3 records, the settings in the last sector, drives 0, 8 and one that does not exist, 3 records on each drive, 2 contents |
| `flash_download` | do `xs` and `fd` show the guest's disk: **violated** | the same |
| `xmodem` | order, completeness, end of a transfer | 4 blocks, 2 faults, 2 sync tries, 3 transmissions, 2 EOTs |
| `xmodem_wrap` | order when packet numbers wrap | 6 blocks, 5 fit, 4 numbers, 3 faults |
| `xmodem_success` | is a transfer that both ends report as successful complete: **violated** | as `xmodem` |
| `settings` | does a restart find the image asked for last, or none | 6 bytes, 3 names of 1 and 2 characters, new flash or flash with other contents |
| `settings_guest` | does the guest run on an image file only: **violated** | the same |
| `sd_card` | is the card found, addressed in its unit, read and written where asked; does each call return | six kinds of card on the Pico with one lost answer, or three and an empty slot with one exchange; three kinds on the AVR; 2 sectors of 2 records, 2 polls |
| `files` | do `ls`, `cd`, `m` and the guest see the directory and the file as they are | FAT16; FAT32 with one failed fetch and one second `fat_init()`; five FAT12 tables; an exFAT directory |
| `consoles` | are characters kept, in order, and shown as they are | six keys, lines of 2; a guest's four bytes out of six; a UART ring of 4; USB rings of 3 and 4 |
| `handshakes` | does each wait end, and is what was asked for done | 3 calls, 2 timeouts, 1 restart of the device; 11 control requests, one bus reset; 3 keys in the browser |
| `cpu` | do guests compute what they should | guests in 128 bytes of memory, inputs 0, 1, 9, 128, 153, 255 |

All others hold. Deadlock is checked where the system has no end. It is not in
`files`, `consoles`, `handshakes` and `cpu`, where a bound (walks, characters,
requests) or the guest's HALT stops the part that runs.

Why the bounds are enough. *Flash*: a sector of two records lets a write leave the
other record alone; drive A ends and drive I begins in the middle of a sector as
on the device (256256 = 62.56 * 4096), so both reach a common sector; drive I goes on
to the settings' sector, both its settings and the rest of it; one sector is
cached, others are not. There is no bound on the length of a behaviour.
*Transfer*: four blocks give a first, a middle and a last packet; three
transmissions let one packet be copied and still be given up; two sync tries let
the receiver go from "C" to NAK and give up. `MaxFaults` is the only bound on
behaviours. *Settings*: a shorter name over a longer one shows a missing end, two
of the same length show a mixture, and the other contents hold a name that was
never asked for; restarts and power losses are not bounded. *SD card*: sector 1
has byte address 2, so a wrong unit names another sector or none; one card that needs
three polls is too slow for two, and another gets ready at the poll at which it is
given up; the lost answer, write protection and a store by the monitor come one in
a behaviour, none of them while cards are exchanged (`Line`, `Slot`); cards of
version 1 are not exchanged (section 4). *Files*:
clusters of two sectors of two entries and a table of three sectors, so that each
boundary (entry, sector, cluster, table sector) comes at another place; one file
lies in a row, one is fragmented and goes backwards once, the directory SUB is
followed by unused entries; the FAT12 entries 5 (odd) and 10 (even) lie across two
sectors, and tables with a loop, with numbers out of range and with every nibble
different are among the five; exFAT names of one to four characters in pieces of
two, one longer than is kept and one behind the end mark. *Consoles*: a line
of two is filled, erased and recalled with six keys; a ring of four wraps with six
characters, and both sizes that are one off are reached; the transmit ring of
three is full with two. *Handshakes*: a call that timed out, the one it disturbs and the one
after; descriptors with an empty last packet, a cut one and one of three
packets; the line coding in its length and a longer one. *CPU*: the six inputs are
both ends, the sign, a digit and two digits of each operand; every opcode is
executed by some guest.

Fairness is weak fairness of what runs by itself, and of nothing else. `Xmodem`: each
end, because every wait of `_inbyte()` ends; the line owes nothing. `SdCard`,
`SdCardAvr`: the driver's next command. `Fat12`: the next link. `Ioext`: host and
device, each a loop. `CdcConsole`: the program, the interrupt handler, its inner
loops, and a host that polls its endpoints and enumerates after a reset, as USB
demands. `NaclHost`: the boot message, the timer and the machine's thread.
`FlashDisk`, `Settings`, `Fat`, `ExfatDir`, `Terminal`, `UartFifo` and `Cpu8080` state none: there
nothing has to happen, or each handler is one step.

What `settings` does not hide: a start mounts the remembered image and writes its
name again, so a power loss during a start in which the user changed nothing can
lose the name, or all settings.

## 4. What the code does otherwise

Three statements of the repository are violated, each by a run.

- `xs` and `fd` read the flash while the guest's last write is in the buffer
  (`flash_download`).
- A duplicate ACK acknowledges a packet that is then lost, the later ones are
  rejected as unexpected, and the transmitter goes on: a block is missing though
  both ends return a length (`xmodem_success`).
- A mount that fails leaves the guest, booted by `b` or automatically, on the raw
  sectors of the card (`settings_guest`).

The following have no run of their own. Where a property above holds, it is
stated so that it leaves the case out, or the instance does not contain it; the
definition and the constants given show the case when TLC checks them.

| code | what it does | shown by |
|---|---|---|
| `machine.c:988` | drive I has 255 tracks of 128 records from record 2002 on: its records from 2016 are the settings' sector | `SettingsIntact` in `FlashDisk.cfg` |
| `sdcard_picoflash.c:276` | `xr` prints a CRC taken before the last sector is flushed | `PrintedCrcOfImage` in `FlashDisk.cfg` |
| `xmodem.c:204` | `(unsigned char)packetno-1` is -1 after a wrap: a copy of packet 255 is rejected instead of acknowledged | `FaultlessComplete` in `XmodemWrap.cfg` with `Blocks = 5`, `MaxRetrans = 2`, `MaxFaults = 0` |
| `cpu_8080.c:399` | DAA looks at the upper digit before the lower digit's carry is added to it: 99 + 1 gives A0 and no carry; so whenever the upper digits make 9 and the lower 10 to 15 | `DaaIsDecimal` in `Cpu8080.cfg`; `DaaDecimal` (section 5) |
| `machine.c:99` | a write whose fetch failed goes into the old buffer and stores that in the new sector | `OthersKept` without `Undisturbed` |
| `sdcard_pico.c:235` | the count is tested before the answer: a card that gets ready at the last poll is given up, yet it then takes commands, in whatever unit the driver last used | `ReadIsRecord`, `OthersKept` without `opened = 0` |
| `sdcard_pico.c:260` | opening a card of version 1 keeps the unit of the card before | `OpenKnowsCard` with a version 1 card in `Exchangeable` |
| `machine.c:449` | a result of -1 in a plain `char` is shown as success where `char` has no sign, as on the Pico | `ShownIsResult` with `CharSigned = FALSE`; `ConsoleSays` (section 5) |
| `sdcard_avr.c:286` | the flush passes a sector number where a byte address is expected, and stores another sector | `WriteIsDone` of `SdCardAvr` |
| `fat.c:156` | `>` for `>=`: the first sector of a cluster is taken to follow the last one of the cluster before | `RequestServed` in place of `RequestServedWithin`; for directories, `MountFindsName` of `ExfatDir` with `Contiguous = FALSE` before any file is open |
| `machine.c:102` | a write past the end of the file goes into the block read before | `PastEndRefused` in `Files.cfg` |
| `fat.c:382` | the kind of FAT is chosen with the geometry of the call before | `KindKept` with `FatFirst = 8`, `Max12 = 8`, `MaxInits = 1` |
| `fat.c:138` | the place noted outlives what is in the buffer: after a request of the guest to the raw card, `ls` takes the buffer for the root's first sector | `LsIsDirectory` with a root of one name in its first sector |
| `fat.c:289` | the same after `fat_init()` by `cd`: the guest's next request of the sector it read last gets the boot sector | `SectorServed` with `MaxInits = 1` |
| `fat.c:551` | the room for a name is what the name before has left of the buffer | `MountFindsName` with a long name before the one asked for |
| `fat.c:144` | a directory is read without its chain when the open file has none | `LsShowsAll` of `ExfatDir` with `Contiguous = FALSE`, once such a file is open |
| `fat.c:630`, `:607` | mounting an empty file keeps the file before; `cd` takes the cluster from the place where a FAT entry would have it | `MountedPlace` with an empty file after another; `CdEnters` |
| `io_avr.c:91` | a device that answers after the timeout takes the next call's first phase for its second | `PhasesAgree`, `NoContention` without `Undisturbed` |
| `machine.c:1035` | IN 0 returns 0 when nothing was received, and FF otherwise (`DesignNote.md:301` says FF when nothing was) | `StatusAsDocumented` in `Consoles.cfg` |
| `machine.c:344` | a line holds 16 characters, so no name of 30 can be given to `m` (`DesignNote.md:293`) | `NameTaken` in `Consoles.cfg` |
| `con_posix.c:145` | a second IN 0 drops the character the first has read | `InputKept` with `Kind = "posix"` |
| `con_avr_cdc.c:294` | after a full packet another one follows, an empty one if need be, even when the host asked for just what the full ones hold: when the next request comes first, the empty packet answers it | `DescriptorWhole` with `R("descriptor", 67, 32)` in `Requests` of `MCHandshakes` |
| `con_avr_uart.c:74` | with `rdptr` 0 the character that fills the ring makes it empty | `PeekTrue` of `UartFifo` |
| `con_avr_uart.c:125` | the handler takes the character first, and `con_putchar()` receives another one that nobody sent | `ReceivedWereSent` of `UartFifo` |

Also seen while reading, and left as nondeterminism or out: an interrupt of the
USB console whose cause is not cleared comes again at once; `esc` survives the
guest's stop; ctrl-P at the first prompt recalls a buffer nobody has written.

## 5. Proofs

All are theorems for every value of the constants that meets the assumptions
named in the modules.

`FlashDiskProofs`. `TypeCorrect` rests on `TypeOK` alone, which is inductive; the
work is arithmetic (a record of a request has a sector of the area and a slot of a
sector: `ModArith`). None of the theorems keeps the guest out of the settings'
sector. The settings are rewritten past the cache, so a clean buffer equals its
sector up to them (`BufferCoherent`). That is enough because a clean buffer is never
written: what puts old settings back is a dirty buffer, and the only way to a dirty
buffer of that sector is a write of the guest to it, as an upload ends before it. The
inductive invariant (`InvHolds`) says so: types, `BufferCoherent`, `SettingsKept`,
and that without such a write no dirty buffer is of that sector. Then `SettingsSafe`
follows, and `FlashDiskImplements` maps the initial states and every action to a
step of `GuestDisk` or a stutter, with the record that was asked for.
`UploadReachesFlash` needs the same invariant: a clean buffer is its sector, so
after the flush of `end_flash_write()` nothing of the disk is in the buffer only.

`XmodemProofs`. The invariant `Inv` says what travels: a packet's number is its
block's number modulo `SeqSpan`; there is an EOT only after the last
acknowledgement; the receiver's number follows the blocks it has. `TypeCorrect`
and `NormalEnd` follow for all constants. `OrderKept` adds `NoWrap`: while numbers
do not wrap, the number of the packet accepted determines its block. 251 packets of
1024 bytes make a disk image, so this covers `xs` and a 1K sender; with 128-byte
packets numbers wrap, and order is then model-checked only (`xmodem_wrap`).
`FaultlessTransfer` is about the retries and late answers of a line that loses
nothing. Its invariant `Flow` describes everything in flight to a receiver that is
not complete: the packets on the line, read from its head, go on from the block
received last without a gap and never go back behind one that came before
(`Continues`), up to the block the transmitter has sent last; and as long as both
ends disagree about the kind of check, no ACK and hence no EOT is under way
(`Stalled`). An EOT that arrives has therefore all blocks before it. `NoWrap` is
needed: with numbers modulo 3 TLC finds a transfer that is cut short.

`SettingsProofs`. Between two writes the store is neither the old settings nor the
new ones, so the invariant says how far a sequence of writes has come
(`InitDone(k)`, `MountDone(k)`: the mark is cleared first, the first `k` bytes are
the new ones), and that a store that is taken for valid holds one of the names.
With it, `SettingsImplement` maps every write to a step of `SettingsStore` or a
stutter: the one that clears the mark forgets, the one that sets it remembers. A
power loss is a step whatever `k`. `MountedIsKept` and `TypeCorrect` follow.

`SdCardProofs`. `TypeCorrect` bounds the counts by the places where they are
compared. The first group is for a card that stays in the slot (`OneCard`), behind a
line that may lose any number of answers. `WriteIsDone` and `BufferCoherent` need
each other: a flush is right if the buffer is, and for the right sector. `Inv` adds
what `ccs` says of the card after an opening that failed later on. `ConsoleSays` is
about what the user is told of a call: `machine_boot()` tells success from failure in
every build, the monitor where `char` has a sign, and elsewhere, as on the Pico, it
shows each call as a success. The second group is about openings and requests from
which no answer is lost, though cards were exchanged before and answers may get lost
later (`QuietInv`, which speaks only of states in which that has not happened).
`Places` says how far the opening has come: how many polls were made against how
many the card needs, and that a card refuses at most one value of the clock tweak,
so one flip is enough (`OneFlip`; the code allows two). `Opened` and
`Served` carry that to the buffer and the guest's memory. From it follow
`OpeningIsExact`, `ReadsAreRecords` and `OtherRecordsKept`. `AvrInv` is the same for
the AVR's driver, which counts no polls and has the unit of its one card; with both,
`CardsAreFound` and `ReadingIsOfTheCard` hold for the two drivers side by side.

`FatProofs`. A walk along a chain is an iterated function, and so is the reference:
`ModArith` has the induction over its rounds. For `Fat12` the invariant says how
far the walk has come and what it holds of an entry across two sectors (`WalkInv`),
and the bytes that two entries of 12 bits share are taken apart again (`Halves`);
`ChainIsWalked` follows for every table and every size of a sector. For FAT16 and
FAT32, `RoundsOfWalk` counts the rounds to a position, one less than the links where
the position is the first of a cluster, and `WalkServes` says which sector they
lead to. `RequestServedWithin` alone is not inductive: a second look at the place
noted fetches nothing, so what is noted must also be what is held. `FatInv` says
so (`NotedIsHeld`) and adds why nothing else gets in between: a command of the
monitor notes a place of a directory before it turns the guest to the raw card,
where requests fetch without a note. Failed fetches and `cd` without a name break
that, so this part is `Undisturbed`; then `RequestsServed` follows. What remains
after them, for a request that fetches at all, is `ServedOverFaults`. These are the
two halves of `SectorServed` of the run `files`; both assume `CardIsWhole`, which TLC
evaluates on both of its cards.

`ConsoleProofs`. For the IOEXT bus: until a call times out or the device is
restarted, host and device go through their places in step (`IoeInStep`), the bus has
one owner (`IoeBusOwned`), and what was read is what was sent (`IoeRead`). From them
follow `InPhase`, `BusIsShared` and `CallsAreDone`. For the browser, `NaclInv` adds where
the machine's thread is while the timer is between clearing the flag and freeing the
mutex; `TickForEachWait` follows, and `TypedIsKept` from what the thread holds while it
waits (`NaclKeys`).

For the terminal: `CommandIsShown` for every console and length of line: what is
echoed is what `buffer` holds, erasure and recall included. On the Pico,
`InputNotLost` (what was typed is what was read, the held character, and the rest)
and `StatusIsTrue`. For the AVR's rings, `CharactersInOrder` and `LossOnlyWhenFull`
hold for every size of ring, number of characters and interleaving of program,
handler and host. The rings are proved once, as cyclic arrays with two indices:
taking advances the contents by one, adding appends, and neither touches the rest
(the ring lemmas). `UInv` and `CInv` then say that the contents increase, that they
lie between what was delivered and what is to come, and what each process has read of
an index and not yet written back; that is what an interrupt between read and update
could spoil, and what the increment before the mask, in `con_getchar()`, does not.

`DescriptorsWhole`: the host gets as much of a descriptor as it asks for and as there
is, for every packet size. `ControlInv` says where a transfer is (asked, in
`ep_write()`, last packet waiting) and that what the host has, what waits for it and
what the handler has left make up the whole. The theorem assumes `AsksUneven`, that
no length asked for is a multiple of a packet within the descriptor; without it the
property fails (section 4, `con_avr_cdc.c:294`).

`Cpu8080Proofs`. `TypeCorrect` goes through all instructions: none writes a value
into a register, a flag or a memory cell that does not fit it. `StackKept`: what
call, RST and PUSH store is where ret and POP look for it, for every stack pointer
and a memory of more than one byte that repeats within the address space
(`Mirrored`; the Pico's has 65536 bytes, and the runs use smaller ones). Carry and
result of ADD, ADC, SUB, SBB and DAD are exact for all operands (the code finds the
carry by a comparison with one of them, which is where a carry in could go wrong),
and so are double words added by halves. `DaaDecimal` says for all pairs of decimal
bytes where DAA is right, and what it gives where it is not.

Only model-checked:

- order in a wrapped transfer, whose truth depends on how many ACKs are in flight;
- the guests of `cpu` (`WordArithmetic`, `CallsReturn`, `DaaIsDecimalExceptNine`):
  the operators and the stack behind them are proved, a program is run;
- `OutTranslated`, whose reference is a recursive operator;
- what `ls`, `cd` and `m` find in a directory (`LsShowsDirectory`, `LookupFinds`), whose
  reference selects from a sequence;
- of the control requests of the USB console, that each is answered;
- all liveness, which is out of the prover's reach, and ENABLED.

## 6. Not modelled

`i8080.S` is the same processor in AVR assembler; `sram_avr*.S` and the PIO
program of `spi_pico.c` are the timing of signals, which is a matter of nanoseconds
and not of states. `sdcard_softpico.c` is the Pico driver over another transport.
Disks in host files, U-Boot and UEFI variants and the settings of other
platforms are library calls. LEDs, ports and debug output keep no state another
part reads. Of modelled components: the monitor's commands that read, write and
dump memory, ports and sectors; the integer widths of FAT's geometry and the
attributes only `ls` shows; a remembered name longer than its buffer (what it
overwrites depends on the compiler); the destructor of the Native Client module and
its reset by `longjmp()`; a bus reset
while the USB console's handler waits for the host in the middle of a request
(`con_avr_cdc.c:303`, `:435`): whether such a wait ends depends on what the
controller shows of an endpoint that the reset has closed.

## 7. Plan

In this order: the order of a wrapped transfer under a bound on the ACKs in
flight, as a theorem; a bounded queue that `UartFifo` and `CdcConsole` implement;
the walk through a directory of consecutive clusters, as a theorem; the guest's
positions over a file of the FAT disk in the integer widths of `out()`.
