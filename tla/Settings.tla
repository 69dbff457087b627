------------------------------ MODULE Settings ------------------------------
(***************************************************************************)
(* The settings of the SD card build: eeprom_image.c keeps an image in RAM *)
(* and eeprom_pico.c rewrites the last flash sector for every byte that    *)
(* changes; machine.c initialises them, remembers the mounted disk image   *)
(* in them, and mounts and boots from them at a restart.  One action is    *)
(* one eeprom_write(): a power loss can come between any two of them, or   *)
(* within one, when the sector is erased and not yet programmed.           *)
(***************************************************************************)
EXTENDS Integers, Sequences

CONSTANTS
  Bytes,        \* bytes that machine_boot() initialises: 256
  AutoAt,       \* address of the automatic boot flag: 8
  MarkAt,       \* address of the mark of a valid name: 16, the name follows
  Set, Erased,  \* 0x88, and an erased byte
  Chars,        \* characters of a name
  Names,        \* names of disk images: sequences of characters
  InitialStore, \* contents of the flash sector before the first start
  None

NameAt == MarkAt + 1
Byte == {0, Set, Erased} \cup Chars
Addresses == 0 .. Bytes - 1

ASSUME SettingsAssumption ==
  /\ Bytes \in Nat /\ AutoAt \in Nat /\ MarkAt \in Nat
  /\ 0 < AutoAt /\ AutoAt < MarkAt /\ MarkAt < Bytes
  /\ Set # 0 /\ Erased # 0 /\ Set # Erased
  /\ 0 \notin Chars
  /\ Names \subseteq Seq(Chars)
  /\ \A n \in Names : NameAt + Len(n) \in Addresses
  /\ None \notin Names
  /\ InitialStore \subseteq [Addresses -> Byte]
  /\ \A s \in InitialStore : s[0] # Set

VARIABLES
  store,   \* the settings in the flash
  image,   \* buffer[] of eeprom_image.c
  pc,      \* "off", "boot", "init", "mount" (of a restart), "auto", "prompt",
           \* "m" (the command), "guest"
  todo,    \* eeprom_write() calls the handler has yet to make
  name,    \* argument of mount()
  files,   \* the image files on the card
  sd_fat   \* disk requests go to the mounted file

vars == <<store, image, pc, todo, name, files, sd_fat>>

Init == /\ store \in InitialStore
        /\ image = store
        /\ pc = "off" /\ todo = << >> /\ name = None
        /\ files = {} /\ sd_fat = FALSE
-----------------------------------------------------------------------------
\* eeprom_write(): change the image, rewrite the sector.
Write(a, v) == /\ image' = [image EXCEPT ![a] = v]
               /\ store' = image'

\* The sequences of calls.
\* Mutant: the mark of valid settings first.
InitMarkFirst == << <<0, Set>> >> \o [i \in 1 .. Bytes - 1 |-> <<i, 0>>]
InitWrites == [i \in 1 .. Bytes |-> <<i - 1, 0>>] \o << <<0, Set>> >>

\* Mutant: the name without its end.
NameWithoutEnd(n) == [i \in 1 .. Len(n) |-> <<NameAt + i - 1, n[i]>>]
NameWrites(n) == [i \in 1 .. Len(n) |-> <<NameAt + i - 1, n[i]>>]
                 \o << <<NameAt + Len(n), 0>> >>
\* Mutant: the old mark stays while the name changes.
MountWithoutClear(n) == NameWrites(n) \o << <<MarkAt, Set>> >>
MountWrites(n) == << <<MarkAt, 0>> >> \o NameWrites(n) \o << <<MarkAt, Set>> >>

\* The string at NameAt: eeprom_read_string().
Ends(s) == {a \in Addresses : a >= NameAt /\ s[a] = 0}
NameIn(s) == LET end == CHOOSE a \in Ends(s) : \A b \in Ends(s) : a <= b
             IN [i \in 1 .. end - NameAt |-> s[NameAt + i - 1]]

\* Power on or reset: the RAM is lost, the image is loaded, the card may have
\* been changed.
Start == /\ pc' = "boot"
         /\ image' = store'
         /\ todo' = << >> /\ name' = None
         /\ files' \in SUBSET Names
         /\ sd_fat' \in BOOLEAN     \* sdcard_open() and fat_init() succeeded
         /\ ~ sd_fat' => files' = {}
Restart == UNCHANGED store /\ Start

\* Power is lost within an eeprom_write(), between erasing and programming.
\* (The settings share one page: a page programmed is a write completed.)
Writing == todo # << >>
PowerLossInWrite == /\ Writing
                    /\ store' = [a \in Addresses |-> Erased]
                    /\ Start

\* machine_boot(): settings that were never written are initialised.
BootInit == /\ pc = "boot"
            /\ image[0] # Set
            /\ pc' = "init" /\ todo' = InitWrites
            /\ UNCHANGED <<store, image, name, files, sd_fat>>

\* mount(): the name is looked up in the directory; if it is found, sd_fat is
\* set and the name is written, even if it comes from the settings.
Mount(n, found, missing) ==
  /\ name' = n
  /\ IF n \in files
     THEN /\ sd_fat' = TRUE /\ pc' = found /\ todo' = MountWrites(n)
     ELSE /\ sd_fat' = FALSE /\ pc' = missing /\ UNCHANGED todo

\* machine_boot(): a valid name is mounted if there is a file system.
BootMount == /\ pc = "boot"
             /\ image[0] = Set
             /\ IF image[MarkAt] = Set /\ sd_fat
                THEN Mount(NameIn(image), "mount", "auto")
                ELSE pc' = "auto" /\ UNCHANGED <<name, sd_fat, todo>>
             /\ UNCHANGED <<store, image, files>>

\* machine_boot(): then the guest is booted, if that is set; mounted or not.
BootAuto == /\ pc = "auto"
            /\ pc' = IF image[AutoAt] = Set THEN "guest" ELSE "prompt"
            /\ UNCHANGED <<store, image, todo, name, files, sd_fat>>

\* `m': mount.
CmdMount(n) == /\ pc = "prompt"
               /\ Mount(n, "m", "prompt")
               /\ UNCHANGED <<store, image, files>>

\* `a on', `a off'.
CmdAuto(v) == /\ pc = "prompt"
              /\ Write(AutoAt, v)
              /\ UNCHANGED <<pc, todo, name, files, sd_fat>>
PowerLossInAuto == /\ pc = "prompt"
                   /\ store' = [a \in Addresses |-> Erased]
                   /\ Start

\* `b' and the end of the guest.
CmdBoot == /\ pc \in {"prompt", "guest"}
           /\ pc' = IF pc = "prompt" THEN "guest" ELSE "prompt"
           /\ UNCHANGED <<store, image, todo, name, files, sd_fat>>

\* The next call; after the last one the handler goes on.
WriteNext ==
  /\ Writing
  /\ Write(Head(todo)[1], Head(todo)[2])
  /\ todo' = Tail(todo)
  /\ pc' = IF todo' # << >> THEN pc
           ELSE IF pc = "mount" THEN "auto" ELSE "prompt"
  /\ UNCHANGED <<name, files, sd_fat>>

Next == \/ BootInit \/ BootMount \/ BootAuto
        \/ \E n \in Names : CmdMount(n)
        \/ \E v \in {0, Set} : CmdAuto(v)
        \/ CmdBoot \/ WriteNext
        \/ Restart \/ PowerLossInWrite \/ PowerLossInAuto

Spec == Init /\ [][Next]_vars
-----------------------------------------------------------------------------
\* Every variable has its type; name is a name that was given to `m', even if
\* it comes from the settings.
TypeOK == /\ store \in [Addresses -> Byte] /\ image \in [Addresses -> Byte]
          /\ pc \in {"off", "boot", "init", "mount", "auto", "prompt", "m", "guest"}
          /\ todo \in Seq(Addresses \X Byte)
          /\ name \in Names \cup {None}
          /\ files \subseteq Names
          /\ sd_fat \in BOOLEAN

\* What a restart would find (machine_boot()).
Remembered == IF store[0] = Set /\ store[MarkAt] = Set THEN NameIn(store) ELSE None

Store == INSTANCE SettingsStore WITH
           asked <- IF pc \in {"mount", "m"} THEN name ELSE Remembered,
           remembered <- Remembered,
           auto_boot <- store[0] = Set /\ store[AutoAt] = Set

\* However the writes of the single bytes and the power losses fall, a restart
\* finds the name asked for last or none, never a mixture of two names or a
\* name out of settings that were never written.
ImplementsStore == Store!Spec

\* While an image is mounted and no handler is at work, a restart would mount
\* the same image: mount() has written the name completely, with its end.
MountedIsRemembered ==
  pc \in {"auto", "prompt", "guest"} /\ sd_fat /\ name # None => Remembered = name

\* DesignNote.md:217 says that with USE_FAT the image file is used.  A failed
\* mount() sets sd_fat to 0 and machine_boot() boots all the same, so that the
\* guest is loaded from, and writes to, the card's own sectors.
GuestOnImage == pc = "guest" /\ name # None => sd_fat
=============================================================================
