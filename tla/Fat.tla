-------------------------------- MODULE Fat --------------------------------
(***************************************************************************)
(* fat.c, one open file of a FAT12, FAT16 or FAT32 card, under mount(), ls *)
(* and cd of the monitor and the guest's disk requests (machine.c), over   *)
(* the one-sector buffer of the card driver.  What a sector holds is given *)
(* by its number: the buffer is modelled by the number of the sector whose *)
(* contents it has.  Positions are counted in directory entries, of which  *)
(* a sector has EntriesPerSector.  A fetch may fail MaxFaults times; the   *)
(* driver then keeps the buffer and the number of the sector it asked for. *)
(***************************************************************************)
EXTENDS Integers, Sequences, FiniteSets

CONSTANTS
  EntriesPerSector,    \* 512 / 32
  Spc,                 \* sectors_per_cluster
  FatFirst, Reserved, FatSectors, RootSectors, Totsec,  \* of the boot sector
  LinksPerSector,      \* entries of the table in one sector
  Chain,               \* the table: next cluster of a cluster, or Eoc
  Directory,           \* sectors of directories -> entries
  DirEntries,          \* entries fat_next() looks at
  RootCluster,         \* dir_cluster of the root: 0, or a cluster of FAT32
  Max12, Max16,        \* greatest number of clusters of FAT12 and FAT16
  Span,                \* 2^32: unsigned long
  Names, Junk,         \* names of entries; the name of what is no entry
  Positions,           \* sectors the guest asks for, from the file's start
  MaxFaults, MaxInits  \* bounds: failed fetches, and cd without a name

Eoc == 0
Clusters == DOMAIN Chain
Entry == [kind : {"file", "dir", "free", "lfn", "end"}, name : Names,
          cluster : Clusters \cup {0}, size : Nat]
BootSector == FatFirst
TopOfDir == FatFirst + Reserved + FatSectors
TopOfCluster == TopOfDir + RootSectors
Sectors == 0 .. FatFirst + Totsec - 1

FatAssumption ==
  /\ {EntriesPerSector, Spc, LinksPerSector, Totsec} \subseteq Nat \ {0}
  /\ {FatFirst, Reserved, FatSectors, RootSectors} \subseteq Nat
  /\ Chain \in [Clusters -> Clusters \cup {Eoc}]
  /\ Clusters \subseteq Nat \ {0, 1}
  /\ Directory \in [DOMAIN Directory -> Seq(Entry)]
  /\ \A s \in DOMAIN Directory : /\ s \in Sectors
                                 /\ Len(Directory[s]) = EntriesPerSector
  /\ RootCluster \in Clusters \cup {0} /\ Junk \notin Names
  /\ Positions \subseteq Nat /\ MaxFaults \in Nat /\ MaxInits \in Nat

VARIABLES
  io,          \* [buffer, cur_sec, last_cluster, last_offset]
  faults, inits,
  kind,        \* fs_desc: "fat12", "fat16", "fat32" or "none"
  top_of_cluster, dir_cluster, dir_offset,
  file,        \* [file_cluster, file_size]
  file_offset,
  sd_fat,      \* the guest's disk is the file
  pc,          \* "boot", "prompt", or the command walking the directory
  arg,         \* its name
  shown,       \* what the command has written: names, "ok" or "err"
  request      \* the guest's last request (history): position or None

fatVars == <<kind, top_of_cluster, dir_cluster, dir_offset>>
fileVars == <<file, file_offset, sd_fat>>
command == <<pc, arg, shown>>
vars == <<io, faults, inits, fatVars, fileVars, command, request>>

None == -1
NoFile == [cluster |-> 0, size |-> 0]

Init == /\ io = [buffer |-> None, cur_sec |-> None,
                 last_cluster |-> None, last_offset |-> 0]
        /\ faults = MaxFaults /\ inits = MaxInits
        /\ kind = "none" /\ top_of_cluster = 0
        /\ dir_cluster = 0 /\ dir_offset = None
        /\ file = NoFile /\ file_offset = 0 /\ sd_fat = FALSE
        /\ pc = "boot" /\ arg = Junk /\ shown = << >> /\ request = None
-----------------------------------------------------------------------------
(* Reading sectors.  `bad' is a sector whose next fetch fails, or None;     *)
(* `stale' is the link found where a failed fetch left other data.          *)

\* sdcard_fetch_sec(): see SdCard.
Fetched(d, s, bad) ==
  IF d.cur_sec = s THEN [io |-> d, rc |-> 0]
  ELSE IF s = bad \/ s \notin Sectors
       THEN [io |-> [d EXCEPT !.cur_sec = s], rc |-> -1]
       ELSE [io |-> [d EXCEPT !.cur_sec = s, !.buffer = s], rc |-> 0]

\* The sector of the table with the link of cluster c; the link itself, when
\* the buffer has that sector.
TableSector(c) == FatFirst + Reserved + c \div LinksPerSector
Link(d, c, stale) == CASE c \notin Clusters -> Eoc
                       [] c \in Clusters /\ d.buffer = TableSector(c) -> Chain[c]
                       [] OTHER -> stale

\* The chain is followed while the offset exceeds the cluster: an offset that
\* is just the size of a cluster stays behind.
ClusterEntries == Spc * EntriesPerSector
\* Mutant: the offset is reduced by a sector only.
Kept(offset) == offset - EntriesPerSector
Reduced(offset) == offset - ClusterEntries
SectorIn(cluster, offset) ==
  top_of_cluster + (cluster - 2) * Spc + offset \div EntriesPerSector
\* One link of the chain, and the rest of the walk: `rc' is 0 as long as the
\* walk goes on, and the place is reached when the offset is in the cluster.
Follow(w, bad, stale) ==
  IF w.rc < 0 \/ w.offset <= ClusterEntries THEN w
  ELSE LET t == Fetched(w.io, TableSector(w.cluster), bad)
           next == Link(t.io, w.cluster, stale)
       IN  [io |-> t.io, cluster |-> next, offset |-> Reduced(w.offset),
            rc |-> CASE t.rc < 0 -> t.rc
                     [] t.rc = 0 /\ next = Eoc -> -2
                     [] OTHER -> 0]
\* Each link takes something off the offset.
Walk(d, cluster, offset, bad, stale) ==
  LET walk[n \in 0 .. offset] ==
        IF n = 0 THEN [io |-> d, cluster |-> cluster, offset |-> offset, rc |-> 0]
        ELSE Follow(walk[n - 1], bad, stale)
      end == walk[offset]
  IN  IF end.rc < 0 THEN [io |-> end.io, rc |-> end.rc]
      ELSE Fetched(end.io, SectorIn(end.cluster, end.offset), bad)

\* fetch_cluster(): a second look at the same sector is no fetch at all, and
\* the place is noted before it is reached.
SamePlace(d, cluster, offset) ==
  /\ d.last_cluster = cluster
  /\ d.last_offset \div EntriesPerSector = offset \div EntriesPerSector
FetchCluster(d, cluster, offset, bad, stale) ==
  LET noted == [d EXCEPT !.last_cluster = cluster, !.last_offset = offset]
  IN  CASE SamePlace(d, cluster, offset) -> [io |-> d, rc |-> 0]
        [] ~SamePlace(d, cluster, offset) /\ cluster = 0 ->
             Fetched(noted, TopOfDir + offset \div EntriesPerSector, bad)
        [] OTHER -> Walk(noted, cluster, offset, bad, stale)

\* A fetch may fail while the bound lasts, at any sector.
Bad(bad) == \/ bad = None /\ UNCHANGED faults
            \/ /\ faults > 0 /\ bad \in Sectors
               /\ faults' = faults - 1

\* The directory entry at an offset, from whatever the buffer holds.
JunkEntry == [kind |-> "file", name |-> Junk, cluster |-> 0, size |-> 0]
EntryAt(d, offset) ==
  IF d.buffer \in DOMAIN Directory
  THEN Directory[d.buffer][(offset % EntriesPerSector) + 1]
  ELSE JunkEntry
-----------------------------------------------------------------------------
(* fat_init(), at the start and by cd without a name.                       *)

\* The number of clusters is computed before top_of_cluster is set: from 0 at
\* the start, and from the value of the call before afterwards.
ClusterCount(top) == ((Totsec - top) % Span) \div Spc
Kind(top) == CASE ClusterCount(top) <= Max12 -> "fat12"
               [] Max12 < ClusterCount(top) /\ ClusterCount(top) <= Max16 ->
                    "fat16"
               [] OTHER -> "fat32"

\* The boot sector: sector 0 first, then the one the partition table names.
Booted(bad) == LET mbr == Fetched(io, 0, bad)
               IN  IF mbr.rc < 0 \/ FatFirst = 0 THEN mbr
                   ELSE Fetched(mbr.io, BootSector, bad)
FatInit ==
  \E bad \in Sectors \cup {None} :
    /\ Bad(bad)
    /\ io' = Booted(bad).io
    /\ IF Booted(bad).rc < 0
       THEN /\ sd_fat' = IF pc = "boot" THEN FALSE ELSE sd_fat
            /\ UNCHANGED fatVars
       ELSE /\ sd_fat' = IF pc = "boot" THEN TRUE ELSE sd_fat
            /\ kind' = Kind(top_of_cluster)
            /\ top_of_cluster' = TopOfCluster
            /\ dir_cluster' = IF kind' = "fat32" THEN RootCluster ELSE 0
            /\ dir_offset' = None
Boot == /\ pc = "boot" /\ FatInit
        /\ pc' = "prompt"
        /\ UNCHANGED <<inits, file, file_offset, arg, shown, request>>
\* Bound: not just after a failed fetch, when another sector may stand for
\* sector 0.
Cd == /\ pc = "prompt" /\ inits > 0 /\ inits' = inits - 1
      /\ io.cur_sec = io.buffer
      /\ FatInit
      /\ request' = None
      /\ UNCHANGED <<file, file_offset, command>>
-----------------------------------------------------------------------------
(* m, ls and cd with a name walk the directory.                             *)

Walks(cmd, name) == /\ pc = "prompt"
                    /\ pc' = cmd /\ arg' = name /\ shown' = << >>
                    /\ dir_offset' = None     \* fat_rewind()
                    /\ request' = None
                    /\ UNCHANGED <<io, faults, inits, kind, top_of_cluster>>
                    /\ UNCHANGED <<dir_cluster, fileVars>>
Ls == Walks("ls", Junk)
M(name) == Walks("m", name)
CdTo(name) == Walks("cd", name)

\* The command ends: m tells whether it found the file, and turns the guest's
\* disk to it or away from it.
Ends(found) ==
  /\ pc' = "prompt"
  /\ shown' = IF pc = "m" THEN IF found THEN <<"ok">> ELSE <<"err">>
              ELSE shown
  /\ sd_fat' = IF pc = "m" THEN found ELSE sd_fat

\* fat_open() of the entry: fat_seek(0) leaves file_offset alone when the file
\* is empty.
FatOpen(e) == /\ file' = [cluster |-> e.cluster, size |-> e.size]
              /\ file_offset' = IF e.size = 0 THEN file_offset ELSE 0

\* One entry of do_fat_next()'s loop, and what the command does with it.
Fits(e) == e.name = arg /\ e.kind = (IF pc = "m" THEN "file" ELSE "dir")
\* Mutant: an unused entry ends the directory.
EndsAtFree(e) == e.kind \in {"free", "end"}
EndsAt(e) == e.kind = "end"
Step(d, e) ==
  /\ dir_offset' = IF pc = "cd" /\ ~EndsAt(e) /\ Fits(e)
                   THEN None ELSE dir_offset + 1
  /\ CASE EndsAt(e) ->
            Ends(FALSE) /\ UNCHANGED <<file, file_offset, dir_cluster>>
       [] ~EndsAt(e) /\ e.kind \in {"free", "lfn"} ->
            UNCHANGED <<pc, shown, fileVars, dir_cluster>>
       [] ~EndsAt(e) /\ e.kind \in {"file", "dir"} /\ pc = "ls" ->
            /\ shown' = Append(shown, e.name)
            /\ UNCHANGED <<pc, fileVars, dir_cluster>>
       [] ~EndsAt(e) /\ pc = "m" /\ Fits(e) ->
            Ends(TRUE) /\ FatOpen(e) /\ UNCHANGED dir_cluster
       [] ~EndsAt(e) /\ pc = "cd" /\ Fits(e) ->
            \* fat_chdir()
            /\ Ends(TRUE) /\ dir_cluster' = e.cluster
            /\ UNCHANGED <<file, file_offset>>
       [] OTHER -> UNCHANGED <<pc, shown, fileVars, dir_cluster>>
\* Known from the first successful fat_init() on.
dir_entries == IF kind = "none" THEN 0 ELSE DirEntries
FatNext ==
  /\ pc \in {"m", "ls", "cd"}
  /\ \/ /\ dir_offset + 1 >= dir_entries
        /\ Ends(FALSE)
        /\ dir_offset' = dir_offset + 1
        /\ UNCHANGED <<io, faults, file, file_offset, dir_cluster>>
     \/ /\ dir_offset + 1 < dir_entries
        /\ \E bad \in Sectors \cup {None}, stale \in Clusters \cup {Eoc} :
             LET t == FetchCluster(io, dir_cluster, dir_offset + 1, bad, stale)
             IN  /\ Bad(bad)
                 /\ io' = t.io
                 /\ IF t.rc < 0
                    THEN /\ Ends(FALSE) /\ dir_offset' = dir_offset + 1
                         /\ UNCHANGED <<file, file_offset, dir_cluster>>
                    ELSE Step(t.io, EntryAt(t.io, dir_offset + 1))
  /\ UNCHANGED <<inits, kind, top_of_cluster, arg, request>>
-----------------------------------------------------------------------------
(* The guest: disk_read() of port 13, for a read or before a write, which   *)
(* then puts its record into the buffer and stores it to cur_sec.           *)

\* fat_seek() fails past the end and leaves file_offset alone; disk_read()
\* reads all the same.
SeekFits(p) == p < file.size
Seek(p) == file_offset' = IF SeekFits(p) THEN p * EntriesPerSector
                          ELSE file_offset
Request(p) ==
  /\ pc = "prompt"
  /\ request' = p
  /\ IF sd_fat
     THEN /\ Seek(p)
          /\ \E bad \in Sectors \cup {None}, stale \in Clusters \cup {Eoc} :
               /\ Bad(bad)
               /\ io' = FetchCluster(io, file.cluster, file_offset',
                                     bad, stale).io
     ELSE /\ UNCHANGED file_offset
          /\ \E bad \in Sectors \cup {None} :
               Bad(bad) /\ io' = Fetched(io, p, bad).io
  /\ UNCHANGED <<inits, fatVars, file, sd_fat, command>>

Next == \/ Boot \/ Cd \/ Ls \/ FatNext
        \/ \E n \in Names : M(n) \/ CdTo(n)
        \/ \E p \in Positions : Request(p)

Spec == Init /\ [][Next]_vars
-----------------------------------------------------------------------------
(* Properties, those with a prime of every step.  The reference: the n-th   *)
(* cluster of a chain, the sectors of a directory, its entries up to the    *)
(* end mark.                                                                *)

NthCluster(first, n) ==
  LET nth[i \in 0 .. n] == IF i = 0 THEN first
                           ELSE IF nth[i - 1] \in Clusters THEN Chain[nth[i - 1]]
                           ELSE Eoc
  IN  nth[n]
SectorOf(cluster, p) ==
  TopOfCluster + (NthCluster(cluster, p \div Spc) - 2) * Spc + (p % Spc)
DirSectors(cluster) ==
  IF cluster = 0 THEN [i \in 1 .. RootSectors |-> TopOfDir + i - 1]
  ELSE LET last == CHOOSE n \in 0 .. Cardinality(Clusters) :
                        Chain[NthCluster(cluster, n)] = Eoc
       IN  [i \in 1 .. (last + 1) * Spc |-> SectorOf(cluster, i - 1)]
Listing(cluster) ==
  LET sectors == DirSectors(cluster)
      all == [i \in 1 .. Len(sectors) * EntriesPerSector |->
                Directory[sectors[((i - 1) \div EntriesPerSector) + 1]]
                         [((i - 1) % EntriesPerSector) + 1]]
      live == {i \in DOMAIN all : \A j \in 1 .. i : all[j].kind # "end"}
  IN  SelectSeq(SubSeq(all, 1, Cardinality(live)),
                LAMBDA e : e.kind \in {"file", "dir"})
Named(cluster, what, name) ==
  {e \in {Listing(cluster)[i] : i \in DOMAIN Listing(cluster)} :
     e.kind = what /\ e.name = name}

\* A card that is whole: the table and all sectors of the files are on it, and
\* its directories begin where no file does, unless that is empty.
Entries == UNION {{Directory[s][i] : i \in 1 .. EntriesPerSector} :
                    s \in DOMAIN Directory}
Files == {e \in Entries : e.kind = "file" /\ e.size > 0}
DirClusters == {0, RootCluster} \cup
               {e.cluster : e \in {x \in Entries : x.kind = "dir"}}
CardIsWhole ==
  /\ DirEntries \in Nat \ {0}
  /\ \A c \in Clusters : TableSector(c) \in Sectors
  /\ \A e \in Files : /\ e.cluster \notin DirClusters
                       /\ \A p \in 0 .. e.size - 1 :
                            /\ NthCluster(e.cluster, p \div Spc) \in Clusters
                            /\ SectorOf(e.cluster, p) \in Sectors

\* The guest's request gets the sector of the file that the chain of the table
\* tells, and a write goes back to it (DesignNote.md:335).
OnFile == pc = "prompt" /\ request # None /\ sd_fat /\ request < file.size
AtItsSector == /\ io.buffer = SectorOf(file.cluster, request)
               /\ io.cur_sec = SectorOf(file.cluster, request)
RequestServed == OnFile => AtItsSector

\* The same, but for the first sector of a cluster that does not follow the
\* one before it.
FollowsOn == NthCluster(file.cluster, request \div Spc)
               = NthCluster(file.cluster, request \div Spc - 1) + 1
Within == request % Spc # 0 \/ request < Spc \/ FollowsOn
RequestServedWithin == OnFile /\ Within => AtItsSector

\* No fetch has failed, and fat_init() was not called again.
Undisturbed == faults = MaxFaults /\ inits = MaxInits

\* And after anything else that used the buffer, failed fetches among it, once
\* another fetch has succeeded: a request that fetches at all, and has no fault
\* of its own, gets the right sector.
ServedAfterAll ==
  request' # None /\ io' # io /\ io.cur_sec = io.buffer /\ faults' = faults
    => RequestServedWithin'

\* A request past the end of the file leaves the file's sectors alone.
PastEndRefused ==
  pc = "prompt" /\ sd_fat /\ request # None /\ request >= file.size =>
    \A p \in 0 .. file.size - 1 : io.cur_sec # SectorOf(file.cluster, p)

\* ls shows the names of the current directory, in order and up to its end.
LsIsDirectory ==
  pc = "ls" /\ pc' = "prompt" =>
    shown' = [i \in DOMAIN Listing(dir_cluster) |->
                Listing(dir_cluster)[i].name]

\* m succeeds just for the files of the current directory, and the guest's
\* disk is then that file; cd enters just its directories.
MountFindsFile ==
  pc = "m" /\ pc' = "prompt" =>
    /\ sd_fat' <=> Named(dir_cluster, "file", arg) # {}
    /\ sd_fat' => \E e \in Named(dir_cluster, "file", arg) :
                     file' = [cluster |-> e.cluster, size |-> e.size]
CdFindsDirectory ==
  pc = "cd" /\ pc' = "prompt" =>
    LET found == Named(dir_cluster, "dir", arg)
    IN  \/ found = {} /\ dir_cluster' = dir_cluster
        \/ \E e \in found : dir_cluster' = e.cluster

\* A second fat_init() finds the same kind of file system.
KindKept == kind # "none" => kind' = kind
=============================================================================
