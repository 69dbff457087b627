------------------------------ MODULE ExfatDir ------------------------------
(***************************************************************************)
(* Directories of exFAT: fat_next() and fat_name() of fat.c, which gather  *)
(* a name from the entries of a file, and mount(), ls and cd of machine.c, *)
(* which look for one.  A file is an entry 85, then as many more as it     *)
(* says: C0 with the place of the file, and C1 with pieces of its name.    *)
(* Names are told apart by their characters, so sequences of them stand.   *)
(***************************************************************************)
EXTENDS Integers, Sequences

CONSTANTS
  Entries,        \* the directory: a sequence of entries
  EntriesPerCluster, EntriesPerSector,
  Contiguous,     \* its clusters follow each other on the card
  NameStr,        \* MAX_NAMESTR: 30, with the zero at the end
  BufLen,         \* char buf[32] of mount(), name[32] of ls and cd
  Garbage,        \* what cd's buffer, which is not cleared, may hold
  Args            \* names that are asked for

Entry == [type : {"85", "C0", "C1", "unused", "end"}, rest : Nat, dir : BOOLEAN,
          nochain : BOOLEAN, cluster : Nat, piece : Seq(STRING)]

ExfatAssumption ==
  /\ Entries \in Seq(Entry)
  /\ EntriesPerSector \in Nat \ {0} /\ EntriesPerCluster \in Nat \ {0}
  /\ Contiguous \in BOOLEAN
  /\ NameStr \in Nat \ {0} /\ BufLen \in Nat \ {0}
  /\ Args \subseteq Seq(STRING)
  /\ \A g \in Garbage : g \in Seq(STRING) /\ Len(g) < BufLen

VARIABLES
  pc,           \* "prompt", or the command: "m", "ls", "cd"
  arg, shown,   \* its name; what it has written
  dir_offset,   \* the entry looked at last, 0 before the first
  rest,         \* entries of the file yet to come
  namestr,      \* the name gathered
  exfat,        \* [dir, nochain, cluster]: exfat_attr, _gsflag, _cluster
  buf,          \* the caller's name buffer
  file,         \* [nochain, cluster]: file_gsflag, file_cluster
  sd_fat,
  dir_cluster   \* Root, a cluster, or NoCluster: some other number

command == <<pc, shown, buf, file, sd_fat, dir_cluster>>
vars == <<command, arg, dir_offset, rest, namestr, exfat>>

Root == 0
NoCluster == -1

NoFile == [nochain |-> FALSE, cluster |-> 0]
Init == /\ pc = "prompt" /\ arg = << >> /\ shown = << >>
        /\ dir_offset = 0 /\ rest = 0 /\ namestr = << >>
        /\ exfat = [dir |-> FALSE, nochain |-> FALSE, cluster |-> 0]
        /\ buf = << >> /\ file = NoFile /\ sd_fat = FALSE
        /\ dir_cluster = Root

\* fetch_cluster() reads a directory without the chain, too, when the open
\* file has none: past the first cluster of a scattered directory it meets
\* other data.  Along the chain it stops a cluster early for an offset that is
\* a multiple of the cluster's size, and what it fetched serves the whole
\* sector (`offset > cluster size', last_offset): the first sector of each
\* further cluster is read behind the cluster before.
NoChain == file.nochain
Further(n) == n >= EntriesPerCluster
Behind(n) == Further(n) /\ (NoChain \/ n % EntriesPerCluster < EntriesPerSector)
Strange == [type |-> "unused", rest |-> 0, dir |-> FALSE, nochain |-> FALSE,
            cluster |-> 0, piece |-> << >>]
EntryAt(i) ==
  IF dir_cluster # Root \/ (Behind(i - 1) /\ ~Contiguous)
  THEN Strange ELSE Entries[i]

\* The commands start with fat_rewind() and an empty buffer; but cd compares
\* where it should clear (`name[0] == '\0''), and takes what is on the stack.
Command(cmd, name, b) ==
  /\ pc = "prompt"
  /\ pc' = cmd /\ arg' = name /\ shown' = << >>
  /\ dir_offset' = 0 /\ rest' = 0 /\ buf' = b
  /\ UNCHANGED <<namestr, exfat, file, sd_fat, dir_cluster>>
M(name) == Command("m", name, << >>)
Ls == Command("ls", << >>, << >>)
Cd(name) == \E g \in Garbage : Command("cd", name, g)

\* The directory has ended.
Ended == /\ pc' = "prompt"
         /\ sd_fat' = IF pc = "m" THEN FALSE ELSE sd_fat
         /\ UNCHANGED <<shown, buf, file, dir_cluster>>

\* A piece of the name, as much as namestr[] holds.
\* Mutant: each piece replaces the name.
JoinedLast(name, piece) == piece
Joined(name, piece) ==
  SubSeq(name \o piece, 1, IF Len(name \o piece) < NameStr - 1
                           THEN Len(name \o piece) ELSE NameStr - 1)

\* fat_name(): the room is what the name before has left of the buffer.
Room == BufLen - Len(buf) - 1
Named == IF Len(namestr') > Room THEN SubSeq(namestr', 1, Room) ELSE namestr'

\* fat_next() returns a file, and the command looks at it.
Fits == Named = arg /\ (pc = "cd" <=> exfat'.dir)
Skipped == pc # "ls" /\ (pc = "cd") # exfat'.dir
\* fat_open() leaves the file before when the new one is empty.
Opened == [nochain |-> exfat'.nochain, cluster |-> exfat'.cluster]
FatOpen == file' = IF exfat'.cluster = 0 THEN file ELSE Opened
\* fat_chdir() takes the place of a FAT entry from the entry read last, which
\* is a piece of the name here.
FatChdir(e) == dir_cluster' = NoCluster
Returned(e) ==
  CASE pc = "ls" -> /\ buf' = Named /\ shown' = Append(shown, Named)
                    /\ UNCHANGED <<pc, file, sd_fat, dir_cluster>>
    [] pc = "m" /\ Fits -> /\ FatOpen /\ sd_fat' = TRUE /\ buf' = Named
                           /\ pc' = "prompt" /\ shown' = Named
                           /\ UNCHANGED dir_cluster
    [] pc = "cd" /\ Fits -> /\ FatChdir(e) /\ buf' = Named
                            /\ pc' = "prompt" /\ shown' = Named
                            /\ UNCHANGED <<file, sd_fat>>
    [] pc = "m" /\ ~Skipped /\ Named = << >> ->   \* no name: m gives up
                /\ pc' = "prompt" /\ buf' = << >>
                /\ UNCHANGED <<shown, file, sd_fat, dir_cluster>>
    [] OTHER -> /\ buf' = IF Skipped THEN buf ELSE Named
                /\ UNCHANGED <<pc, shown, file, sd_fat, dir_cluster>>

Step(e) ==
  CASE e.type = "end" ->
         /\ Ended /\ rest' = 0 /\ UNCHANGED <<namestr, exfat>>
    [] rest = 0 /\ e.type = "85" ->
         /\ rest' = e.rest /\ namestr' = << >>
         /\ exfat' = [exfat EXCEPT !.dir = e.dir]
         /\ IF e.rest = 0 THEN Returned(e) ELSE UNCHANGED command
    [] rest > 0 ->
         /\ rest' = rest - 1
         /\ namestr' = IF e.type = "C1" THEN Joined(namestr, e.piece)
                       ELSE namestr
         /\ exfat' = IF e.type = "C0"
                     THEN [exfat EXCEPT !.nochain = e.nochain,
                                        !.cluster = e.cluster]
                     ELSE exfat
         /\ IF rest = 1 THEN Returned(e) ELSE UNCHANGED command
    [] OTHER -> UNCHANGED <<rest, namestr, exfat, command>>
FatNext == /\ pc # "prompt"
           /\ dir_offset' = dir_offset + 1
           /\ IF dir_offset = Len(Entries)
              THEN Ended /\ rest' = 0 /\ UNCHANGED <<namestr, exfat>>
              ELSE Step(EntryAt(dir_offset + 1))
           /\ UNCHANGED arg

Next == Ls \/ FatNext \/ \E n \in Args : M(n) \/ Cd(n)
Spec == Init /\ [][Next]_vars
-----------------------------------------------------------------------------
(* Properties of every step.  The reference: the files of the directory,    *)
(* each an entry 85 with those that follow it.                              *)

FullName(i) ==
  LET pieces[n \in 0 .. Entries[i].rest] ==
        IF n = 0 THEN << >>
        ELSE pieces[n - 1] \o (IF Entries[i + n].type = "C1"
                               THEN Entries[i + n].piece ELSE << >>)
      all == pieces[Entries[i].rest]
  IN  SubSeq(all, 1, IF Len(all) < NameStr - 1 THEN Len(all) ELSE NameStr - 1)
Live == {i \in DOMAIN Entries : \A j \in 1 .. i : Entries[j].type # "end"}
Files(dir) == {i \in Live : Entries[i].type = "85" /\ Entries[i].dir = dir}

\* m finds the files that the directory has, as far as namestr keeps their
\* names (DesignNote.md:350 speaks of the first 30 characters), and no other.
MountFindsName ==
  pc = "m" /\ pc' = "prompt" /\ dir_cluster = Root =>
    (sd_fat' <=> \E i \in Files(FALSE) : FullName(i) = arg)

\* The guest's disk is then the file of that name.
Place(i) == {Entries[i + n].cluster : n \in {k \in 1 .. Entries[i].rest :
                                              Entries[i + k].type = "C0"}}
MountedPlace ==
  pc = "m" /\ pc' = "prompt" /\ sd_fat' =>
    \E i \in Files(FALSE) : FullName(i) = arg /\ file'.cluster \in Place(i)

\* ls shows the files and directories.
LsShowsAll ==
  pc = "ls" /\ pc' = "prompt" /\ dir_cluster = Root =>
    {shown'[i] : i \in DOMAIN shown'}
      = {FullName(i) : i \in Files(TRUE) \cup Files(FALSE)}

\* cd goes to the directory of that name.
CdEnters ==
  pc = "cd" /\ pc' = "prompt" /\ dir_cluster = Root =>
    \A i \in Files(TRUE) : FullName(i) = arg => dir_cluster' \in Place(i)
=============================================================================
