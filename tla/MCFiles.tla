------------------------------ MODULE MCFiles ------------------------------
(***************************************************************************)
(* The file system code on small cards; in one behaviour one of four: a    *)
(* FAT16 card, a FAT32 card with faults, the walk along a FAT12 table byte *)
(* by byte, and an exFAT directory.  The others stay at their start.       *)
(*                                                                         *)
(* The FAT cards have clusters of two sectors of two entries and a table   *)
(* of three sectors.  ONE lies in clusters 2, 3, 4; TWO is fragmented, 5,  *)
(* 8, 6; the directory SUB is cluster 7, its second half unused, and holds *)
(* THREE in cluster 9 and the way up.                                      *)
(***************************************************************************)
EXTENDS Fat, TLC

VARIABLES card,
  \* of Fat12
  table, buffer12, sec12, faults12, walks, cluster, steps, lo, rc,
  first, asked, clean,
  \* of ExfatDir
  pcEx, argEx, shownEx, offsetEx, rest, namestr, exfat, buf, fileEx, sdEx, dirEx

Item(k, n, c, s) == [kind |-> k, name |-> n, cluster |-> c, size |-> s]
NoMore == Item("end", "ONE", 0, 0)
MCChain == [c \in 2 .. 10 |->
              CASE c \in {2, 3} -> c + 1
                [] c = 5 -> 8
                [] c = 8 -> 6
                [] OTHER -> Eoc]
\* The root lies in its own sectors, or for FAT32 in cluster 10 instead.
Root == << <<Item("free", "ONE", 2, 6), Item("file", "ONE", 2, 6)>>,
           <<Item("lfn", "SUB", 0, 0), Item("dir", "SUB", 7, 0)>>,
           <<Item("file", "TWO", 5, 5), NoMore>> >>
Sub(up) == << <<Item("dir", "UP", up, 0), Item("file", "THREE", 9, 1)>>,
              <<Item("file", "ONE", 9, 2), NoMore>> >>
SectorOfCluster(c, i) == TopOfCluster + (c - 2) * Spc + i
MCDirectory == (TopOfDir :> Root[1]) @@ (TopOfDir + 1 :> Root[2])
               @@ (TopOfDir + 2 :> Root[3])
               @@ (SectorOfCluster(7, 0) :> Sub(0)[1])
               @@ (SectorOfCluster(7, 1) :> Sub(0)[2])
\* FAT32: no sectors of the root's own, so a cluster begins three earlier.
At32(c, i) == TopOfDir + (c - 2) * Spc + i
Directory32 == (At32(10, 0) :> Root[1]) @@ (At32(10, 1) :> <<Root[2][2], NoMore>>)
               @@ (At32(7, 0) :> Sub(10)[1]) @@ (At32(7, 1) :> Sub(10)[2])

\* The same variables on the FAT32 card, where one fetch fails and cd is given
\* once without a name.
Fat32 == INSTANCE Fat
           WITH RootSectors <- 0, Directory <- Directory32, RootCluster <- 10,
                Max12 <- 3, Max16 <- 6, MaxFaults <- 1, MaxInits <- 1,
                Names <- {"ONE", "TWO", "SUB", "THREE", "UP"}, Positions <- {0, 1, 2, 4}

\* A FAT12 table of three sectors of eight bytes: the entries of the clusters 5
\* (odd) and 10 (even) lie across two sectors.
Clusters12 == 0 .. 15
Permutation(k) == [c \in Clusters12 |->
                     IF c < 2 THEN 4095 - c
                     ELSE IF (c * k) % 17 < 2 THEN 4095 ELSE (c * k) % 17]
Loop == [c \in Clusters12 |-> IF c = 10 THEN 5 ELSE IF c = 5 THEN 10 ELSE 4086]
High == [c \in Clusters12 |-> (c * 1365 + 2730) % 4096]
Fat12 == INSTANCE Fat12
           WITH SectorBytes <- 8, Clusters <- Clusters12,
                Tables <- {Permutation(3), Permutation(5), Permutation(7), Loop, High},
                MaxWalks <- 2, MaxFaults <- 1, MaxSteps <- 4,
                buffer <- buffer12, cur_sec <- sec12, faults <- faults12

\* exFAT names of up to four characters in pieces of two: a directory `d',
\* files `ab', `abc', `c', and `abcde', of which `abcd' is kept.  The directory
\* is three clusters of two sectors, which follow each other on the card.
Part(t, r, d, n, c, p) == [type |-> t, rest |-> r, dir |-> d, nochain |-> n,
                           cluster |-> c, piece |-> p]
FileOf(r, d) == Part("85", r, d, FALSE, 0, << >>)
Place(n, c) == Part("C0", 0, FALSE, n, c, << >>)
Piece(p) == Part("C1", 0, FALSE, FALSE, 0, p)
System == Part("unused", 0, FALSE, FALSE, 0, << >>)
NoPart == Part("end", 0, FALSE, FALSE, 0, << >>)
Short == << System, FileOf(2, TRUE), Place(FALSE, 3), Piece(<<"d">>),
            FileOf(2, FALSE), Place(FALSE, 4), Piece(<<"a", "b">>), System,
            FileOf(3, FALSE), Place(TRUE, 5), Piece(<<"a", "b">>), Piece(<<"c">>),
            FileOf(2, FALSE), Place(FALSE, 6), Piece(<<"c">>),
            FileOf(4, FALSE), Place(FALSE, 7), Piece(<<"a", "b">>),
            Piece(<<"c", "d">>), Piece(<<"e">>), NoPart,
            FileOf(2, FALSE), Place(FALSE, 9), Piece(<<"x">>) >>
ExfatNames == {<<"d">>, <<"a", "b">>, <<"a", "b", "c">>, <<"c">>,
               <<"a", "b", "c", "d">>, <<"x">>}
Exfat == INSTANCE ExfatDir
           WITH Entries <- Short, EntriesPerCluster <- 8, EntriesPerSector <- 4,
                Contiguous <- TRUE,
                NameStr <- 5, BufLen <- 7, Garbage <- {<< >>, <<"?", "?">>},
                Args <- ExfatNames,
                pc <- pcEx, arg <- argEx, shown <- shownEx,
                dir_offset <- offsetEx, file <- fileEx, sd_fat <- sdEx,
                dir_cluster <- dirEx
ASSUME CardsAssumption ==
  /\ FatAssumption /\ CardIsWhole
  /\ Fat32!FatAssumption /\ Fat32!CardIsWhole
  /\ Fat12!Fat12Assumption /\ Exfat!ExfatAssumption
-----------------------------------------------------------------------------
vars12 == <<table, buffer12, sec12, faults12, walks, cluster, steps, lo, rc,
            first, asked, clean>>
varsEx == <<pcEx, argEx, shownEx, offsetEx, rest, namestr, exfat, buf, fileEx,
            sdEx, dirEx>>
allVars == <<card, vars, vars12, varsEx>>
MCInit == /\ card \in {"fat12", "fat16", "fat32", "exfat"}
          /\ IF card = "fat32" THEN Fat32!Init ELSE Init
          /\ Fat12!Init /\ (card # "fat12" => table = Loop)
          /\ Exfat!Init
MCNext ==
  \/ card = "fat16" /\ Next /\ UNCHANGED <<card, vars12, varsEx>>
  \/ card = "fat32" /\ Fat32!Next /\ UNCHANGED <<card, vars12, varsEx>>
  \/ card = "fat12" /\ Fat12!Next /\ UNCHANGED <<card, vars, varsEx>>
  \/ card = "exfat" /\ Exfat!Next /\ UNCHANGED <<card, vars, vars12>>
MCSpec == /\ MCInit /\ [][MCNext]_allVars
          /\ WF_vars12(card = "fat12" /\ (Fat12!Step \/ Fat12!StepAcross))
On(c, A) == card = c => A
-----------------------------------------------------------------------------
\* A request of the guest gets the sector of its file, on both cards but for the
\* first sector of a cluster that does not follow the one before on the card,
\* which is fetched from behind that (fat.c:156).  On the FAT32 card, after
\* anything that used the buffer: a request that fetches at all; one of the
\* place noted last does not, whatever the buffer holds by then (fat.c:138).
SectorServed ==
  /\ [][On("fat16", RequestServedWithin')]_allVars
  /\ [][On("fat32", Fat32!ServedAfterAll)]_allVars

\* ls shows the directory, of FAT (a root with two names in its first sector; of
\* one with one name the buffer that the guest's requests to the raw card have
\* left is taken for it, fat.c:138) and of exFAT (in clusters that follow each
\* other; fat.c:144 and :156 read others wrong).
LsShowsDirectory ==
  /\ [][On("fat16", LsIsDirectory)]_allVars
  /\ [][On("exfat", Exfat!LsShowsAll)]_allVars

\* m and cd find the files and the directories of that name, and no others; in
\* exFAT m only, of names that fit in the room left for them (fat.c:551).
LookupFinds ==
  /\ [][On("fat16", MountFindsFile /\ CdFindsDirectory)]_allVars
  /\ [][On("exfat", Exfat!MountFindsName /\ Exfat!MountedPlace)]_allVars

\* A walk along a FAT12 table ends, at the cluster that the table names.
WalkIsChain ==
  /\ [][On("fat12", Fat12!WalkIsChain')]_allVars
  /\ Fat12!WalkEnds
=============================================================================
