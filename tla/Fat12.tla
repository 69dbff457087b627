-------------------------------- MODULE Fat12 --------------------------------
(***************************************************************************)
(* The walk along the chain of a FAT12 table in fetch_cluster() of fat.c,  *)
(* byte by byte of the table: an entry has 12 bits, so two of them share a *)
(* byte and one may lie across two sectors.  (Fat has the table entry by   *)
(* entry.)  A fetch may fail MaxFaults times; the driver then keeps its    *)
(* buffer under the new sector's number, see SdCard.                       *)
(***************************************************************************)
EXTENDS Integers

CONSTANTS
  SectorBytes,   \* 512
  Clusters,      \* numbers of the clusters, from 0; 0 and 1 are reserved, and
                 \* FAT12 ends at 4085 clusters
  Tables,        \* tables there may be: entries of the clusters
  MaxWalks, MaxFaults, MaxSteps   \* bounds

Fat12Assumption ==
  /\ SectorBytes \in Nat \ {0, 1} /\ Clusters \subseteq 0 .. 4086
  /\ Tables \subseteq [Clusters -> 0 .. 4095]
  /\ {MaxWalks, MaxFaults, MaxSteps} \subseteq Nat

VARIABLES
  table,             \* the entries on the card
  buffer, cur_sec,   \* sector the buffer holds, and is thought to hold
  faults, walks,
  cluster, steps,    \* of fetch_cluster(): steps are whole clusters of offset
  lo,                \* the first byte of an entry across two sectors, or None
  rc,                \* Pending, 0, -1 (fetch failed) or -2 (end of chain)
  first, asked,      \* history: what the walk began with, and whether the
  clean              \* buffer held the sector it was thought to hold

walk == <<cluster, steps, lo, rc>>
history == <<first, asked, clean>>
vars == <<table, buffer, cur_sec, faults, walks, walk, history>>

None == -1
Pending == 1

\* The table on the card: entries 2k and 2k + 1 take three bytes.
Entry(c) == IF c \in Clusters THEN table[c] ELSE 0
Byte(b) == LET k == b \div 3
           IN  CASE b % 3 = 0 -> Entry(2 * k) % 256
                 [] b % 3 = 1 -> Entry(2 * k) \div 256
                                 + 16 * (Entry(2 * k + 1) % 16)
                 [] b % 3 = 2 -> Entry(2 * k + 1) \div 16

Init == /\ table \in Tables
        /\ buffer = None /\ cur_sec = None
        /\ faults = MaxFaults /\ walks = 0
        /\ cluster = 0 /\ steps = 0 /\ lo = None /\ rc = 0
        /\ first = 0 /\ asked = 0 /\ clean = TRUE
-----------------------------------------------------------------------------
\* sdcard_read() of the byte of the table that the code takes for byte b.
ReadByte(buf, b) == IF buf = None THEN 0
                    ELSE Byte(buf * SectorBytes + (b % SectorBytes))

\* sdcard_fetch_sec(), s counted from the start of the table.
Fetch(s, ok) ==
  /\ cur_sec' = s
  /\ \/ s = cur_sec /\ ok = TRUE /\ UNCHANGED <<buffer, faults>>
     \/ s # cur_sec /\ ok = TRUE /\ buffer' = s /\ UNCHANGED faults
     \/ /\ s # cur_sec /\ ok = FALSE /\ faults > 0
        /\ faults' = faults - 1 /\ UNCHANGED buffer

Off(c) == (c \div 2) * 3 + (c % 2)
\* Mutant: never in the next sector.
AcrossNever(off) == FALSE
Across(off) == off % SectorBytes = SectorBytes - 1
Link(c, l, h) == IF c % 2 = 1 THEN l \div 16 + 16 * h ELSE l + 256 * (h % 16)
EndOfChain(c) == c < 2 \/ 4087 <= c

\* A link is taken, and an offset of one cluster less remains.
Follow(link) ==
  /\ lo' = None
  /\ IF EndOfChain(link)
     THEN rc' = -2 /\ UNCHANGED <<cluster, steps>>
     ELSE /\ cluster' = link /\ steps' = steps - 1
          /\ rc' = IF steps' = 0 THEN 0 ELSE Pending
Failed == rc' = -1 /\ lo' = None /\ UNCHANGED <<cluster, steps>>

\* fetch_cluster() for an offset that is n clusters on.  Bound: MaxWalks.
Start(c, n) == /\ rc # Pending /\ walks < MaxWalks
               /\ walks' = walks + 1
               /\ cluster' = c /\ first' = c /\ steps' = n /\ asked' = n
               /\ clean' = (buffer = cur_sec)
               /\ lo' = None /\ rc' = Pending
               /\ UNCHANGED <<table, buffer, cur_sec, faults>>
Step == /\ rc = Pending /\ lo = None
        /\ \E ok \in BOOLEAN :
             /\ Fetch(Off(cluster) \div SectorBytes, ok)
             /\ IF ~ok THEN Failed
                ELSE LET l == ReadByte(buffer', Off(cluster))
                     IN  IF Across(Off(cluster))
                         THEN lo' = l /\ UNCHANGED <<cluster, steps, rc>>
                         ELSE Follow(Link(cluster, l,
                                ReadByte(buffer', Off(cluster) + 1)))
        /\ UNCHANGED <<table, walks, history>>
StepAcross == /\ rc = Pending /\ lo # None
              /\ \E ok \in BOOLEAN :
                   /\ Fetch(Off(cluster) \div SectorBytes + 1, ok)
                   /\ IF ~ok THEN Failed
                      ELSE Follow(Link(cluster, lo,
                                       ReadByte(buffer', Off(cluster) + 1)))
              /\ UNCHANGED <<table, walks, history>>
\* Anything else that uses the buffer, a sector of a file here.
Use(s) == /\ rc # Pending /\ s # cur_sec
          /\ buffer' = s /\ cur_sec' = s
          /\ UNCHANGED <<table, faults, walks, walk, history>>

Next == \/ Step \/ StepAcross
        \/ \E c \in Clusters \ {0, 1}, n \in 1 .. MaxSteps : Start(c, n)
        \/ \E s \in {Off(c) \div SectorBytes : c \in Clusters} : Use(s)
Spec == Init /\ [][Next]_vars /\ WF_vars(Step \/ StepAcross)
-----------------------------------------------------------------------------
\* The reference: the clusters of a chain, by the entries of the table.
NthLink(c, n) ==
  LET nth[i \in 0 .. n] == IF i = 0 THEN c
                           ELSE IF EndOfChain(nth[i - 1]) THEN nth[i - 1]
                           ELSE Entry(nth[i - 1])
  IN  nth[n]

\* A walk ends at the cluster that the table names, and reports the end of the
\* chain just where that is, unless a fetch of its own failed or an earlier one
\* left another sector in the buffer.
WalkIsChain == clean => /\ rc = 0 => cluster = NthLink(first, asked)
                        /\ rc = -2 => EndOfChain(NthLink(first, asked))

\* Every walk ends, even around a loop of the table.
WalkEnds == (rc = Pending) ~> (rc # Pending)
=============================================================================
