----------------------------- MODULE FatProofs ------------------------------
(***************************************************************************)
(* Proofs about the walk along a chain: link by link of a FAT12 table, for *)
(* every table and every size of a sector; and round by round of a FAT16   *)
(* or FAT32 table, up to the sector that the guest asks for.               *)
(***************************************************************************)
EXTENDS Fat, ModArith, TLAPS

CONSTANTS SectorBytes, Clusters12, Tables, MaxWalks, MaxFaults12, MaxSteps
VARIABLES table, buffer, cur_sec, faults12, walks, cluster, steps, lo, rc,
          first, asked, clean

Twelve == INSTANCE Fat12
            WITH Clusters <- Clusters12, MaxFaults <- MaxFaults12,
                 faults <- faults12
-----------------------------------------------------------------------------
(* An entry of the FAT12 table.                                             *)

Word12 == 0 .. 4095

LEMMA TwelveBits ==
  ASSUME Twelve!Fat12Assumption, table \in Tables, NEW c \in Nat
  PROVE  Twelve!Entry(c) \in Word12
BY DEF Twelve!Fat12Assumption, Twelve!Entry, Word12

LEMMA ByteType ==
  ASSUME Twelve!Fat12Assumption, table \in Tables, NEW b \in Nat
  PROVE  Twelve!Byte(b) \in Nat
<1>1. b \div 3 \in Nat /\ b % 3 \in {0, 1, 2}
  OBVIOUS
<1>2. ASSUME NEW n \in Nat PROVE Twelve!Entry(n) \in Nat
  <2>1. Twelve!Entry(n) \in Word12
    BY TwelveBits
  <2>2. Word12 \subseteq Nat
    BY DEF Word12
  <2>3. QED BY <2>1, <2>2
<1>3. 2 * (b \div 3) \in Nat /\ 2 * (b \div 3) + 1 \in Nat
  BY <1>1
<1>4. PICK e \in Nat, f \in Nat : /\ e = Twelve!Entry(2 * (b \div 3))
                                 /\ f = Twelve!Entry(2 * (b \div 3) + 1)
  BY <1>2, <1>3
<1>5. Twelve!Byte(b) \in {e % 256, e \div 256 + 16 * (f % 16), f \div 16}
  BY <1>1, <1>4 DEF Twelve!Byte
<1>6. e % 256 \in Nat /\ e \div 256 + 16 * (f % 16) \in Nat /\ f \div 16 \in Nat
  BY <1>4
<1>7. QED BY <1>5, <1>6

\* The byte that two entries e and f of 12 bits share.
Shared(e, f) == e \div 256 + 16 * (f % 16)

LEMMA Halves ==
  ASSUME NEW e \in Word12, NEW f \in Word12
  PROVE  /\ (e % 256) + 256 * (Shared(e, f) % 16) = e
         /\ Shared(e, f) \div 16 + 16 * (f \div 16) = f
<1> DEFINE h == e \div 256
           l == f % 16
<1>1. h \in 0 .. 15 /\ e \in Nat /\ e % 256 \in Nat /\ e = 256 * h + (e % 256)
  BY DEF Word12
<1>2. l \in 0 .. 15 /\ f \in Nat /\ f \div 16 \in Nat /\ f = 16 * (f \div 16) + l
  BY DEF Word12
<1>3. (h + 16 * l) % 16 = h /\ (h + 16 * l) \div 16 = l
  <2>1. h \in 0 .. 15 /\ l \in 0 .. 15
    BY <1>1, <1>2
  <2> HIDE DEF h, l
  <2>2. QED BY <2>1
<1>4. Shared(e, f) = h + 16 * l
  BY DEF Shared
<1> HIDE DEF h, l
<1>5. (e % 256) + 256 * h = e /\ l + 16 * (f \div 16) = f
  BY <1>1, <1>2
<1>6. QED BY <1>3, <1>4, <1>5

\* The bytes at the offset that the code computes for a cluster.
LEMMA BytesOfEntry ==
  ASSUME NEW c \in Nat
  PROVE  \E k \in Nat, b \in Nat :
           /\ b = Twelve!Off(c) /\ c % 2 \in {0, 1}
           /\ c % 2 = 0 =>
                /\ c = 2 * k /\ b % 3 = 0 /\ b \div 3 = k
                /\ (b + 1) % 3 = 1 /\ (b + 1) \div 3 = k
           /\ c % 2 = 1 =>
                /\ c = 2 * k + 1 /\ b % 3 = 1 /\ b \div 3 = k
                /\ (b + 1) % 3 = 2 /\ (b + 1) \div 3 = k
<1> DEFINE k == c \div 2
<1>1. k \in Nat /\ c = 2 * k + (c % 2) /\ c % 2 \in {0, 1}
  OBVIOUS
<1>2. Twelve!Off(c) = 3 * k + (c % 2)
  BY <1>1 DEF Twelve!Off
<1>3. /\ (3 * k) % 3 = 0 /\ (3 * k) \div 3 = k
      /\ (3 * k + 1) % 3 = 1 /\ (3 * k + 1) \div 3 = k
      /\ (3 * k + 2) % 3 = 2 /\ (3 * k + 2) \div 3 = k
  <2> HIDE DEF k
  <2>1. QED BY <1>1
<1>4. PICK b \in Nat : b = Twelve!Off(c)
  <2> HIDE DEF k
  <2>1. QED BY <1>1, <1>2
<1>5. /\ c % 2 = 0 => /\ c = 2 * k /\ b % 3 = 0 /\ b \div 3 = k
                      /\ (b + 1) % 3 = 1 /\ (b + 1) \div 3 = k
      /\ c % 2 = 1 => /\ c = 2 * k + 1 /\ b % 3 = 1 /\ b \div 3 = k
                      /\ (b + 1) % 3 = 2 /\ (b + 1) \div 3 = k
  <2> HIDE DEF k
  <2>1. c % 2 = 0 => c = 2 * k /\ b = 3 * k /\ b + 1 = 3 * k + 1
    BY <1>1, <1>2, <1>4
  <2>2. c % 2 = 1 => c = 2 * k + 1 /\ b = 3 * k + 1 /\ b + 1 = 3 * k + 2
    BY <1>1, <1>2, <1>4
  <2>3. QED BY <1>3, <2>1, <2>2
<1>6. QED
  <2> HIDE DEF k
  <2>1. QED BY <1>1, <1>4, <1>5

\* The code's shifts and masks put the entry of a cluster together.
LEMMA LinkIsEntry ==
  ASSUME Twelve!Fat12Assumption, table \in Tables, NEW c \in Nat
  PROVE  Twelve!Link(c, Twelve!Byte(Twelve!Off(c)), Twelve!Byte(Twelve!Off(c) + 1))
           = Twelve!Entry(c)
<1>1. PICK k \in Nat, b \in Nat :
        /\ b = Twelve!Off(c) /\ c % 2 \in {0, 1}
        /\ c % 2 = 0 => /\ c = 2 * k /\ b % 3 = 0 /\ b \div 3 = k
                        /\ (b + 1) % 3 = 1 /\ (b + 1) \div 3 = k
        /\ c % 2 = 1 => /\ c = 2 * k + 1 /\ b % 3 = 1 /\ b \div 3 = k
                        /\ (b + 1) % 3 = 2 /\ (b + 1) \div 3 = k
  BY BytesOfEntry
<1>2. ASSUME NEW n \in Nat PROVE Twelve!Entry(n) \in Word12
  BY TwelveBits
<1>3. PICK e \in Word12, f \in Word12 :
        e = Twelve!Entry(2 * k) /\ f = Twelve!Entry(2 * k + 1)
  <2>1. 2 * k \in Nat /\ 2 * k + 1 \in Nat
    OBVIOUS
  <2>2. QED BY <1>2, <2>1
<1>4. /\ (e % 256) + 256 * (Shared(e, f) % 16) = e
      /\ Shared(e, f) \div 16 + 16 * (f \div 16) = f
  BY Halves
<1>5. CASE c % 2 = 0
  <2>1. Twelve!Byte(b) = e % 256 /\ Twelve!Byte(b + 1) = Shared(e, f)
    BY <1>1, <1>3, <1>5 DEF Twelve!Byte, Shared
  <2>2. Twelve!Link(c, e % 256, Shared(e, f)) = (e % 256) + 256 * (Shared(e, f) % 16)
    BY <1>5 DEF Twelve!Link
  <2>3. QED BY <1>1, <1>3, <1>4, <1>5, <2>1, <2>2
<1>6. CASE c % 2 = 1
  <2>1. Twelve!Byte(b) = Shared(e, f) /\ Twelve!Byte(b + 1) = f \div 16
    BY <1>1, <1>3, <1>6 DEF Twelve!Byte, Shared
  <2>2. Twelve!Link(c, Shared(e, f), f \div 16)
          = Shared(e, f) \div 16 + 16 * (f \div 16)
    BY <1>6 DEF Twelve!Link
  <2>3. QED BY <1>1, <1>3, <1>4, <1>6, <2>1, <2>2
<1>7. QED BY <1>1, <1>5, <1>6
-----------------------------------------------------------------------------
(* The chain, and the walk along it.                                        *)

LinkStep == [x \in Nat |-> IF Twelve!EndOfChain(x) THEN x ELSE Twelve!Entry(x)]

LEMMA LinkStepType ==
  ASSUME Twelve!Fat12Assumption, table \in Tables
  PROVE  LinkStep \in [Nat -> Nat]
<1>1. ASSUME NEW n \in Nat PROVE Twelve!Entry(n) \in Word12
  BY TwelveBits
<1>2. Word12 \subseteq Nat
  BY DEF Word12
<1>3. QED BY <1>1, <1>2 DEF LinkStep

LEMMA NthLinkIterates ==
  ASSUME Twelve!Fat12Assumption, table \in Tables, NEW c \in Nat, NEW n \in Nat
  PROVE  \E g : Iterates(g, Nat, c, LinkStep, n) /\ Twelve!NthLink(c, n) = g[n]
<1>1. LinkStep \in [Nat -> Nat]
  BY LinkStepType
<1>2. PICK h : Iterates(h, Nat, c, LinkStep, n)
  BY <1>1, Iteration
<1> DEFINE nth == CHOOSE g : g = [i \in 0 .. n |->
                     IF i = 0 THEN c
                     ELSE IF Twelve!EndOfChain(g[i - 1]) THEN g[i - 1]
                     ELSE Twelve!Entry(g[i - 1])]
<1>3. /\ h = [i \in 0 .. n |-> h[i]] /\ h[0] = c
      /\ \A i \in 1 .. n : h[i - 1] \in Nat /\ h[i] = LinkStep[h[i - 1]]
  BY <1>2 DEF Iterates
<1>4. h = [i \in 0 .. n |-> IF i = 0 THEN c
                           ELSE IF Twelve!EndOfChain(h[i - 1]) THEN h[i - 1]
                           ELSE Twelve!Entry(h[i - 1])]
  <2>1. ASSUME NEW i \in 0 .. n
        PROVE  h[i] = IF i = 0 THEN c
                      ELSE IF Twelve!EndOfChain(h[i - 1]) THEN h[i - 1]
                      ELSE Twelve!Entry(h[i - 1])
    <3>1. CASE i = 0
      BY <1>3, <3>1
    <3>2. CASE i # 0
      <4>1. i \in 1 .. n
        BY <3>2
      <4>2. h[i - 1] \in Nat /\ h[i] = LinkStep[h[i - 1]]
        BY <1>3, <4>1
      <4>3. QED BY <3>2, <4>2 DEF LinkStep
    <3>3. QED BY <3>1, <3>2
  <2>2. QED BY <1>3, <2>1
<1>5. nth = [i \in 0 .. n |-> IF i = 0 THEN c
                             ELSE IF Twelve!EndOfChain(nth[i - 1]) THEN nth[i - 1]
                             ELSE Twelve!Entry(nth[i - 1])]
  BY <1>4
<1>6. Twelve!NthLink(c, n) = nth[n]
  BY DEF Twelve!NthLink
<1> HIDE DEF nth
<1>7. nth = [i \in 0 .. n |-> nth[i]] /\ nth[0] = c
  BY <1>5
<1>8. ASSUME NEW i \in 1 .. n, nth[i - 1] \in Nat
      PROVE  nth[i] = LinkStep[nth[i - 1]]
  BY <1>5, <1>8 DEF LinkStep
<1>9. Iterates(nth, Nat, c, LinkStep, n)
  BY <1>1, <1>7, <1>8, IterationStays
<1>10. QED BY <1>6, <1>9

LEMMA NthLinkStep ==
  ASSUME Twelve!Fat12Assumption, table \in Tables, NEW c \in Nat, NEW n \in Nat
  PROVE  /\ Twelve!NthLink(c, 0) = c /\ Twelve!NthLink(c, n) \in Nat
         /\ Twelve!NthLink(c, n + 1) = LinkStep[Twelve!NthLink(c, n)]
<1>1. LinkStep \in [Nat -> Nat]
  BY LinkStepType
<1>2. Twelve!NthLink(c, 0) = c
  BY NthLinkIterates DEF Iterates
<1>3. PICK g : Iterates(g, Nat, c, LinkStep, n) /\ Twelve!NthLink(c, n) = g[n]
  BY NthLinkIterates
<1>4. PICK h : /\ Iterates(h, Nat, c, LinkStep, n + 1)
               /\ Twelve!NthLink(c, n + 1) = h[n + 1]
  BY NthLinkIterates
<1>5. g[n] = h[n]
  <2>1. PICK m \in Nat : m = n + 1
    OBVIOUS
  <2>2. n <= m /\ n \in 0 .. n
    BY <2>1
  <2>3. Iterates(g, Nat, c, LinkStep, n) /\ Iterates(h, Nat, c, LinkStep, m)
    BY <1>3, <1>4, <2>1
  <2>4. \A i \in 0 .. n : g[i] = h[i]
    BY <1>1, <2>2, <2>3, IterationUnique
  <2>5. QED BY <2>2, <2>4
<1>6. g[n] \in Nat /\ h[n + 1] = LinkStep[h[n]]
  <2>1. n \in 0 .. n /\ n + 1 \in 1 .. n + 1 /\ (n + 1) - 1 = n
    OBVIOUS
  <2>2. QED BY <1>3, <1>4, <2>1 DEF Iterates
<1>7. QED BY <1>2, <1>3, <1>4, <1>5, <1>6

\* From the end of a chain on nothing changes.
LEMMA EndIsLast ==
  ASSUME Twelve!Fat12Assumption, table \in Tables,
         NEW c \in Nat, NEW n \in Nat, Twelve!EndOfChain(Twelve!NthLink(c, n))
  PROVE  \A m \in Nat : n <= m => Twelve!EndOfChain(Twelve!NthLink(c, m))
<1> DEFINE T == {i \in Nat : Twelve!NthLink(c, n + i) = Twelve!NthLink(c, n)}
<1>1. 0 \in T
  OBVIOUS
<1>2. ASSUME NEW i \in Nat, i \in T PROVE i + 1 \in T
  <2>1. n + i \in Nat /\ n + (i + 1) = (n + i) + 1
    OBVIOUS
  <2>2. /\ Twelve!NthLink(c, n + i) \in Nat
        /\ Twelve!NthLink(c, (n + i) + 1) = LinkStep[Twelve!NthLink(c, n + i)]
    BY <2>1, NthLinkStep
  <2>3. Twelve!NthLink(c, n + i) = Twelve!NthLink(c, n)
    BY <1>2
  <2>4. LinkStep[Twelve!NthLink(c, n)] = Twelve!NthLink(c, n)
    BY <2>2, <2>3 DEF LinkStep
  <2>5. QED BY <2>1, <2>2, <2>3, <2>4
<1>3. Nat \subseteq T
  <2> HIDE DEF T
  <2>1. QED BY <1>1, <1>2, Induction
<1>4. SUFFICES ASSUME NEW m \in Nat, n <= m
               PROVE  Twelve!EndOfChain(Twelve!NthLink(c, m))
  OBVIOUS
<1>5. m - n \in T /\ n + (m - n) = m
  BY <1>3, <1>4
<1>6. QED BY <1>5

\* The byte the code takes for byte b is that byte, in the sector of b and for
\* the first byte of the sector behind it.
LEMMA ReadIsByte ==
  ASSUME Twelve!Fat12Assumption, NEW b \in Nat
  PROVE  /\ b \div SectorBytes \in Nat
         /\ Twelve!ReadByte(b \div SectorBytes, b) = Twelve!Byte(b)
         /\ ~Twelve!Across(b) =>
              Twelve!ReadByte(b \div SectorBytes, b + 1) = Twelve!Byte(b + 1)
         /\ Twelve!Across(b) =>
              Twelve!ReadByte(b \div SectorBytes + 1, b + 1) = Twelve!Byte(b + 1)
<1> DEFINE w == SectorBytes
           q == b \div w
           r == b % w
<1>1. w \in Nat \ {0, 1}
  BY DEF Twelve!Fat12Assumption
<1>2. q \in Nat /\ r \in 0 .. w - 1 /\ b = w * q + r
  <2> HIDE DEF w
  <2>1. QED BY <1>1
<1>3. ASSUME NEW m \in Nat, NEW x \in 0 .. w - 1, NEW y, y = w * m + x
      PROVE  y % w = x /\ m * w + x = y
  <2> HIDE DEF w
  <2>1. (w * m + x) % w = x
    BY <1>1, RemainderUnique
  <2>2. m * w = w * m
    BY <1>1
  <2>3. QED BY <1>3, <2>1, <2>2
<1>4. q # Twelve!None /\ q + 1 # Twelve!None
  <2> HIDE DEF q
  <2>1. QED BY <1>2 DEF Twelve!None
<1>5. Twelve!ReadByte(q, b) = Twelve!Byte(b)
  <2>1. q * w + r = b
    BY <1>2, <1>3
  <2>2. QED BY <1>4, <2>1 DEF Twelve!ReadByte
<1>6. ASSUME ~Twelve!Across(b)
      PROVE  Twelve!ReadByte(q, b + 1) = Twelve!Byte(b + 1)
  <2>1. r # w - 1
    BY <1>6 DEF Twelve!Across
  <2>2. (b + 1) % w = r + 1 /\ q * w + (r + 1) = b + 1
    <3> HIDE DEF w, q, r
    <3>1. r + 1 \in 0 .. w - 1 /\ b + 1 = w * q + (r + 1)
      BY <1>1, <1>2, <2>1
    <3>2. QED BY <1>2, <1>3, <3>1
  <2>3. QED BY <1>4, <2>2 DEF Twelve!ReadByte
<1>7. ASSUME Twelve!Across(b)
      PROVE  Twelve!ReadByte(q + 1, b + 1) = Twelve!Byte(b + 1)
  <2>1. r = w - 1
    BY <1>7 DEF Twelve!Across
  <2>2. (b + 1) % w = 0 /\ (q + 1) * w + 0 = b + 1
    <3> HIDE DEF w, q, r
    <3>1. w * (q + 1) = w * q + w
      BY <1>1, <1>2
    <3>2. 0 \in 0 .. w - 1 /\ q + 1 \in Nat /\ b + 1 = w * (q + 1) + 0
      BY <1>1, <1>2, <2>1, <3>1
    <3>3. QED BY <1>3, <3>2
  <2>3. QED BY <1>4, <2>2 DEF Twelve!ReadByte
<1>8. QED BY <1>2, <1>5, <1>6, <1>7

\* A walk that began with the right buffer: how far it has come, and what it
\* has read of an entry that lies across two sectors.
OnItsWay ==
  /\ steps \in 0 .. asked /\ cluster \in Nat /\ lo \in Int
  /\ rc = Twelve!Pending =>
       /\ buffer = cur_sec /\ steps >= 1 /\ ~Twelve!EndOfChain(cluster)
       /\ lo # Twelve!None => /\ lo = Twelve!Byte(Twelve!Off(cluster))
                             /\ Twelve!Across(Twelve!Off(cluster))
  /\ rc = 0 => steps = 0
  /\ rc \in {Twelve!Pending, 0} =>
       cluster = Twelve!NthLink(first, asked - steps)
  /\ rc = -2 => Twelve!EndOfChain(Twelve!NthLink(first, asked))
WalkInv == /\ table \in Tables /\ first \in Nat /\ asked \in Nat
           /\ clean => OnItsWay

LEMMA WalkInit ==
  ASSUME Twelve!Fat12Assumption, Twelve!Init PROVE WalkInv
<1>1. /\ table \in Tables /\ first = 0 /\ asked = 0 /\ steps = 0
      /\ cluster = 0 /\ rc = 0 /\ lo = -1
  BY DEF Twelve!Init, Twelve!None
<1>2. Twelve!NthLink(0, 0) = 0
  BY <1>1, NthLinkStep
<1>3. OnItsWay
  BY <1>1, <1>2 DEF OnItsWay, Twelve!Pending
<1>4. QED BY <1>1, <1>3 DEF WalkInv

\* A link that is the entry of the cluster is followed to its next cluster.
LEMMA FollowKeeps ==
  ASSUME Twelve!Fat12Assumption, WalkInv, clean, rc = Twelve!Pending,
         Twelve!Follow(Twelve!Entry(cluster)), buffer' = cur_sec',
         UNCHANGED <<table, first, asked, clean>>
  PROVE  WalkInv'
<1>1. /\ table \in Tables /\ first \in Nat /\ asked \in Nat
      /\ steps \in 0 .. asked /\ cluster \in Nat
      /\ steps >= 1 /\ ~Twelve!EndOfChain(cluster)
      /\ cluster = Twelve!NthLink(first, asked - steps)
  BY DEF WalkInv, OnItsWay
<1> DEFINE link == Twelve!Entry(cluster)
           n == asked - steps
<1>2. n \in Nat /\ n + 1 <= asked /\ n + 1 \in Nat /\ asked - (steps - 1) = n + 1
      /\ steps - 1 \in 0 .. asked
  BY <1>1
<1>3. Twelve!NthLink(first, n + 1) = link /\ link \in Nat
  <2>1. /\ Twelve!NthLink(first, n + 1) = LinkStep[cluster]
        /\ Twelve!NthLink(first, n + 1) \in Nat
    <3> HIDE DEF n
    <3>1. QED BY <1>1, <1>2, NthLinkStep DEF n
  <2>2. LinkStep[cluster] = link
    BY <1>1 DEF LinkStep
  <2>3. QED BY <2>1, <2>2
<1>4. lo' = Twelve!None
  BY DEF Twelve!Follow
<1>5. CASE Twelve!EndOfChain(link)
  <2>1. rc' = -2 /\ UNCHANGED <<cluster, steps>>
    BY <1>5 DEF Twelve!Follow
  <2>2. Twelve!EndOfChain(Twelve!NthLink(first, asked))
    <3> HIDE DEF n, link
    <3>1. Twelve!EndOfChain(Twelve!NthLink(first, n + 1))
      BY <1>3, <1>5
    <3>2. QED BY <1>1, <1>2, <3>1, EndIsLast
  <2>3. Twelve!EndOfChain(Twelve!NthLink(first, asked))'
    BY <2>2 DEF Twelve!EndOfChain, Twelve!NthLink, Twelve!Entry
  <2>4. OnItsWay'
    <3>1. steps' \in 0 .. asked' /\ cluster' \in Nat /\ lo' \in Int
      BY <1>1, <1>4, <2>1 DEF Twelve!None
    <3>2. QED BY <2>1, <2>3, <3>1 DEF OnItsWay, Twelve!Pending
  <2>5. QED BY <1>1, <1>4, <2>1, <2>4 DEF WalkInv, Twelve!None
<1>6. CASE ~Twelve!EndOfChain(link)
  <2>1. /\ cluster' = link /\ steps' = steps - 1
        /\ rc' = IF steps' = 0 THEN 0 ELSE Twelve!Pending
    BY <1>6 DEF Twelve!Follow
  <2>2. Twelve!NthLink(first, asked - steps)' = link
    <3>1. Twelve!NthLink(first, asked - steps)' =
            Twelve!NthLink(first, asked - (steps - 1))
      <4> HIDE DEF n, link
      <4>1. /\ steps' = steps - 1 /\ first' = first /\ asked' = asked
            /\ table' = table
        BY <2>1
      <4>2. QED BY <4>1 DEF Twelve!EndOfChain, Twelve!NthLink, Twelve!Entry
    <3> HIDE DEF n, link
    <3>2. QED BY <1>2, <1>3, <3>1
  <2>3. OnItsWay'
    <3>1. ~Twelve!EndOfChain(cluster)'
      BY <1>6, <2>1 DEF Twelve!EndOfChain
    <3>2. steps' \in Int /\ steps' >= 0
      <4> HIDE DEF n, link
      <4>1. QED BY <1>1, <2>1
    <3> HIDE DEF n, link
    <3>3. steps' # 0 => steps' >= 1
      BY <3>2
    <3>4. steps' \in 0 .. asked' /\ cluster' \in Nat /\ lo' \in Int
      BY <1>1, <1>3, <1>4, <2>1, <3>2 DEF Twelve!None
    <3>5. QED BY <1>3, <1>4, <2>1, <2>2, <3>1, <3>3, <3>4
              DEF OnItsWay, Twelve!Pending
  <2>4. QED BY <1>1, <1>2, <1>3, <1>4, <2>1, <2>3 DEF WalkInv, Twelve!None
<1>7. QED BY <1>5, <1>6

\* A fetch that succeeds, of a buffer that is what it is thought to be.
LEMMA FetchedRight ==
  ASSUME NEW s, Twelve!Fetch(s, TRUE), buffer = cur_sec
  PROVE  buffer' = s /\ cur_sec' = s
BY DEF Twelve!Fetch

\* The first byte of an entry across two sectors is kept for the next step.
LEMMA AcrossKeeps ==
  ASSUME WalkInv, clean, rc = Twelve!Pending,
         Twelve!Across(Twelve!Off(cluster)),
         lo' = Twelve!Byte(Twelve!Off(cluster)), lo' \in Int, buffer' = cur_sec',
         UNCHANGED <<table, first, asked, clean, cluster, steps, rc>>
  PROVE  WalkInv'
<1>1. Twelve!NthLink(first, asked - steps)' = Twelve!NthLink(first, asked - steps)
  BY DEF Twelve!NthLink, Twelve!EndOfChain, Twelve!Entry
<1>2. Twelve!Byte(Twelve!Off(cluster))' = Twelve!Byte(Twelve!Off(cluster))
  BY DEF Twelve!Byte, Twelve!Entry, Twelve!Off
<1>3. QED
  BY <1>1, <1>2 DEF WalkInv, OnItsWay, Twelve!Across, Twelve!Off,
     Twelve!EndOfChain, Twelve!Pending

LEMMA StepKeeps ==
  ASSUME Twelve!Fat12Assumption, WalkInv, Twelve!Step PROVE WalkInv'
<1>1. /\ table \in Tables /\ first \in Nat /\ asked \in Nat
      /\ UNCHANGED <<table, first, asked, clean>> /\ rc = Twelve!Pending
  BY DEF WalkInv, Twelve!Step, Twelve!history
<1>2. CASE ~clean
  BY <1>1, <1>2 DEF WalkInv
<1>3. CASE clean
  <2>1. OnItsWay /\ cluster \in Nat /\ buffer = cur_sec
    BY <1>1, <1>3 DEF WalkInv, OnItsWay
  <2>2. PICK ok \in BOOLEAN :
          /\ Twelve!Fetch(Twelve!Off(cluster) \div SectorBytes, ok)
          /\ ~ok => Twelve!Failed
          /\ ok /\ Twelve!Across(Twelve!Off(cluster)) =>
               /\ lo' = Twelve!ReadByte(buffer', Twelve!Off(cluster))
               /\ UNCHANGED <<cluster, steps, rc>>
          /\ ok /\ ~Twelve!Across(Twelve!Off(cluster)) =>
               Twelve!Follow(Twelve!Link(cluster,
                 Twelve!ReadByte(buffer', Twelve!Off(cluster)),
                 Twelve!ReadByte(buffer', Twelve!Off(cluster) + 1)))
    BY DEF Twelve!Step
  <2>3. PICK b \in Nat : b = Twelve!Off(cluster)
    BY <2>1, BytesOfEntry
  <2>4. CASE ~ok
    BY <1>1, <2>1, <2>2, <2>4
       DEF WalkInv, OnItsWay, Twelve!Failed, Twelve!None, Twelve!Pending
  <2>5. CASE ok /\ Twelve!Across(b)
    <3>1. buffer' = b \div SectorBytes /\ cur_sec' = buffer'
      BY <2>1, <2>2, <2>3, <2>5, FetchedRight
    <3>2. lo' = Twelve!Byte(b) /\ UNCHANGED <<cluster, steps, rc>>
      BY <2>2, <2>3, <2>5, <3>1, ReadIsByte
    <3>3. lo' \in Int
      BY <1>1, <2>3, <3>2, ByteType
    <3>4. QED
      BY <1>1, <1>3, <2>1, <2>3, <2>5, <3>1, <3>2, <3>3, AcrossKeeps
  <2>6. CASE ok /\ ~Twelve!Across(b)
    <3>1. buffer' = b \div SectorBytes /\ cur_sec' = buffer'
      BY <2>1, <2>2, <2>3, <2>6, FetchedRight
    <3>2. /\ Twelve!ReadByte(buffer', b) = Twelve!Byte(b)
          /\ Twelve!ReadByte(buffer', b + 1) = Twelve!Byte(b + 1)
      BY <2>6, <3>1, ReadIsByte
    <3>3. Twelve!Follow(Twelve!Link(cluster, Twelve!Byte(b), Twelve!Byte(b + 1)))
      BY <2>2, <2>3, <2>6, <3>2
    <3>4. Twelve!Follow(Twelve!Entry(cluster))
      BY <1>1, <2>1, <2>3, <3>3, LinkIsEntry
    <3>5. QED BY <1>1, <1>3, <3>1, <3>4, FollowKeeps
  <2>7. QED BY <2>2, <2>3, <2>4, <2>5, <2>6
<1>4. QED BY <1>2, <1>3

LEMMA StepAcrossKeeps ==
  ASSUME Twelve!Fat12Assumption, WalkInv, Twelve!StepAcross PROVE WalkInv'
<1>1. /\ table \in Tables /\ first \in Nat /\ asked \in Nat
      /\ UNCHANGED <<table, first, asked, clean>>
      /\ rc = Twelve!Pending /\ lo # Twelve!None
  BY DEF WalkInv, Twelve!StepAcross, Twelve!history
<1>2. CASE ~clean
  BY <1>1, <1>2 DEF WalkInv
<1>3. CASE clean
  <2>1. /\ OnItsWay /\ cluster \in Nat /\ buffer = cur_sec
        /\ lo = Twelve!Byte(Twelve!Off(cluster))
        /\ Twelve!Across(Twelve!Off(cluster))
    BY <1>1, <1>3 DEF WalkInv, OnItsWay
  <2>2. PICK ok \in BOOLEAN :
          /\ Twelve!Fetch(Twelve!Off(cluster) \div SectorBytes + 1, ok)
          /\ ~ok => Twelve!Failed
          /\ ok => Twelve!Follow(Twelve!Link(cluster, lo,
                     Twelve!ReadByte(buffer', Twelve!Off(cluster) + 1)))
    BY DEF Twelve!StepAcross
  <2>3. PICK b \in Nat : b = Twelve!Off(cluster)
    BY <2>1, BytesOfEntry
  <2>4. CASE ~ok
    BY <1>1, <2>1, <2>2, <2>4
       DEF WalkInv, OnItsWay, Twelve!Failed, Twelve!None, Twelve!Pending
  <2>5. CASE ok
    <3>1. buffer' = b \div SectorBytes + 1 /\ cur_sec' = buffer'
      BY <2>1, <2>2, <2>3, <2>5, FetchedRight
    <3>2. Twelve!ReadByte(buffer', b + 1) = Twelve!Byte(b + 1)
      BY <2>1, <2>3, <3>1, ReadIsByte
    <3>3. Twelve!Follow(Twelve!Link(cluster, Twelve!Byte(b), Twelve!Byte(b + 1)))
      BY <2>1, <2>2, <2>3, <2>5, <3>2
    <3>4. Twelve!Follow(Twelve!Entry(cluster))
      BY <1>1, <2>1, <2>3, <3>3, LinkIsEntry
    <3>5. QED BY <1>1, <1>3, <3>1, <3>4, FollowKeeps
  <2>6. QED BY <2>2, <2>4, <2>5
<1>4. QED BY <1>2, <1>3

LEMMA StartKeeps ==
  ASSUME Twelve!Fat12Assumption, WalkInv,
         NEW c \in Clusters12 \ {0, 1}, NEW n \in 1 .. MaxSteps, Twelve!Start(c, n)
  PROVE  WalkInv'
<1>1. c \in Nat /\ n \in Nat /\ n >= 1 /\ ~Twelve!EndOfChain(c)
  BY DEF Twelve!Fat12Assumption, Twelve!EndOfChain
<1>2. /\ cluster' = c /\ first' = c /\ steps' = n /\ asked' = n
      /\ clean' = (buffer = cur_sec) /\ lo' = Twelve!None
      /\ rc' = Twelve!Pending /\ UNCHANGED <<table, buffer, cur_sec>>
      /\ table \in Tables
  BY DEF Twelve!Start, WalkInv
<1>3. Twelve!NthLink(c, 0) = c
  BY <1>1, <1>2, NthLinkStep
<1>4. Twelve!NthLink(first, asked - steps)' = c
  <2>1. Twelve!NthLink(first, asked - steps)' = Twelve!NthLink(c, n - n)
    BY <1>2 DEF Twelve!NthLink, Twelve!EndOfChain, Twelve!Entry
  <2>2. n - n = 0
    BY <1>1
  <2>3. QED BY <1>3, <2>1, <2>2
<1>5. ASSUME clean' PROVE OnItsWay'
  <2>1. buffer' = cur_sec'
    BY <1>2, <1>5
  <2>2. steps' \in 0 .. asked' /\ cluster' \in Nat /\ lo' \in Int /\ steps' >= 1
    BY <1>1, <1>2 DEF Twelve!None
  <2>3. ~Twelve!EndOfChain(cluster)'
    BY <1>1, <1>2 DEF Twelve!EndOfChain
  <2>4. QED BY <1>2, <1>4, <2>1, <2>2, <2>3 DEF OnItsWay, Twelve!Pending
<1>6. QED BY <1>1, <1>2, <1>5 DEF WalkInv

\* What else happens leaves a finished walk alone.
LEMMA UseKeeps ==
  ASSUME WalkInv, UNCHANGED Twelve!vars \/ \E s : Twelve!Use(s)
  PROVE  WalkInv'
<1>1. /\ UNCHANGED <<table, first, asked, clean, cluster, steps, lo, rc>>
      /\ rc = Twelve!Pending => UNCHANGED <<buffer, cur_sec>>
  BY DEF Twelve!vars, Twelve!Use, Twelve!walk, Twelve!history
<1>2. Twelve!NthLink(first, asked - steps)' = Twelve!NthLink(first, asked - steps)
  BY <1>1 DEF Twelve!NthLink, Twelve!EndOfChain, Twelve!Entry
<1>3. Twelve!NthLink(first, asked)' = Twelve!NthLink(first, asked)
  BY <1>1 DEF Twelve!NthLink, Twelve!EndOfChain, Twelve!Entry
<1>4. Twelve!Byte(Twelve!Off(cluster))' = Twelve!Byte(Twelve!Off(cluster))
  BY <1>1 DEF Twelve!Byte, Twelve!Entry, Twelve!Off
<1>5. OnItsWay => OnItsWay'
  BY <1>1, <1>2, <1>3, <1>4
     DEF OnItsWay, Twelve!Across, Twelve!Off, Twelve!EndOfChain
<1>6. QED BY <1>1, <1>5 DEF WalkInv

\* For every table of 12-bit entries and every size of a sector: a walk of
\* fetch_cluster() ends at the cluster that the table names, though an entry
\* may lie across two sectors, and finds the end of the chain just there,
\* unless a fetch of its own fails or the buffer was wrong before it.
THEOREM ChainIsWalked ==
  ASSUME Twelve!Fat12Assumption PROVE Twelve!Spec => []Twelve!WalkIsChain
<1>1. Twelve!Init => WalkInv
  BY WalkInit
<1>2. WalkInv /\ [Twelve!Next]_Twelve!vars => WalkInv'
  BY StepKeeps, StepAcrossKeeps, StartKeeps, UseKeeps DEF Twelve!Next
<1>3. WalkInv => Twelve!WalkIsChain
  <2>1. SUFFICES ASSUME WalkInv, clean
                 PROVE  /\ rc = 0 => cluster = Twelve!NthLink(first, asked)
                        /\ rc = -2 => Twelve!EndOfChain(Twelve!NthLink(first, asked))
    BY DEF Twelve!WalkIsChain
  <2>2. OnItsWay /\ asked \in Nat
    BY <2>1 DEF WalkInv
  <2>3. ASSUME rc = 0 PROVE cluster = Twelve!NthLink(first, asked)
    <3>1. steps = 0 /\ asked - 0 = asked /\ cluster = Twelve!NthLink(first, asked - steps)
      BY <2>2, <2>3 DEF OnItsWay
    <3>2. QED BY <3>1
  <2>4. QED BY <2>2, <2>3 DEF OnItsWay
<1>4. QED BY <1>1, <1>2, <1>3, PTL DEF Twelve!Spec
-----------------------------------------------------------------------------
(* The chains of Fat, cluster by cluster.                                   *)

NextCluster == [c \in Nat |-> IF c \in Clusters THEN Chain[c] ELSE Eoc]

LEMMA NextClusterType == ASSUME FatAssumption PROVE NextCluster \in [Nat -> Nat]
<1>1. Chain \in [Clusters -> Clusters \cup {Eoc}] /\ Clusters \subseteq Nat
  BY DEF FatAssumption
<1>2. ASSUME NEW c \in Nat
      PROVE  (IF c \in Clusters THEN Chain[c] ELSE Eoc) \in Nat
  <2>1. c \in Clusters => Chain[c] \in Clusters \cup {Eoc}
    BY <1>1
  <2>2. Eoc \in Nat
    BY DEF Eoc
  <2>3. QED BY <1>1, <2>1, <2>2
<1>3. QED BY <1>2 DEF NextCluster

LEMMA NthClusterIterates ==
  ASSUME FatAssumption, NEW c \in Nat, NEW n \in Nat
  PROVE  \E g : Iterates(g, Nat, c, NextCluster, n) /\ NthCluster(c, n) = g[n]
<1>1. NextCluster \in [Nat -> Nat]
  BY NextClusterType
<1>2. PICK h : Iterates(h, Nat, c, NextCluster, n)
  BY <1>1, Iteration
<1> DEFINE nth == CHOOSE g : g = [i \in 0 .. n |->
                     IF i = 0 THEN c
                     ELSE IF g[i - 1] \in Clusters THEN Chain[g[i - 1]]
                     ELSE Eoc]
<1>3. /\ h = [i \in 0 .. n |-> h[i]] /\ h[0] = c
      /\ \A i \in 1 .. n : h[i - 1] \in Nat /\ h[i] = NextCluster[h[i - 1]]
  BY <1>2 DEF Iterates
<1>4. h = [i \in 0 .. n |-> IF i = 0 THEN c
                           ELSE IF h[i - 1] \in Clusters THEN Chain[h[i - 1]]
                           ELSE Eoc]
  <2>1. ASSUME NEW i \in 0 .. n
        PROVE  h[i] = IF i = 0 THEN c
                      ELSE IF h[i - 1] \in Clusters THEN Chain[h[i - 1]]
                      ELSE Eoc
    <3>1. CASE i = 0
      BY <1>3, <3>1
    <3>2. CASE i # 0
      <4>1. i \in 1 .. n
        BY <3>2
      <4>2. h[i - 1] \in Nat /\ h[i] = NextCluster[h[i - 1]]
        BY <1>3, <4>1
      <4>3. QED BY <3>2, <4>2 DEF NextCluster
    <3>3. QED BY <3>1, <3>2
  <2>2. QED BY <1>3, <2>1
<1>5. nth = [i \in 0 .. n |-> IF i = 0 THEN c
                             ELSE IF nth[i - 1] \in Clusters THEN Chain[nth[i - 1]]
                             ELSE Eoc]
  BY <1>4
<1>6. NthCluster(c, n) = nth[n]
  BY DEF NthCluster
<1> HIDE DEF nth
<1>7. nth = [i \in 0 .. n |-> nth[i]] /\ nth[0] = c
  BY <1>5
<1>8. ASSUME NEW i \in 1 .. n, nth[i - 1] \in Nat
      PROVE  nth[i] = NextCluster[nth[i - 1]]
  BY <1>5, <1>8 DEF NextCluster
<1>9. Iterates(nth, Nat, c, NextCluster, n)
  BY <1>1, <1>7, <1>8, IterationStays
<1>10. QED BY <1>6, <1>9

LEMMA NthClusterStep ==
  ASSUME FatAssumption, NEW c \in Nat, NEW n \in Nat
  PROVE  /\ NthCluster(c, 0) = c /\ NthCluster(c, n) \in Nat
         /\ NthCluster(c, n + 1) = NextCluster[NthCluster(c, n)]
<1>1. NextCluster \in [Nat -> Nat]
  BY NextClusterType
<1>2. NthCluster(c, 0) = c
  BY NthClusterIterates DEF Iterates
<1>3. PICK g : Iterates(g, Nat, c, NextCluster, n) /\ NthCluster(c, n) = g[n]
  BY NthClusterIterates
<1>4. PICK h : /\ Iterates(h, Nat, c, NextCluster, n + 1)
               /\ NthCluster(c, n + 1) = h[n + 1]
  BY NthClusterIterates
<1>5. g[n] = h[n]
  <2>1. PICK m \in Nat : m = n + 1
    OBVIOUS
  <2>2. n <= m /\ n \in 0 .. n
    BY <2>1
  <2>3. Iterates(g, Nat, c, NextCluster, n) /\ Iterates(h, Nat, c, NextCluster, m)
    BY <1>3, <1>4, <2>1
  <2>4. \A i \in 0 .. n : g[i] = h[i]
    BY <1>1, <2>2, <2>3, IterationUnique
  <2>5. QED BY <2>2, <2>4
<1>6. g[n] \in Nat /\ h[n + 1] = NextCluster[h[n]]
  <2>1. n \in 0 .. n /\ n + 1 \in 1 .. n + 1 /\ (n + 1) - 1 = n
    OBVIOUS
  <2>2. QED BY <1>3, <1>4, <2>1 DEF Iterates
<1>7. QED BY <1>2, <1>3, <1>4, <1>5, <1>6
-----------------------------------------------------------------------------
(* The card driver's buffer.                                                *)

Io == [buffer : Int, cur_sec : Int, last_cluster : Int, last_offset : Int]

\* The buffer holds the sector of its number, if that is on the card at all.
Held(d) == d.cur_sec \in Sectors => d.buffer = d.cur_sec
Holds(d, s) == d.buffer = s /\ d.cur_sec = s
SameNote(d, f) == d.last_cluster = f.last_cluster /\ d.last_offset = f.last_offset

LEMMA SectorsAre == ASSUME FatAssumption PROVE Sectors \subseteq Nat /\ None \notin Sectors
<1>1. FatFirst + Totsec - 1 \in Nat
  BY DEF FatAssumption
<1>2. QED BY <1>1 DEF Sectors, None

LEMMA FetchedKeeps ==
  ASSUME FatAssumption, NEW d \in Io, NEW s \in Int, NEW bad
  PROVE  /\ Fetched(d, s, bad).io \in Io /\ SameNote(Fetched(d, s, bad).io, d)
         /\ Fetched(d, s, bad).rc \in {0, -1}
         /\ bad = None /\ Held(d) => Held(Fetched(d, s, bad).io)
         /\ bad = None /\ Held(d) /\ s \in Sectors =>
              Fetched(d, s, bad).rc = 0 /\ Holds(Fetched(d, s, bad).io, s)
         /\ bad = None /\ d.cur_sec = d.buffer /\ s \in Sectors =>
              Fetched(d, s, bad).rc = 0 /\ Holds(Fetched(d, s, bad).io, s)
<1>1. /\ d = [buffer |-> d.buffer, cur_sec |-> d.cur_sec,
              last_cluster |-> d.last_cluster, last_offset |-> d.last_offset]
      /\ d.buffer \in Int /\ d.cur_sec \in Int
  BY DEF Io
<1>2. None \notin Sectors
  BY SectorsAre
<1>3. CASE d.cur_sec = s
  <2>1. Fetched(d, s, bad) = [io |-> d, rc |-> 0]
    BY <1>3 DEF Fetched
  <2>2. QED BY <1>3, <2>1 DEF SameNote, Held, Holds
<1>4. CASE d.cur_sec # s /\ (s = bad \/ s \notin Sectors)
  <2>1. Fetched(d, s, bad) = [io |-> [d EXCEPT !.cur_sec = s], rc |-> -1]
    BY <1>4 DEF Fetched
  <2>2. [d EXCEPT !.cur_sec = s] =
          [buffer |-> d.buffer, cur_sec |-> s,
           last_cluster |-> d.last_cluster, last_offset |-> d.last_offset]
    BY DEF Io
  <2>3. QED BY <1>2, <1>4, <2>1, <2>2 DEF Io, SameNote, Held, Holds
<1>5. CASE d.cur_sec # s /\ s # bad /\ s \in Sectors
  <2>1. Fetched(d, s, bad) =
          [io |-> [d EXCEPT !.cur_sec = s, !.buffer = s], rc |-> 0]
    BY <1>5 DEF Fetched
  <2>2. PICK f \in Io : f = [d EXCEPT !.cur_sec = s, !.buffer = s]
    BY DEF Io
  <2>3. f.buffer = s /\ f.cur_sec = s /\ SameNote(f, d)
    BY <2>2 DEF Io, SameNote
  <2>4. Fetched(d, s, bad) = [io |-> f, rc |-> 0]
    BY <2>1, <2>2
  <2>5. QED BY <2>3, <2>4 DEF Held, Holds
<1>6. QED BY <1>3, <1>4, <1>5

-----------------------------------------------------------------------------
(* The walk of fetch_cluster(), round by round.                             *)

WalkState == [io : Io, cluster : Nat, offset : Int, rc : Int]
Links == Clusters \cup {Eoc}
Round(bad, stale) == [w \in WalkState |-> Follow(w, bad, stale)]
Begin(d, c, o) == [io |-> d, cluster |-> c, offset |-> o, rc |-> 0]

LEMMA LinksAre == ASSUME FatAssumption PROVE Links \subseteq Nat
<1>1. Clusters \subseteq Nat
  BY DEF FatAssumption
<1>2. QED BY <1>1 DEF Links, Eoc

LEMMA TableSectorType ==
  ASSUME FatAssumption, NEW c \in Nat PROVE TableSector(c) \in Int
<1>1. LinksPerSector \in Nat \ {0} /\ FatFirst \in Nat /\ Reserved \in Nat
  BY DEF FatAssumption
<1>2. c \div LinksPerSector \in Int
  BY <1>1
<1>3. QED BY <1>1, <1>2 DEF TableSector

LEMMA FollowKeeps32 ==
  ASSUME FatAssumption, NEW w \in WalkState, NEW bad, NEW stale \in Links
  PROVE  /\ Follow(w, bad, stale) \in WalkState
         /\ SameNote(Follow(w, bad, stale).io, w.io)
         /\ bad = None /\ Held(w.io) => Held(Follow(w, bad, stale).io)
<1>1. CASE w.rc < 0 \/ w.offset <= ClusterEntries
  <2>1. Follow(w, bad, stale) = w
    BY <1>1 DEF Follow
  <2>2. QED BY <2>1 DEF SameNote
<1>2. CASE ~(w.rc < 0 \/ w.offset <= ClusterEntries)
  <2>1. PICK t : t = Fetched(w.io, TableSector(w.cluster), bad)
    OBVIOUS
  <2>2. w.io \in Io /\ TableSector(w.cluster) \in Int
    BY TableSectorType DEF WalkState
  <2>3. /\ t.io \in Io /\ SameNote(t.io, w.io) /\ t.rc \in {0, -1}
        /\ bad = None /\ Held(w.io) => Held(t.io)
    BY <2>1, <2>2, FetchedKeeps
  <2>4. PICK next : next = Link(t.io, w.cluster, stale)
    OBVIOUS
  <2>5. next \in Nat
    <3>1. Chain \in [Clusters -> Links]
      BY DEF FatAssumption, Links
    <3>2. next \in Links
      BY <2>4, <3>1 DEF Link, Links
    <3>3. QED BY <3>2, LinksAre
  <2>6. Reduced(w.offset) \in Int
    <3>1. w.offset \in Int /\ Spc * EntriesPerSector \in Int
      BY DEF WalkState, FatAssumption
    <3>2. QED BY <3>1 DEF Reduced, ClusterEntries
  <2>7. PICK rc1 \in Int : rc1 = CASE t.rc < 0 -> t.rc
                                  [] t.rc = 0 /\ next = Eoc -> -2
                                  [] OTHER -> 0
    BY <2>3
  <2>8. Follow(w, bad, stale) = [io |-> t.io, cluster |-> next,
                                 offset |-> Reduced(w.offset), rc |-> rc1]
    BY <1>2, <2>1, <2>4, <2>7, Zenon DEF Follow
  <2>9. QED BY <2>3, <2>5, <2>6, <2>8 DEF WalkState
<1>3. QED BY <1>1, <1>2

LEMMA WalkIterates ==
  ASSUME FatAssumption, NEW d \in Io, NEW c \in Nat, NEW o \in Nat,
         NEW bad, NEW stale \in Links
  PROVE  \E g : /\ Iterates(g, WalkState, Begin(d, c, o), Round(bad, stale), o)
                /\ Walk(d, c, o, bad, stale) =
                     IF g[o].rc < 0 THEN [io |-> g[o].io, rc |-> g[o].rc]
                     ELSE Fetched(g[o].io, SectorIn(g[o].cluster, g[o].offset), bad)
<1>1. Round(bad, stale) \in [WalkState -> WalkState]
  BY FollowKeeps32 DEF Round
<1>2. Begin(d, c, o) \in WalkState
  BY DEF Begin, WalkState
<1>3. PICK h : Iterates(h, WalkState, Begin(d, c, o), Round(bad, stale), o)
  BY <1>1, <1>2, Iteration
<1> DEFINE walk == CHOOSE g : g = [i \in 0 .. o |->
                     IF i = 0
                     THEN [io |-> d, cluster |-> c, offset |-> o, rc |-> 0]
                     ELSE Follow(g[i - 1], bad, stale)]
<1>4. /\ h = [i \in 0 .. o |-> h[i]] /\ h[0] = Begin(d, c, o)
      /\ \A i \in 1 .. o : /\ h[i - 1] \in WalkState
                           /\ h[i] = Round(bad, stale)[h[i - 1]]
  BY <1>3 DEF Iterates
<1>5. h = [i \in 0 .. o |->
             IF i = 0 THEN [io |-> d, cluster |-> c, offset |-> o, rc |-> 0]
             ELSE Follow(h[i - 1], bad, stale)]
  <2>1. ASSUME NEW i \in 0 .. o
        PROVE  h[i] = IF i = 0
                      THEN [io |-> d, cluster |-> c, offset |-> o, rc |-> 0]
                      ELSE Follow(h[i - 1], bad, stale)
    <3>1. CASE i = 0
      BY <1>4, <3>1 DEF Begin
    <3>2. CASE i # 0
      <4>1. i \in 1 .. o
        BY <3>2
      <4>2. h[i - 1] \in WalkState /\ h[i] = Round(bad, stale)[h[i - 1]]
        BY <1>4, <4>1
      <4>3. QED BY <3>2, <4>2 DEF Round
    <3>3. QED BY <3>1, <3>2
  <2>2. QED BY <1>4, <2>1
<1>6. walk = [i \in 0 .. o |->
                IF i = 0 THEN [io |-> d, cluster |-> c, offset |-> o, rc |-> 0]
                ELSE Follow(walk[i - 1], bad, stale)]
  BY <1>5
<1>7. Walk(d, c, o, bad, stale) =
        IF walk[o].rc < 0 THEN [io |-> walk[o].io, rc |-> walk[o].rc]
        ELSE Fetched(walk[o].io, SectorIn(walk[o].cluster, walk[o].offset), bad)
  BY DEF Walk
<1> HIDE DEF walk
<1>8. walk = [i \in 0 .. o |-> walk[i]] /\ walk[0] = Begin(d, c, o)
  BY <1>6 DEF Begin
<1>9. ASSUME NEW i \in 1 .. o, walk[i - 1] \in WalkState
      PROVE  walk[i] = Round(bad, stale)[walk[i - 1]]
  BY <1>6, <1>9 DEF Round
<1>10. Iterates(walk, WalkState, Begin(d, c, o), Round(bad, stale), o)
  BY <1>1, <1>2, <1>8, <1>9, IterationStays
<1>11. QED BY <1>7, <1>10

\* A walk leaves the noted place, and a buffer that is right is right after it.
LEMMA WalkKeeps ==
  ASSUME FatAssumption, NEW d \in Io, NEW c \in Nat, NEW o \in Nat,
         NEW bad, NEW stale \in Links, top_of_cluster \in Int
  PROVE  LET e == Walk(d, c, o, bad, stale).io
         IN  e \in Io /\ SameNote(e, d) /\ (bad = None /\ Held(d) => Held(e))
<1>1. PICK g : /\ Iterates(g, WalkState, Begin(d, c, o), Round(bad, stale), o)
               /\ Walk(d, c, o, bad, stale) =
                     IF g[o].rc < 0 THEN [io |-> g[o].io, rc |-> g[o].rc]
                     ELSE Fetched(g[o].io, SectorIn(g[o].cluster, g[o].offset), bad)
  BY WalkIterates
<1> DEFINE Kept1(f) == SameNote(f, d) /\ (bad = None /\ Held(d) => Held(f))
           T == {n \in Nat : n <= o => Kept1(g[n].io)}
<1>2. /\ g[0] = Begin(d, c, o)
      /\ \A n \in 0 .. o : g[n] \in WalkState
      /\ \A n \in 1 .. o : g[n] = Round(bad, stale)[g[n - 1]]
  BY <1>1 DEF Iterates
<1>3. 0 \in T
  BY <1>2 DEF Begin, SameNote
<1>4. ASSUME NEW n \in Nat, n \in T PROVE n + 1 \in T
  <2>1. CASE n + 1 <= o
    <3>1. n \in 0 .. o /\ n + 1 \in 1 .. o /\ (n + 1) - 1 = n
      BY <2>1
    <3>2. PICK w \in WalkState : w = g[n] /\ g[n + 1] = Round(bad, stale)[w]
      BY <1>2, <3>1
    <3>3. g[n + 1] = Follow(w, bad, stale)
      BY <3>2 DEF Round
    <3>4. Kept1(w.io)
      BY <1>4, <3>1, <3>2
    <3>5. Kept1(g[n + 1].io)
      BY <3>3, <3>4, FollowKeeps32 DEF SameNote
    <3>6. QED BY <3>5
  <2>2. QED BY <2>1
<1>5. o \in T
  <2> HIDE DEF T
  <2>1. QED BY <1>3, <1>4, Induction
<1>6. PICK w \in WalkState : w = g[o] /\ Kept1(w.io)
  BY <1>2, <1>5
<1>7. w.io \in Io /\ w.cluster \in Nat /\ w.offset \in Int
  BY DEF WalkState
<1>8. SectorIn(w.cluster, w.offset) \in Int
  <2>1. Spc \in Int /\ EntriesPerSector \in Nat \ {0}
    BY DEF FatAssumption
  <2>2. w.offset \div EntriesPerSector \in Int /\ (w.cluster - 2) * Spc \in Int
    BY <1>7, <2>1
  <2>3. QED BY <2>2 DEF SectorIn
<1>9. CASE w.rc < 0
  BY <1>1, <1>6, <1>7, <1>9
<1>10. CASE ~(w.rc < 0)
  <2>1. PICK f : f = Fetched(w.io, SectorIn(w.cluster, w.offset), bad)
    OBVIOUS
  <2>2. /\ f.io \in Io /\ SameNote(f.io, w.io)
        /\ bad = None /\ Held(w.io) => Held(f.io)
    BY <1>7, <1>8, <2>1, FetchedKeeps
  <2>3. Walk(d, c, o, bad, stale) = f
    BY <1>1, <1>6, <1>10, <2>1
  <2>4. QED BY <1>6, <2>2, <2>3 DEF SameNote
<1>11. QED BY <1>9, <1>10
-----------------------------------------------------------------------------
(* The sector of a file that a walk leads to.                               *)

LEMMA SizesAre ==
  ASSUME FatAssumption
  PROVE  /\ Spc \in Nat \ {0} /\ EntriesPerSector \in Nat \ {0}
         /\ TopOfCluster \in Int
BY DEF FatAssumption, TopOfCluster, TopOfDir

\* Positions in entries are multiples of the entries in a sector.
LEMMA InEntries ==
  ASSUME FatAssumption, NEW x \in Int
  PROVE  /\ x * EntriesPerSector \in Int
         /\ x * EntriesPerSector <= ClusterEntries <=> x <= Spc
         /\ Reduced(x * EntriesPerSector) = (x - Spc) * EntriesPerSector
         /\ (x * EntriesPerSector) \div EntriesPerSector = x
<1> DEFINE E == EntriesPerSector
<1>1. Spc \in Nat \ {0} /\ E \in Nat \ {0}
  BY SizesAre
<1>2. x * E - Spc * E = (x - Spc) * E /\ x * E \in Int /\ Spc * E \in Int
  BY <1>1
<1>3. x * E <= Spc * E <=> x <= Spc
  <2> HIDE DEF E
  <2>1. x <= Spc => x * E <= Spc * E
    BY <1>1
  <2>2. ASSUME x > Spc PROVE x * E > Spc * E
    <3>1. x - Spc >= 1 /\ x - Spc \in Int
      BY <1>1, <2>2
    <3>2. (x - Spc) * E >= E
      BY <1>1, <3>1
    <3>3. QED BY <1>1, <1>2, <3>2
  <2>3. QED BY <1>1, <1>2, <2>1, <2>2
<1>4. (x * E) \div E = x
  <2>1. 0 \in 0 .. E - 1 /\ x * E = E * x + 0
    BY <1>1
  <2> HIDE DEF E
  <2>2. QED BY <1>1, <2>1, QuotientUnique
<1>5. QED BY <1>2, <1>3, <1>4 DEF ClusterEntries, Reduced

\* The rounds of a walk to position p: all links of its chain but the last, if
\* it is the first position of a cluster.
LEMMA RoundsOfWalk ==
  ASSUME FatAssumption, NEW p \in Nat
  PROVE  \E k \in Nat :
           /\ k <= p /\ k * Spc <= p /\ p - k * Spc \in 0 .. Spc
           /\ \A m \in Nat : m < k => p - m * Spc > Spc
           /\ \/ k = p \div Spc /\ p - k * Spc = p % Spc
              \/ /\ p % Spc = 0 /\ p >= Spc /\ k = p \div Spc - 1
                 /\ p - k * Spc = Spc
<1> DEFINE q == p \div Spc
           r == p % Spc
<1>1. Spc \in Nat \ {0}
  BY SizesAre
<1>2. q \in Nat /\ r \in 0 .. Spc - 1 /\ p = Spc * q + r
  BY <1>1
<1> HIDE DEF q, r
<1>3. ASSUME NEW m \in Nat, NEW n \in Nat, m < n
      PROVE  n * Spc - m * Spc >= Spc
  <2>1. n - m >= 1 /\ n - m \in Int
    BY <1>3
  <2>2. (n - m) * Spc >= Spc
    BY <1>1, <2>1
  <2>3. QED BY <1>1, <2>2
<1>4. ASSUME NEW n \in Nat PROVE n * Spc >= n
  <2>1. Spc - 1 >= 0
    BY <1>1
  <2>2. n * (Spc - 1) >= 0
    BY <1>1, <2>1
  <2>3. QED BY <1>1, <2>2
<1>5. q * Spc = Spc * q /\ q * Spc \in Nat
  BY <1>1, <1>2
<1>6. CASE r # 0 \/ q = 0
  <2>1. q <= p /\ q * Spc <= p /\ p - q * Spc = r /\ r \in 0 .. Spc
    BY <1>1, <1>2, <1>4, <1>5
  <2>2. ASSUME NEW m \in Nat, m < q PROVE p - m * Spc > Spc
    <3>1. q * Spc - m * Spc >= Spc /\ m * Spc \in Nat
      BY <1>1, <1>2, <1>3, <2>2
    <3>2. r >= 1
      BY <1>2, <1>6, <2>2
    <3>3. QED BY <1>1, <1>2, <1>5, <3>1, <3>2
  <2>3. QED BY <1>2, <2>1, <2>2 DEF q, r
<1>7. CASE r = 0 /\ q # 0
  <2>1. PICK k \in Nat : k = q - 1
    BY <1>2, <1>7
  <2>2. q * Spc - k * Spc = Spc /\ k * Spc \in Nat
    BY <1>1, <1>2, <2>1
  <2>3. p = q * Spc /\ p - k * Spc = Spc /\ k * Spc <= p /\ p >= Spc
    BY <1>1, <1>2, <1>5, <1>7, <2>2
  <2>4. k <= p
    BY <1>4, <2>2, <2>3
  <2>5. ASSUME NEW m \in Nat, m < k PROVE p - m * Spc > Spc
    <3>1. k * Spc - m * Spc >= Spc /\ m * Spc \in Nat
      BY <1>1, <1>3, <2>5
    <3>2. QED BY <1>1, <2>2, <2>3, <3>1
  <2>6. p - k * Spc \in 0 .. Spc
    BY <1>1, <2>3
  <2>7. QED BY <1>7, <2>1, <2>3, <2>4, <2>5, <2>6 DEF q, r
<1>8. QED BY <1>6, <1>7

LEMMA EntriesAre == ASSUME FatAssumption PROVE Entries \subseteq Entry
<1>1. SUFFICES ASSUME NEW s \in DOMAIN Directory, NEW i \in 1 .. EntriesPerSector
               PROVE  Directory[s][i] \in Entry
  BY DEF Entries
<1>2. Directory[s] \in Seq(Entry) /\ Len(Directory[s]) = EntriesPerSector
  BY DEF FatAssumption
<1>3. QED BY <1>2

LEMMA FilesAre ==
  ASSUME FatAssumption, NEW e \in Files
  PROVE  e.cluster \in Nat /\ e.size \in Nat /\ e.kind = "file" /\ e.size > 0
<1>1. e \in Entry /\ e.kind = "file" /\ e.size > 0
  BY EntriesAre DEF Files
<1>2. Clusters \subseteq Nat
  BY DEF FatAssumption
<1>3. e.cluster \in Clusters \cup {0} /\ e.size \in Nat
  BY <1>1 DEF Entry
<1>4. Clusters \cup {0} \subseteq Nat
  BY <1>2
<1>5. e.cluster \in Nat
  BY <1>3, <1>4
<1>6. QED BY <1>1, <1>3, <1>5

\* All clusters of a file up to one of its positions are clusters.
LEMMA FileClusters ==
  ASSUME FatAssumption, CardIsWhole, NEW e \in Files,
         NEW p \in 0 .. e.size - 1, NEW m \in Nat, m * Spc <= p
  PROVE  NthCluster(e.cluster, m) \in Clusters
<1>1. Spc \in Nat \ {0} /\ e.size \in Nat
  BY SizesAre, FilesAre
<1>2. PICK x \in 0 .. e.size - 1 : x = m * Spc
  BY <1>1
<1>3. x \div Spc = m
  <2>1. 0 \in 0 .. Spc - 1 /\ x = Spc * m + 0
    BY <1>1, <1>2
  <2>2. QED BY <1>1, <2>1, QuotientUnique
<1>4. NthCluster(e.cluster, x \div Spc) \in Clusters
  BY DEF CardIsWhole
<1>5. QED BY <1>3, <1>4

\* A round along a link of the table.
LEMMA FollowNext ==
  ASSUME FatAssumption, CardIsWhole, NEW w \in WalkState, NEW stale \in Links,
         Held(w.io), w.rc = 0, w.cluster \in Clusters, Chain[w.cluster] \in Clusters,
         ~(w.offset <= ClusterEntries)
  PROVE  \E f : /\ f = Follow(w, None, stale)
                /\ f.rc = 0 /\ f.cluster = Chain[w.cluster]
                /\ f.offset = Reduced(w.offset)
<1>1. PICK t : t = Fetched(w.io, TableSector(w.cluster), None)
  OBVIOUS
<1>2. TableSector(w.cluster) \in Sectors /\ TableSector(w.cluster) \in Int
  BY TableSectorType DEF CardIsWhole, WalkState
<1>3. t.rc = 0 /\ Holds(t.io, TableSector(w.cluster))
  <2>1. w.io \in Io
    BY DEF WalkState
  <2>2. QED BY <1>1, <1>2, <2>1, FetchedKeeps
<1>4. Link(t.io, w.cluster, stale) = Chain[w.cluster]
  BY <1>3 DEF Link, Holds
<1>5. Chain[w.cluster] # Eoc
  BY DEF FatAssumption, Eoc
<1>6. Follow(w, None, stale) = [io |-> t.io, cluster |-> Chain[w.cluster],
                                offset |-> Reduced(w.offset), rc |-> 0]
  BY <1>1, <1>3, <1>4, <1>5 DEF Follow
<1>7. QED BY <1>6

\* A position, but not the first one of a cluster that does not follow the one
\* before it.
Reached(c, p) ==
  \/ p % Spc # 0 \/ p < Spc
  \/ NthCluster(c, p \div Spc) = NthCluster(c, p \div Spc - 1) + 1

LEMMA WalkServes ==
  ASSUME FatAssumption, CardIsWhole, top_of_cluster = TopOfCluster,
         NEW e \in Files, NEW p \in 0 .. e.size - 1, Reached(e.cluster, p),
         NEW d \in Io, Held(d), NEW stale \in Links
  PROVE  Holds(Walk(d, e.cluster, p * EntriesPerSector, None, stale).io,
               SectorOf(e.cluster, p))
<1>1. PICK c \in Nat : c = e.cluster
  BY FilesAre
<1>2. p \in Nat /\ e.size \in Nat
  BY FilesAre
<1>3. PICK k \in Nat :
           /\ k <= p /\ k * Spc <= p /\ p - k * Spc \in 0 .. Spc
           /\ \A m \in Nat : m < k => p - m * Spc > Spc
           /\ \/ k = p \div Spc /\ p - k * Spc = p % Spc
              \/ /\ p % Spc = 0 /\ p >= Spc /\ k = p \div Spc - 1
                 /\ p - k * Spc = Spc
  BY <1>2, RoundsOfWalk
<1>4. Spc \in Nat \ {0} /\ EntriesPerSector \in Nat \ {0} /\ TopOfCluster \in Int
  BY SizesAre
<1>5. PICK o \in Nat : o = p * EntriesPerSector /\ k <= o
  <2>1. p * EntriesPerSector \in Nat /\ p * (EntriesPerSector - 1) >= 0
    BY <1>2, <1>4
  <2>2. p * EntriesPerSector >= p
    BY <1>2, <1>4, <2>1
  <2>3. QED BY <1>2, <1>3, <2>1, <2>2
<1>6. PICK g : /\ Iterates(g, WalkState, Begin(d, c, o), Round(None, stale), o)
               /\ Walk(d, c, o, None, stale) =
                     IF g[o].rc < 0 THEN [io |-> g[o].io, rc |-> g[o].rc]
                     ELSE Fetched(g[o].io, SectorIn(g[o].cluster, g[o].offset), None)
  BY WalkIterates
<1> DEFINE OnWay(w, m) == /\ w.rc = 0 /\ w.cluster = NthCluster(c, m)
                          /\ w.offset = (p - m * Spc) * EntriesPerSector
                          /\ Held(w.io)
           T == {n \in Nat : n <= o =>
                   \E m \in 0 .. k : (m = n \/ m = k) /\ OnWay(g[n], m)}
<1>7. /\ g[0] = Begin(d, c, o)
      /\ \A n \in 0 .. o : g[n] \in WalkState
      /\ \A n \in 1 .. o : g[n] = Round(None, stale)[g[n - 1]]
  BY <1>6 DEF Iterates
<1>8. 0 \in T
  <2>1. NthCluster(c, 0) = c /\ 0 \in 0 .. k /\ (p - 0 * Spc) = p
    BY <1>2, <1>4, NthClusterStep
  <2>2. OnWay(g[0], 0)
    BY <1>5, <1>7, <2>1 DEF Begin
  <2>3. QED BY <2>1, <2>2
<1>9. ASSUME NEW m \in Nat, NEW w \in WalkState, OnWay(w, m), m < k
      PROVE  OnWay(Follow(w, None, stale), m + 1)
  <2>1. p - m * Spc > Spc /\ p - m * Spc \in Int /\ (m + 1) * Spc <= p /\ m * Spc <= p
        /\ p - (m + 1) * Spc = (p - m * Spc) - Spc
    <3>1. p - m * Spc > Spc
      BY <1>3, <1>9
    <3>2. (m + 1) * Spc = m * Spc + Spc /\ m * Spc \in Int
      BY <1>4
    <3>3. QED BY <1>2, <1>4, <3>1, <3>2
  <2>2. NthCluster(c, m) \in Clusters /\ NthCluster(c, m + 1) \in Clusters
    BY <1>1, <2>1, FileClusters
  <2>3. NthCluster(c, m + 1) = Chain[NthCluster(c, m)]
    BY <2>2, NthClusterStep DEF NextCluster
  <2>4. ~(w.offset <= ClusterEntries)
    <3>1. PICK x \in Int : x = p - m * Spc /\ x > Spc
      BY <2>1
    <3>2. ~(x <= Spc)
      BY <1>4, <3>1
    <3>3. w.offset = x * EntriesPerSector
      BY <1>9, <3>1
    <3>4. QED BY <3>2, <3>3, InEntries
  <2>5. PICK f : /\ f = Follow(w, None, stale)
                 /\ f.rc = 0 /\ f.cluster = Chain[w.cluster]
                 /\ f.offset = Reduced(w.offset)
    BY <1>9, <2>2, <2>3, <2>4, FollowNext
  <2>6. f.offset = (p - (m + 1) * Spc) * EntriesPerSector
    BY <1>9, <2>1, <2>5, InEntries
  <2>7. Held(f.io)
    BY <1>9, <2>5, FollowKeeps32
  <2>8. QED BY <1>9, <2>3, <2>5, <2>6, <2>7
<1>10. ASSUME NEW w, OnWay(w, k) PROVE Follow(w, None, stale) = w
  <2>1. w.offset <= ClusterEntries
    BY <1>2, <1>3, <1>4, <1>10, InEntries
  <2>2. QED BY <2>1 DEF Follow
<1> HIDE DEF OnWay
<1>11. ASSUME NEW n \in Nat, n \in T PROVE n + 1 \in T
  <2>1. SUFFICES ASSUME n + 1 <= o
                 PROVE  \E m \in 0 .. k : (m = n + 1 \/ m = k) /\ OnWay(g[n + 1], m)
    OBVIOUS
  <2>2. n <= o /\ n \in 0 .. o /\ n + 1 \in 1 .. o /\ (n + 1) - 1 = n
    BY <2>1
  <2>3. PICK m \in 0 .. k : (m = n \/ m = k) /\ OnWay(g[n], m)
    BY <1>11, <2>2
  <2>4. g[n] \in WalkState /\ g[n + 1] = Follow(g[n], None, stale)
    BY <1>7, <2>2 DEF Round
  <2>5. CASE m = k
    BY <1>10, <2>3, <2>4, <2>5
  <2>6. CASE m < k
    <3>1. m \in Nat /\ m = n /\ m + 1 \in 0 .. k
      BY <2>3, <2>6
    <3>2. OnWay(g[n + 1], m + 1)
      BY <1>9, <2>3, <2>4, <2>6, <3>1
    <3>3. QED BY <3>1, <3>2
  <2>7. QED BY <2>5, <2>6
<1>12. o \in T
  <2> HIDE DEF T
  <2>1. QED BY <1>8, <1>11, Induction
<1>13. g[o] \in WalkState /\ OnWay(g[o], k)
  <2>1. PICK m \in 0 .. k : (m = o \/ m = k) /\ OnWay(g[o], m)
    BY <1>12
  <2>2. m = k
    BY <1>5, <2>1
  <2>3. QED BY <1>7, <2>1, <2>2
<1>14. PICK w \in WalkState : w = g[o] /\ OnWay(w, k)
  BY <1>13
<1>15. SectorIn(w.cluster, w.offset) = SectorOf(e.cluster, p)
  <2>1. SectorIn(w.cluster, w.offset) =
          TopOfCluster + (NthCluster(c, k) - 2) * Spc + (p - k * Spc)
    <3>1. p - k * Spc \in Int
      BY <1>2, <1>4
    <3>2. QED BY <1>14, <3>1, InEntries DEF SectorIn, OnWay
  <2>2. SectorOf(e.cluster, p) =
          TopOfCluster + (NthCluster(c, p \div Spc) - 2) * Spc + (p % Spc)
    BY <1>1 DEF SectorOf
  <2>3. PICK a \in Nat : a = NthCluster(c, k)
    BY NthClusterStep
  <2>4. CASE k = p \div Spc /\ p - k * Spc = p % Spc
    BY <2>1, <2>2, <2>4
  <2>5. CASE p % Spc = 0 /\ p >= Spc /\ k = p \div Spc - 1 /\ p - k * Spc = Spc
    <3>1. NthCluster(c, p \div Spc) = a + 1
      BY <1>1, <1>2, <1>4, <2>3, <2>5 DEF Reached
    <3>2. ((a + 1) - 2) * Spc = (a - 2) * Spc + Spc
      BY <1>4
    <3>3. (a - 2) * Spc \in Int
      BY <1>4
    <3>4. QED BY <1>4, <2>1, <2>2, <2>3, <2>5, <3>1, <3>2, <3>3
  <2>6. QED BY <1>3, <2>4, <2>5
<1>16. SectorOf(e.cluster, p) \in Sectors /\ SectorOf(e.cluster, p) \in Int
  <2>1. SectorOf(e.cluster, p) \in Sectors
    BY DEF CardIsWhole
  <2>2. QED BY <2>1, SectorsAre
<1>17. Walk(d, c, o, None, stale) = Fetched(w.io, SectorOf(e.cluster, p), None)
  BY <1>6, <1>14, <1>15 DEF OnWay
<1>18. w.io \in Io /\ Held(w.io)
  BY <1>14 DEF OnWay, WalkState
<1>19. Holds(Fetched(w.io, SectorOf(e.cluster, p), None).io, SectorOf(e.cluster, p))
  BY <1>16, <1>18, FetchedKeeps
<1>20. QED BY <1>1, <1>5, <1>17, <1>19
-----------------------------------------------------------------------------
(* fetch_cluster() with its second look at the same place.                  *)

LEMMA NoteType ==
  ASSUME NEW d \in Io, NEW c \in Int, NEW o \in Int
  PROVE  \E n \in Io : /\ n = [d EXCEPT !.last_cluster = c, !.last_offset = o]
                       /\ n.last_cluster = c /\ n.last_offset = o
                       /\ n.cur_sec = d.cur_sec /\ n.buffer = d.buffer
<1>1. [d EXCEPT !.last_cluster = c] =
        [buffer |-> d.buffer, cur_sec |-> d.cur_sec,
         last_cluster |-> c, last_offset |-> d.last_offset]
  BY DEF Io
<1>2. PICK m \in Io : /\ m = [d EXCEPT !.last_cluster = c] /\ m.last_cluster = c
                      /\ m.cur_sec = d.cur_sec /\ m.buffer = d.buffer
  BY <1>1 DEF Io
<1>3. [m EXCEPT !.last_offset = o] =
        [buffer |-> m.buffer, cur_sec |-> m.cur_sec,
         last_cluster |-> m.last_cluster, last_offset |-> o]
  BY DEF Io
<1>4. PICK n \in Io : /\ n = [m EXCEPT !.last_offset = o] /\ n.last_offset = o
                      /\ n.last_cluster = m.last_cluster
                      /\ n.cur_sec = m.cur_sec /\ n.buffer = m.buffer
  BY <1>3 DEF Io
<1>5. n = [d EXCEPT !.last_cluster = c, !.last_offset = o]
  BY <1>2, <1>4
<1>6. QED BY <1>2, <1>4, <1>5

LEMMA FetchClusterKeeps ==
  ASSUME FatAssumption, NEW d \in Io, NEW c \in Nat, NEW o \in Nat,
         NEW bad, NEW stale \in Links, top_of_cluster \in Int
  PROVE  \E f \in Io :
           /\ f = FetchCluster(d, c, o, bad, stale).io
           /\ \/ f = d /\ SamePlace(d, c, o)
              \/ f.last_cluster = c /\ f.last_offset = o /\ ~SamePlace(d, c, o)
           /\ bad = None /\ Held(d) => Held(f)
<1>1. PICK n \in Io : /\ n = [d EXCEPT !.last_cluster = c, !.last_offset = o]
                      /\ n.last_cluster = c /\ n.last_offset = o
                      /\ n.cur_sec = d.cur_sec /\ n.buffer = d.buffer
  BY NoteType
<1>2. Held(d) => Held(n)
  BY <1>1 DEF Held
<1>3. CASE SamePlace(d, c, o)
  <2>1. FetchCluster(d, c, o, bad, stale) = [io |-> d, rc |-> 0]
    BY <1>3 DEF FetchCluster
  <2>2. QED BY <1>3, <2>1
<1>4. CASE ~SamePlace(d, c, o) /\ c = 0
  <2>1. FetchCluster(d, c, o, bad, stale) =
          Fetched(n, TopOfDir + o \div EntriesPerSector, bad)
    BY <1>1, <1>4 DEF FetchCluster
  <2>2. TopOfDir + o \div EntriesPerSector \in Int
    BY DEF FatAssumption, TopOfDir
  <2>3. PICK f : f = Fetched(n, TopOfDir + o \div EntriesPerSector, bad).io
    OBVIOUS
  <2>4. f \in Io /\ SameNote(f, n) /\ (bad = None /\ Held(n) => Held(f))
    BY <2>2, <2>3, FetchedKeeps
  <2>5. f.last_cluster = c /\ f.last_offset = o
    BY <1>1, <2>4 DEF SameNote
  <2>6. QED BY <1>2, <1>4, <2>1, <2>3, <2>4, <2>5
<1>5. CASE ~SamePlace(d, c, o) /\ c # 0
  <2>1. FetchCluster(d, c, o, bad, stale) = Walk(n, c, o, bad, stale)
    BY <1>1, <1>5 DEF FetchCluster
  <2>2. PICK f : f = Walk(n, c, o, bad, stale).io
    OBVIOUS
  <2>3. f \in Io /\ SameNote(f, n) /\ (bad = None /\ Held(n) => Held(f))
    BY <2>2, WalkKeeps
  <2>4. f.last_cluster = c /\ f.last_offset = o
    BY <1>1, <2>3 DEF SameNote
  <2>5. QED BY <1>2, <1>5, <2>1, <2>2, <2>3, <2>4
<1>6. QED BY <1>3, <1>4, <1>5

\* In a cluster's chain the place is noted, then the walk begins.
LEMMA NotedWalk ==
  ASSUME NEW d \in Io, NEW c \in Nat \ {0}, NEW o \in Nat, NEW bad, NEW stale,
         ~SamePlace(d, c, o)
  PROVE  \E n \in Io : /\ Held(d) => Held(n)
                       /\ FetchCluster(d, c, o, bad, stale) = Walk(n, c, o, bad, stale)
<1>1. PICK n \in Io : /\ n = [d EXCEPT !.last_cluster = c, !.last_offset = o]
                      /\ n.last_cluster = c /\ n.last_offset = o
                      /\ n.cur_sec = d.cur_sec /\ n.buffer = d.buffer
  BY NoteType
<1>2. Held(d) => Held(n)
  BY <1>1 DEF Held
<1>3. FetchCluster(d, c, o, bad, stale) = Walk(n, c, o, bad, stale)
  BY <1>1 DEF FetchCluster
<1>4. QED BY <1>2, <1>3

LEMMA FetchServes ==
  ASSUME FatAssumption, CardIsWhole, top_of_cluster = TopOfCluster,
         NEW e \in Files, NEW p \in 0 .. e.size - 1, Reached(e.cluster, p),
         NEW d \in Io, Held(d), NEW stale \in Links,
         ~SamePlace(d, e.cluster, p * EntriesPerSector)
  PROVE  Holds(FetchCluster(d, e.cluster, p * EntriesPerSector, None, stale).io,
               SectorOf(e.cluster, p))
<1>1. PICK c \in Nat \ {0} : c = e.cluster
  BY FilesAre DEF CardIsWhole, DirClusters
<1>2. PICK o \in Nat : o = p * EntriesPerSector
  BY FilesAre DEF FatAssumption
<1>3. PICK n \in Io : /\ Held(n)
                      /\ FetchCluster(d, c, o, None, stale) = Walk(n, c, o, None, stale)
  BY <1>1, <1>2, NotedWalk
<1>4. Holds(Walk(n, c, o, None, stale).io, SectorOf(c, p))
  BY <1>1, <1>2, <1>3, WalkServes
<1>5. QED BY <1>1, <1>2, <1>3, <1>4
-----------------------------------------------------------------------------
(* The invariant.                                                           *)

FatTypes ==
  /\ io \in Io /\ faults \in 0 .. MaxFaults /\ inits \in 0 .. MaxInits
  /\ dir_offset \in Int /\ dir_offset >= -1 /\ dir_cluster \in DirClusters
  /\ top_of_cluster \in Int /\ sd_fat \in BOOLEAN
  /\ pc \in {"boot", "prompt", "m", "ls", "cd"}
  /\ file.cluster \in Nat /\ file.size \in Nat
  /\ \E n \in Nat : file_offset = n * EntriesPerSector
  /\ request \in Nat \cup {None}

\* Where the guest's disk comes from.
Origin ==
  /\ pc # "prompt" => request = None
  /\ pc = "boot" => ~sd_fat
  /\ kind # "none" => top_of_cluster = TopOfCluster
  /\ sd_fat => kind # "none"
  /\ file.size > 0 =>
       \E e \in Files : file.cluster = e.cluster /\ file.size = e.size

\* The buffer holds the place that is noted, if it is one of a file; while the
\* guest's disk is no file, another place is noted.
NotedIsHeld(d) ==
  \A e \in Files : \A p \in 0 .. e.size - 1 :
    /\ d.last_cluster = e.cluster /\ d.last_offset \div EntriesPerSector = p
    /\ Reached(e.cluster, p)
    => Holds(d, SectorOf(e.cluster, p))
Noted ==
  /\ Held(io) /\ NotedIsHeld(io)
  /\ ~sd_fat => \A e \in Files : io.last_cluster # e.cluster
  /\ pc \in {"m", "ls", "cd"} /\ dir_offset >= 0 => io.last_cluster = dir_cluster
  /\ RequestServedWithin

FatInv == FatTypes /\ Origin /\ (Undisturbed => Noted)

LEMMA DirClustersAre == ASSUME FatAssumption PROVE DirClusters \subseteq Nat
<1>1. Clusters \cup {0} \subseteq Nat
  BY DEF FatAssumption
<1>2. RootCluster \in Nat
  BY <1>1 DEF FatAssumption
<1>3. ASSUME NEW x \in Entries PROVE x.cluster \in Nat
  <2>1. x.cluster \in Clusters \cup {0}
    BY EntriesAre DEF Entry
  <2>2. QED BY <1>1, <2>1
<1>4. QED BY <1>2, <1>3 DEF DirClusters

\* No directory begins where a file does.
LEMMA DirsApart ==
  ASSUME CardIsWhole, NEW c \in DirClusters, NEW e \in Files
  PROVE  c # e.cluster
BY DEF CardIsWhole

LEMMA FatInitInv == ASSUME FatAssumption, CardIsWhole, Init PROVE FatInv
<1>1. /\ io = [buffer |-> None, cur_sec |-> None,
               last_cluster |-> None, last_offset |-> 0]
      /\ faults = MaxFaults /\ inits = MaxInits /\ kind = "none"
      /\ top_of_cluster = 0 /\ dir_cluster = 0 /\ dir_offset = None
      /\ file = NoFile /\ file_offset = 0 /\ sd_fat = FALSE
      /\ pc = "boot" /\ request = None
  BY DEF Init
<1>2. FatTypes
  <2>1. MaxFaults \in Nat /\ MaxInits \in Nat /\ EntriesPerSector \in Nat
    BY DEF FatAssumption
  <2>2. io \in Io
    BY <1>1 DEF Io, None
  <2>3. file_offset = 0 * EntriesPerSector
    BY <1>1, <2>1
  <2>4. dir_cluster \in DirClusters
    BY <1>1 DEF DirClusters
  <2>5. /\ file.cluster = 0 /\ file.size = 0 /\ dir_offset = -1
        /\ request \in Nat \cup {None}
    BY <1>1 DEF NoFile, None
  <2>6. \E n \in Nat : file_offset = n * EntriesPerSector
    BY <2>3
  <2>7. faults \in 0 .. MaxFaults /\ inits \in 0 .. MaxInits
    BY <1>1, <2>1
  <2>8. /\ dir_offset \in Int /\ dir_offset >= -1
        /\ file.cluster \in Nat /\ file.size \in Nat
    BY <2>5
  <2>9. top_of_cluster \in Int /\ sd_fat \in BOOLEAN
    <3>1. top_of_cluster \in Int
      BY <1>1
    <3>2. sd_fat \in BOOLEAN
      BY <1>1, Zenon
    <3>3. QED BY <3>1, <3>2
  <2>10. QED BY <1>1, <2>2, <2>4, <2>5, <2>6, <2>7, <2>8, <2>9, Zenon DEF FatTypes
<1>3. Origin
  BY <1>1 DEF Origin, NoFile
<1>4. \A e \in Files : io.last_cluster # e.cluster
  <2>1. io.last_cluster = -1
    BY <1>1 DEF None
  <2>2. QED BY <2>1, FilesAre
<1>5. Noted
  BY <1>1, <1>4 DEF Noted, Held, NotedIsHeld, RequestServedWithin, OnFile
<1>6. QED BY <1>2, <1>3, <1>5 DEF FatInv

\* A fetch without a fault leaves the place that it notes in the buffer.
LEMMA FetchNoted ==
  ASSUME FatAssumption, CardIsWhole, top_of_cluster = TopOfCluster,
         NEW d \in Io, Held(d), NotedIsHeld(d), NEW c \in Nat, NEW n \in Nat,
         NEW stale \in Links
  PROVE  NotedIsHeld(FetchCluster(d, c, n * EntriesPerSector, None, stale).io)
<1>1. PICK o \in Nat : o = n * EntriesPerSector
  BY SizesAre
<1>2. top_of_cluster \in Int
  BY SizesAre
<1>3. PICK f \in Io :
        /\ f = FetchCluster(d, c, o, None, stale).io
        /\ \/ f = d /\ SamePlace(d, c, o)
           \/ f.last_cluster = c /\ f.last_offset = o /\ ~SamePlace(d, c, o)
  BY <1>2, FetchClusterKeeps
<1>4. CASE f = d
  BY <1>1, <1>3, <1>4
<1>5. CASE /\ f.last_cluster = c /\ f.last_offset = o
           /\ ~SamePlace(d, c, o)
  <2>1. SUFFICES ASSUME NEW e \in Files, NEW p \in 0 .. e.size - 1,
                        f.last_cluster = e.cluster,
                        f.last_offset \div EntriesPerSector = p,
                        Reached(e.cluster, p)
                 PROVE  Holds(f, SectorOf(e.cluster, p))
    BY <1>1, <1>3 DEF NotedIsHeld
  <2>2. o \div EntriesPerSector = n
    BY <1>1, InEntries
  <2>3. n = p /\ c = e.cluster
    BY <1>5, <2>1, <2>2
  <2>4. f = FetchCluster(d, e.cluster, p * EntriesPerSector, None, stale).io
    BY <1>1, <1>3, <2>3
  <2>5. ~SamePlace(d, e.cluster, p * EntriesPerSector)
    BY <1>1, <1>5, <2>3
  <2>6. QED BY <2>1, <2>4, <2>5, FetchServes
<1>6. QED BY <1>3, <1>4, <1>5

\* So that the sector of a file's position is there after its fetch, be it the
\* first or a second look.
LEMMA FetchHolds ==
  ASSUME FatAssumption, CardIsWhole, top_of_cluster = TopOfCluster,
         NEW e \in Files, NEW p \in 0 .. e.size - 1, Reached(e.cluster, p),
         NEW d \in Io, Held(d), NotedIsHeld(d), NEW stale \in Links
  PROVE  Holds(FetchCluster(d, e.cluster, p * EntriesPerSector, None, stale).io,
               SectorOf(e.cluster, p))
<1>1. CASE ~SamePlace(d, e.cluster, p * EntriesPerSector)
  BY <1>1, FetchServes
<1>2. CASE SamePlace(d, e.cluster, p * EntriesPerSector)
  <2>1. FetchCluster(d, e.cluster, p * EntriesPerSector, None, stale).io = d
    BY <1>2 DEF FetchCluster
  <2>2. p \in Int
    BY FilesAre
  <2>3. (p * EntriesPerSector) \div EntriesPerSector = p
    BY <2>2, InEntries
  <2>4. Holds(d, SectorOf(e.cluster, p))
    BY <1>2, <2>3 DEF NotedIsHeld, SamePlace
  <2>5. QED BY <2>1, <2>4
<1>3. QED BY <1>1, <1>2

\* The bound on faults: a step without one lowers nothing.
LEMMA BadCases ==
  ASSUME FatAssumption, FatTypes, NEW bad \in Sectors \cup {None}, Bad(bad)
  PROVE  /\ faults' \in 0 .. MaxFaults /\ faults' <= faults
         /\ faults' = faults => bad = None
BY SectorsAre DEF Bad, FatTypes, FatAssumption

LEMMA StillUndisturbed ==
  ASSUME FatAssumption, FatTypes, faults' \in Int, faults' <= faults,
         inits' \in Int, inits' <= inits, Undisturbed'
  PROVE  Undisturbed /\ faults' = faults /\ inits' = inits
BY DEF Undisturbed, FatTypes, FatAssumption
-----------------------------------------------------------------------------
(* fat_init() and the commands.                                             *)

LEMMA BootedKeeps ==
  ASSUME FatAssumption, FatTypes, NEW bad
  PROVE  /\ Booted(bad).io \in Io /\ SameNote(Booted(bad).io, io)
         /\ bad = None /\ Held(io) =>
              Booted(bad).rc = 0 /\ Held(Booted(bad).io)
<1>1. 0 \in Sectors /\ BootSector \in Sectors /\ BootSector \in Int
  BY DEF FatAssumption, Sectors, BootSector
<1>2. io \in Io
  BY DEF FatTypes
<1>3. PICK mbr : mbr = Fetched(io, 0, bad)
  OBVIOUS
<1>4. /\ mbr.io \in Io /\ SameNote(mbr.io, io) /\ mbr.rc \in {0, -1}
      /\ bad = None /\ Held(io) => mbr.rc = 0 /\ Held(mbr.io)
  BY <1>1, <1>2, <1>3, FetchedKeeps
<1>5. PICK second : second = Fetched(mbr.io, BootSector, bad)
  OBVIOUS
<1>6. /\ second.io \in Io /\ SameNote(second.io, mbr.io)
      /\ bad = None /\ Held(mbr.io) => second.rc = 0 /\ Held(second.io)
  BY <1>1, <1>4, <1>5, FetchedKeeps
<1>7. Booted(bad) = mbr \/ Booted(bad) = second
  BY <1>3, <1>5 DEF Booted
<1>8. QED BY <1>4, <1>6, <1>7 DEF SameNote

LEMMA FatInitKeeps ==
  ASSUME FatAssumption, FatTypes, Origin, FatInit
  PROVE  /\ io' \in Io /\ SameNote(io', io)
         /\ faults' \in 0 .. MaxFaults /\ faults' <= faults
         /\ dir_offset' \in {dir_offset, None} /\ dir_cluster' \in DirClusters
         /\ top_of_cluster' \in Int /\ sd_fat' \in BOOLEAN
         /\ kind' # "none" => top_of_cluster' = TopOfCluster
         /\ sd_fat' => kind' # "none"
         /\ faults' = faults /\ Held(io) => Held(io') /\ (pc = "boot" => sd_fat')
<1>1. PICK bad \in Sectors \cup {None} :
        /\ Bad(bad)
        /\ io' = Booted(bad).io
        /\ IF Booted(bad).rc < 0
           THEN /\ sd_fat' = IF pc = "boot" THEN FALSE ELSE sd_fat
                /\ UNCHANGED fatVars
           ELSE /\ sd_fat' = IF pc = "boot" THEN TRUE ELSE sd_fat
                /\ kind' = Kind(top_of_cluster)
                /\ top_of_cluster' = TopOfCluster
                /\ dir_cluster' = IF kind' = "fat32" THEN RootCluster ELSE 0
                /\ dir_offset' = None
  BY DEF FatInit
<1>2. /\ faults' \in 0 .. MaxFaults /\ faults' <= faults
      /\ faults' = faults => bad = None
  BY <1>1, BadCases
<1>3. /\ io' \in Io /\ SameNote(io', io)
      /\ bad = None /\ Held(io) => Booted(bad).rc = 0 /\ Held(io')
  BY <1>1, BootedKeeps
<1>4. sd_fat \in BOOLEAN /\ dir_cluster \in DirClusters /\ top_of_cluster \in Int
  BY DEF FatTypes
<1>5. /\ kind # "none" => top_of_cluster = TopOfCluster
      /\ sd_fat => kind # "none"
      /\ pc = "boot" => ~sd_fat
  BY DEF Origin
<1>6. CASE Booted(bad).rc < 0
  <2>1. /\ sd_fat' = IF pc = "boot" THEN FALSE ELSE sd_fat
        /\ kind' = kind /\ top_of_cluster' = top_of_cluster
        /\ dir_cluster' = dir_cluster /\ dir_offset' = dir_offset
    BY <1>1, <1>6 DEF fatVars
  <2>2. sd_fat' \in BOOLEAN /\ (sd_fat' => kind' # "none")
    BY <1>4, <1>5, <2>1
  <2>3. ~(bad = None /\ Held(io))
    BY <1>3, <1>6
  <2>4. QED BY <1>2, <1>3, <1>4, <1>5, <2>1, <2>2, <2>3
<1>7. CASE ~(Booted(bad).rc < 0)
  <2>1. /\ sd_fat' = IF pc = "boot" THEN TRUE ELSE sd_fat
        /\ kind' = Kind(top_of_cluster) /\ top_of_cluster' = TopOfCluster
        /\ dir_cluster' \in {RootCluster, 0} /\ dir_offset' = None
    BY <1>1, <1>7
  <2>2. kind' # "none"
    BY <2>1 DEF Kind
  <2>3. dir_cluster' \in DirClusters /\ top_of_cluster' \in Int
    BY <2>1, SizesAre DEF DirClusters
  <2>4. sd_fat' \in BOOLEAN /\ (pc = "boot" => sd_fat')
    BY <1>4, <2>1
  <2>5. QED BY <1>2, <1>3, <2>1, <2>2, <2>3, <2>4
<1>8. QED BY <1>6, <1>7

LEMMA BootKeeps ==
  ASSUME FatAssumption, CardIsWhole, FatInv, Boot PROVE FatInv'
<1>1. FatTypes /\ Origin /\ FatInit
  BY DEF FatInv, Boot
<1>2. /\ pc = "boot" /\ pc' = "prompt" /\ inits' = inits /\ file' = file
      /\ file_offset' = file_offset /\ request' = request
  BY DEF Boot
<1>3. /\ io' \in Io /\ SameNote(io', io)
      /\ faults' \in 0 .. MaxFaults /\ faults' <= faults
      /\ dir_offset' \in {dir_offset, None} /\ dir_cluster' \in DirClusters
      /\ top_of_cluster' \in Int /\ sd_fat' \in BOOLEAN
      /\ kind' # "none" => top_of_cluster' = TopOfCluster
      /\ sd_fat' => kind' # "none"
      /\ faults' = faults /\ Held(io) => Held(io') /\ (pc = "boot" => sd_fat')
  BY <1>1, FatInitKeeps
<1>4. FatTypes'
  <2>1. dir_offset' \in Int /\ dir_offset' >= -1
    BY <1>1, <1>3 DEF FatTypes, None
  <2>2. /\ inits \in 0 .. MaxInits /\ file.cluster \in Nat /\ file.size \in Nat
        /\ \E n \in Nat : file_offset = n * EntriesPerSector
        /\ request \in Nat \cup {None}
    BY <1>1 DEF FatTypes
  <2>3. QED BY <1>2, <1>3, <2>1, <2>2, Zenon DEF FatTypes
<1>5. Origin'
  BY <1>1, <1>2, <1>3 DEF Origin
<1>6. ASSUME Undisturbed' PROVE Noted'
  <2>1. Undisturbed /\ faults' = faults
    BY <1>1, <1>2, <1>3, <1>6, StillUndisturbed DEF FatTypes
  <2>2. Noted /\ ~sd_fat
    BY <1>1, <1>2, <2>1 DEF FatInv, Origin
  <2>3. Held(io') /\ sd_fat'
    BY <1>2, <1>3, <2>1, <2>2 DEF Noted
  <2>4. \A e \in Files : io'.last_cluster # e.cluster
    BY <1>3, <2>2 DEF Noted, SameNote
  <2>5. request' = None
    BY <1>1, <1>2 DEF Origin
  <2>6. RequestServedWithin'
    BY <2>5 DEF RequestServedWithin, OnFile
  <2>7. NotedIsHeld(io')
    BY <2>4 DEF NotedIsHeld
  <2>8. QED BY <1>2, <2>3, <2>6, <2>7 DEF Noted
<1>7. QED BY <1>4, <1>5, <1>6 DEF FatInv

LEMMA CdKeeps ==
  ASSUME FatAssumption, CardIsWhole, FatInv, Cd PROVE FatInv'
<1>1. FatTypes /\ Origin /\ FatInit
  BY DEF FatInv, Cd
<1>2. /\ pc = "prompt" /\ pc' = pc /\ inits > 0 /\ inits' = inits - 1
      /\ file' = file /\ file_offset' = file_offset /\ request' = None
  BY DEF Cd, command
<1>3. /\ io' \in Io
      /\ faults' \in 0 .. MaxFaults
      /\ dir_offset' \in {dir_offset, None} /\ dir_cluster' \in DirClusters
      /\ top_of_cluster' \in Int /\ sd_fat' \in BOOLEAN
      /\ kind' # "none" => top_of_cluster' = TopOfCluster
      /\ sd_fat' => kind' # "none"
  BY <1>1, FatInitKeeps
<1>4. FatTypes'
  <2>1. dir_offset' \in Int /\ dir_offset' >= -1
    BY <1>1, <1>3 DEF FatTypes, None
  <2>2. inits' \in 0 .. MaxInits
    <3>1. inits \in 0 .. MaxInits /\ MaxInits \in Nat
      BY <1>1 DEF FatTypes, FatAssumption
    <3>2. QED BY <1>2, <3>1
  <2>3. /\ file.cluster \in Nat /\ file.size \in Nat
        /\ \E n \in Nat : file_offset = n * EntriesPerSector
    BY <1>1 DEF FatTypes
  <2>4. QED BY <1>2, <1>3, <2>1, <2>2, <2>3, Zenon DEF FatTypes
<1>5. Origin'
  BY <1>1, <1>2, <1>3 DEF Origin
<1>6. ~Undisturbed'
  BY <1>1, <1>2 DEF Undisturbed, FatTypes
<1>7. QED BY <1>4, <1>5, <1>6 DEF FatInv

LEMMA WalksKeeps ==
  ASSUME FatAssumption, CardIsWhole, FatInv, NEW cmd \in {"m", "ls", "cd"},
         NEW name, Walks(cmd, name)
  PROVE  FatInv'
<1>1. FatTypes /\ Origin
  BY DEF FatInv
<1>2. /\ pc' = cmd /\ dir_offset' = None /\ request' = None /\ io' = io
      /\ faults' = faults /\ inits' = inits /\ kind' = kind
      /\ top_of_cluster' = top_of_cluster /\ dir_cluster' = dir_cluster
      /\ file' = file /\ file_offset' = file_offset /\ sd_fat' = sd_fat
  BY DEF Walks, fileVars
<1>3. FatTypes'
  <2>1. dir_offset' \in Int /\ dir_offset' >= -1
    BY <1>2 DEF None
  <2>2. QED BY <1>1, <1>2, <2>1, Zenon DEF FatTypes
<1>4. Origin'
  BY <1>1, <1>2 DEF Origin
<1>5. ASSUME Undisturbed' PROVE Noted'
  <2>1. Undisturbed
    BY <1>2, <1>5 DEF Undisturbed
  <2>2. Noted
    BY <2>1 DEF FatInv
  <2>3. RequestServedWithin'
    BY <1>2 DEF RequestServedWithin, OnFile
  <2>4. ~(dir_offset' >= 0)
    BY <1>2 DEF None
  <2>5. QED BY <1>2, <2>2, <2>3, <2>4 DEF Noted
<1>6. QED BY <1>3, <1>4, <1>5 DEF FatInv
-----------------------------------------------------------------------------
(* A step of the walk through the directory.                                *)

\* The entry that is looked at.
LEMMA EntrySeen ==
  ASSUME FatAssumption, NEW d \in Io, NEW o \in Nat
  PROVE  EntryAt(d, o) \in Entries \cup {JunkEntry}
<1>1. CASE d.buffer \in DOMAIN Directory
  <2>1. PICK i \in 1 .. EntriesPerSector : i = (o % EntriesPerSector) + 1
    BY SizesAre
  <2>2. EntryAt(d, o) = Directory[d.buffer][i]
    BY <1>1, <2>1 DEF EntryAt
  <2>3. QED BY <1>1, <2>2 DEF Entries
<1>2. CASE d.buffer \notin DOMAIN Directory
  BY <1>2 DEF EntryAt
<1>3. QED BY <1>1, <1>2

\* What the command does with it: go on, end without it, take the file or enter
\* the directory.
GoesOn == UNCHANGED <<pc, fileVars, dir_cluster>>
GivesUp == /\ pc' = "prompt" /\ sd_fat' \in {FALSE, sd_fat}
           /\ UNCHANGED <<file, file_offset, dir_cluster>>
Takes(e) == /\ pc' = "prompt" /\ sd_fat' = TRUE /\ e.kind = "file"
            /\ FatOpen(e) /\ UNCHANGED dir_cluster
Enters(e) == /\ pc' = "prompt" /\ e.kind = "dir" /\ dir_cluster' = e.cluster
             /\ UNCHANGED fileVars

LEMMA EndsCases ==
  ASSUME NEW found \in BOOLEAN, Ends(found)
  PROVE  /\ pc' = "prompt" /\ sd_fat' \in {found, sd_fat}
         /\ pc = "m" => sd_fat' = found
         /\ pc # "m" => sd_fat' = sd_fat
BY Zenon DEF Ends

LEMMA StepCases ==
  ASSUME NEW d, NEW e, Step(d, e)
  PROVE  /\ dir_offset' \in {None, dir_offset + 1}
         /\ GoesOn \/ GivesUp \/ Takes(e) \/ Enters(e)
<1>1. dir_offset' \in {None, dir_offset + 1}
  BY DEF Step
<1>2. CASE EndsAt(e)
  <2>1. Ends(FALSE) /\ UNCHANGED <<file, file_offset, dir_cluster>>
    BY <1>2 DEF Step
  <2>2. QED BY <1>1, <2>1, EndsCases DEF GivesUp
<1>3. CASE ~EndsAt(e) /\ pc = "m" /\ Fits(e)
  <2>1. e.kind = "file"
    BY <1>3 DEF Fits
  <2>2. Ends(TRUE) /\ FatOpen(e) /\ UNCHANGED dir_cluster
    BY <1>3, <2>1 DEF Step
  <2>3. pc' = "prompt" /\ sd_fat' = TRUE
    BY <1>3, <2>2, EndsCases
  <2>4. QED BY <1>1, <2>1, <2>2, <2>3 DEF Takes
<1>4. CASE ~EndsAt(e) /\ pc = "cd" /\ Fits(e)
  <2>1. e.kind = "dir"
    BY <1>4 DEF Fits
  <2>2. /\ Ends(TRUE) /\ dir_cluster' = e.cluster
        /\ UNCHANGED <<file, file_offset>>
    BY <1>4, <2>1 DEF Step
  <2>3. pc' = "prompt" /\ sd_fat' = sd_fat
    BY <1>4, <2>2, EndsCases
  <2>4. QED BY <1>1, <2>1, <2>2, <2>3 DEF Enters, fileVars
<1>5. CASE ~EndsAt(e) /\ ~(pc \in {"m", "cd"} /\ Fits(e))
  <2>1. UNCHANGED <<pc, fileVars, dir_cluster>>
    BY <1>5 DEF Step
  <2>2. QED BY <1>1, <2>1 DEF GoesOn
<1>6. QED BY <1>2, <1>3, <1>4, <1>5

\* The step looks at an entry, or there is none left to look at.
LEMMA NextCases ==
  ASSUME FatAssumption, CardIsWhole, FatTypes, FatNext
  PROVE  /\ io' \in Io /\ faults' \in 0 .. MaxFaults /\ faults' <= faults
         /\ dir_offset' \in {None, dir_offset + 1}
         /\ faults' = faults /\ Held(io) => Held(io')
         /\ \/ io' = io /\ (kind = "none" \/ dir_offset >= 0) /\ GivesUp
            \/ /\ io'.last_cluster = dir_cluster /\ kind # "none"
               /\ \/ GoesOn \/ GivesUp
                  \/ \E e \in Entries \cup {JunkEntry} : Takes(e) \/ Enters(e)
<1>1. /\ io \in Io /\ dir_offset \in Int /\ dir_offset >= -1
      /\ faults \in 0 .. MaxFaults /\ dir_cluster \in Nat
      /\ top_of_cluster \in Int
  BY DirClustersAre DEF FatTypes
<1>2. CASE /\ dir_offset + 1 >= dir_entries /\ Ends(FALSE)
           /\ dir_offset' = dir_offset + 1
           /\ UNCHANGED <<io, faults, file, file_offset, dir_cluster>>
  <2>1. GivesUp
    BY <1>2, EndsCases DEF GivesUp
  <2>2. kind = "none" \/ dir_offset >= 0
    BY <1>1, <1>2 DEF dir_entries, CardIsWhole
  <2>3. faults' \in 0 .. MaxFaults /\ faults' <= faults /\ io' = io
    BY <1>1, <1>2 DEF FatAssumption
  <2>4. QED BY <1>1, <1>2, <2>1, <2>2, <2>3
<1>3. ASSUME NEW bad \in Sectors \cup {None}, NEW stale \in Clusters \cup {Eoc},
             dir_offset + 1 < dir_entries, Bad(bad),
             io' = FetchCluster(io, dir_cluster, dir_offset + 1, bad, stale).io,
             \/ /\ Ends(FALSE) /\ dir_offset' = dir_offset + 1
                /\ UNCHANGED <<file, file_offset, dir_cluster>>
             \/ Step(io', EntryAt(io', dir_offset + 1))
      PROVE  /\ io' \in Io /\ faults' \in 0 .. MaxFaults /\ faults' <= faults
             /\ dir_offset' \in {None, dir_offset + 1}
             /\ faults' = faults /\ Held(io) => Held(io')
             /\ io'.last_cluster = dir_cluster /\ kind # "none"
             /\ \/ GoesOn \/ GivesUp
                \/ \E e \in Entries \cup {JunkEntry} : Takes(e) \/ Enters(e)
  <2>1. PICK o \in Nat : o = dir_offset + 1
    BY <1>1
  <2>2. stale \in Links
    BY DEF Links
  <2>3. PICK f \in Io :
          /\ f = FetchCluster(io, dir_cluster, o, bad, stale).io
          /\ \/ f = io /\ SamePlace(io, dir_cluster, o)
             \/ /\ f.last_cluster = dir_cluster /\ f.last_offset = o
                /\ ~SamePlace(io, dir_cluster, o)
          /\ bad = None /\ Held(io) => Held(f)
    BY <1>1, <2>2, FetchClusterKeeps
  <2>4. io' = f /\ f.last_cluster = dir_cluster
    BY <1>3, <2>1, <2>3 DEF SamePlace
  <2>5. /\ faults' \in 0 .. MaxFaults /\ faults' <= faults
        /\ faults' = faults => bad = None
    BY <1>3, BadCases
  <2>6. kind # "none"
    <3>1. ASSUME dir_entries = 0 PROVE FALSE
      <4>1. dir_offset + 1 < 0
        BY <1>3, <3>1
      <4>2. QED BY <1>1, <4>1
    <3>2. QED BY <3>1, Zenon DEF dir_entries
  <2>7. CASE /\ Ends(FALSE) /\ dir_offset' = dir_offset + 1
             /\ UNCHANGED <<file, file_offset, dir_cluster>>
    <3>1. GivesUp
      BY <2>7, EndsCases DEF GivesUp
    <3>2. QED BY <2>3, <2>4, <2>5, <2>6, <2>7, <3>1
  <2>8. CASE Step(f, EntryAt(f, o))
    <3>1. PICK e \in Entries \cup {JunkEntry} : e = EntryAt(f, o)
      BY EntrySeen
    <3>2. /\ dir_offset' \in {None, dir_offset + 1}
          /\ GoesOn \/ GivesUp \/ Takes(e) \/ Enters(e)
      BY <2>8, <3>1, StepCases
    <3>3. QED BY <2>3, <2>4, <2>5, <2>6, <3>2
  <2>9. QED BY <1>3, <2>1, <2>4, <2>7, <2>8
<1>4. \/ /\ dir_offset + 1 >= dir_entries /\ Ends(FALSE)
         /\ dir_offset' = dir_offset + 1
         /\ UNCHANGED <<io, faults, file, file_offset, dir_cluster>>
      \/ \E bad \in Sectors \cup {None}, stale \in Clusters \cup {Eoc} :
           /\ dir_offset + 1 < dir_entries /\ Bad(bad)
           /\ io' = FetchCluster(io, dir_cluster, dir_offset + 1, bad, stale).io
           /\ \/ /\ Ends(FALSE) /\ dir_offset' = dir_offset + 1
                 /\ UNCHANGED <<file, file_offset, dir_cluster>>
              \/ Step(io', EntryAt(io', dir_offset + 1))
  BY DEF FatNext
<1>5. QED BY <1>2, <1>3, <1>4

\* The file that the guest's disk is.
FileIs(f, o) == /\ f.cluster \in Nat /\ f.size \in Nat
                /\ \E n \in Nat : o = n * EntriesPerSector
                /\ f.size > 0 => \E e \in Files : f.cluster = e.cluster /\ f.size = e.size

LEMMA TakesFile ==
  ASSUME FatAssumption, FileIs(file, file_offset),
         NEW e \in Entries \cup {JunkEntry}, Takes(e)
  PROVE  FileIs(file', file_offset')
<1>1. /\ file' = [cluster |-> e.cluster, size |-> e.size] /\ e.kind = "file"
      /\ file_offset' = file_offset \/ file_offset' = 0
  BY DEF Takes, FatOpen
<1>2. e.cluster \in Nat /\ e.size \in Nat
  <2>1. CASE e \in Entries
    <3>1. e \in Entry /\ Clusters \cup {0} \subseteq Nat
      BY <2>1, EntriesAre DEF FatAssumption
    <3>2. e.cluster \in Clusters \cup {0} /\ e.size \in Nat
      BY <3>1 DEF Entry
    <3>3. QED BY <3>1, <3>2
  <2>2. CASE e = JunkEntry
    BY <2>2 DEF JunkEntry
  <2>3. QED BY <2>1, <2>2
<1>3. \E n \in Nat : file_offset' = n * EntriesPerSector
  <2>1. 0 * EntriesPerSector = 0
    BY SizesAre
  <2>2. QED BY <1>1, <2>1 DEF FileIs
<1>4. ASSUME e.size > 0 PROVE e \in Files
  <2>1. e # JunkEntry
    BY <1>4 DEF JunkEntry
  <2>2. QED BY <1>1, <1>4, <2>1 DEF Files
<1>5. file'.cluster = e.cluster /\ file'.size = e.size
  BY <1>1
<1>6. QED BY <1>2, <1>3, <1>4, <1>5 DEF FileIs

LEMMA EntersDirectory ==
  ASSUME NEW e \in Entries \cup {JunkEntry}, Enters(e)
  PROVE  dir_cluster' \in DirClusters
BY DEF Enters, DirClusters, JunkEntry

LEMMA NextOutcome ==
  ASSUME FatAssumption, CardIsWhole, FatTypes, Origin, FatNext
  PROVE  /\ pc' \in {pc, "prompt"} /\ sd_fat' \in BOOLEAN
         /\ sd_fat' => kind # "none"
         /\ dir_cluster' \in DirClusters
         /\ pc' # "prompt" => dir_cluster' = dir_cluster
         /\ FileIs(file', file_offset')
<1>1. /\ sd_fat \in BOOLEAN /\ dir_cluster \in DirClusters
      /\ sd_fat => kind # "none"
      /\ FileIs(file, file_offset)
  BY Zenon DEF FatTypes, Origin, FileIs
<1>2. \/ GivesUp
      \/ kind # "none" /\ GoesOn
      \/ kind # "none" /\ \E e \in Entries \cup {JunkEntry} : Takes(e) \/ Enters(e)
  BY NextCases
<1>3. CASE GivesUp
  <2>1. /\ pc' = "prompt" /\ dir_cluster' = dir_cluster
        /\ file' = file /\ file_offset' = file_offset
        /\ sd_fat' = FALSE \/ sd_fat' = sd_fat
    BY <1>3 DEF GivesUp
  <2>2. sd_fat' \in BOOLEAN /\ (sd_fat' => kind # "none")
    <3>1. CASE sd_fat' = FALSE
      BY <3>1, Zenon
    <3>2. CASE sd_fat' = sd_fat
      BY <1>1, <3>2, Zenon
    <3>3. QED BY <2>1, <3>1, <3>2
  <2>3. FileIs(file', file_offset')
    BY <1>1, <2>1
  <2>4. QED BY <1>1, <2>1, <2>2, <2>3
<1>4. CASE GoesOn
  BY <1>1, <1>4 DEF GoesOn, fileVars
<1>5. ASSUME NEW e \in Entries \cup {JunkEntry}, Takes(e), kind # "none"
      PROVE  /\ pc' \in {pc, "prompt"} /\ sd_fat' \in BOOLEAN
             /\ dir_cluster' \in DirClusters
             /\ pc' # "prompt" => dir_cluster' = dir_cluster
             /\ FileIs(file', file_offset')
  <2>1. FileIs(file', file_offset')
    BY <1>1, <1>5, TakesFile
  <2>2. QED BY <1>1, <1>5, <2>1, Zenon DEF Takes
<1>6. ASSUME NEW e \in Entries \cup {JunkEntry}, Enters(e), kind # "none"
      PROVE  /\ pc' \in {pc, "prompt"} /\ sd_fat' \in BOOLEAN
             /\ dir_cluster' \in DirClusters
             /\ pc' # "prompt" => dir_cluster' = dir_cluster
             /\ FileIs(file', file_offset')
  <2>1. dir_cluster' \in DirClusters
    BY <1>6, EntersDirectory
  <2>2. pc' = "prompt" /\ UNCHANGED fileVars
    BY <1>6 DEF Enters
  <2>3. QED BY <1>1, <2>1, <2>2 DEF fileVars
<1>7. QED BY <1>1, <1>2, <1>3, <1>4, <1>5, <1>6

LEMMA FatNextKeeps ==
  ASSUME FatAssumption, CardIsWhole, FatInv, FatNext PROVE FatInv'
<1>1. FatTypes /\ Origin
  BY DEF FatInv
<1>2. /\ pc \in {"m", "ls", "cd"} /\ inits' = inits /\ kind' = kind
      /\ top_of_cluster' = top_of_cluster /\ request' = request
      /\ request = None
  BY <1>1 DEF FatNext, Origin
<1>3. /\ pc' \in {pc, "prompt"} /\ sd_fat' \in BOOLEAN
      /\ sd_fat' => kind # "none"
      /\ dir_cluster' \in DirClusters
      /\ pc' # "prompt" => dir_cluster' = dir_cluster
      /\ FileIs(file', file_offset')
  BY <1>1, NextOutcome
<1>4. /\ io' \in Io /\ faults' \in 0 .. MaxFaults /\ faults' <= faults
      /\ dir_offset' \in {None, dir_offset + 1}
      /\ faults' = faults /\ Held(io) => Held(io')
      /\ \/ io' = io /\ (kind = "none" \/ dir_offset >= 0) /\ pc' = "prompt"
         \/ io'.last_cluster = dir_cluster
  BY <1>1, NextCases DEF GivesUp
<1>5. FatTypes'
  <2>1. dir_offset' \in Int /\ dir_offset' >= -1
    <3>1. dir_offset \in Int /\ dir_offset >= -1
      BY <1>1 DEF FatTypes
    <3>2. QED BY <1>4, <3>1 DEF None
  <2>2. /\ file'.cluster \in Nat /\ file'.size \in Nat
        /\ \E n \in Nat : file_offset' = n * EntriesPerSector
    BY <1>3 DEF FileIs
  <2>3. pc' \in {"boot", "prompt", "m", "ls", "cd"}
    BY <1>2, <1>3
  <2>4. QED BY <1>1, <1>2, <1>3, <1>4, <2>1, <2>2, <2>3, Zenon DEF FatTypes
<1>6. Origin'
  BY <1>1, <1>2, <1>3 DEF Origin, FileIs
<1>7. ASSUME Undisturbed' PROVE Noted'
  <2>1. Undisturbed /\ faults' = faults
    <3>1. inits' \in Int /\ inits' <= inits
      BY <1>1, <1>2 DEF FatTypes
    <3>2. QED BY <1>1, <1>4, <1>7, <3>1, StillUndisturbed
  <2>2. Noted
    BY <2>1 DEF FatInv
  <2>3. Held(io')
    BY <1>4, <2>1, <2>2 DEF Noted
  <2>4. RequestServedWithin'
    BY <1>2 DEF RequestServedWithin, OnFile
  <2>5. CASE io'.last_cluster = dir_cluster
    <3>1. \A e \in Files : io'.last_cluster # e.cluster
      BY <1>1, <2>5, DirsApart DEF FatTypes
    <3>2. NotedIsHeld(io')
      BY <3>1 DEF NotedIsHeld
    <3>3. pc' \in {"m", "ls", "cd"} => io'.last_cluster = dir_cluster'
      BY <1>3, <2>5
    <3>4. QED BY <2>3, <2>4, <3>1, <3>2, <3>3 DEF Noted
  <2>6. CASE io' = io /\ (kind = "none" \/ dir_offset >= 0) /\ pc' = "prompt"
    <3>1. \A e \in Files : io'.last_cluster # e.cluster
      <4>1. CASE kind = "none"
        BY <1>1, <2>2, <2>6, <4>1 DEF Noted, Origin
      <4>2. CASE dir_offset >= 0
        <5>1. io.last_cluster = dir_cluster
          BY <1>2, <2>2, <4>2 DEF Noted
        <5>2. QED BY <1>1, <2>6, <5>1, DirsApart DEF FatTypes
      <4>3. QED BY <2>6, <4>1, <4>2
    <3>2. NotedIsHeld(io')
      BY <3>1 DEF NotedIsHeld
    <3>3. QED BY <2>3, <2>4, <2>6, <3>1, <3>2 DEF Noted
  <2>7. QED BY <1>4, <2>5, <2>6
<1>8. QED BY <1>5, <1>6, <1>7 DEF FatInv
-----------------------------------------------------------------------------
(* A request of the guest.                                                  *)

\* What a request fetches: the place in the file, or a sector of the card.
LEMMA RequestCases ==
  ASSUME FatAssumption, FatTypes, NEW p \in Positions, Request(p)
  PROVE  /\ faults' \in 0 .. MaxFaults /\ faults' <= faults
         /\ \E n \in Nat :
              /\ file_offset' = n * EntriesPerSector
              /\ sd_fat /\ SeekFits(p) => n = p
         /\ \E bad \in Sectors \cup {None}, stale \in Links :
              /\ faults' = faults => bad = None
              /\ io' = IF sd_fat THEN FetchCluster(io, file.cluster, file_offset',
                                                   bad, stale).io
                       ELSE Fetched(io, p, bad).io
<1>1. p \in Nat /\ Eoc \in Links
  BY DEF FatAssumption, Links
<1>2. PICK m \in Nat : file_offset = m * EntriesPerSector
  BY Zenon DEF FatTypes
<1>3. CASE sd_fat
  <2>1. PICK bad \in Sectors \cup {None}, stale \in Links :
          /\ Bad(bad)
          /\ io' = FetchCluster(io, file.cluster, file_offset', bad, stale).io
    BY <1>3 DEF Request, Links
  <2>2. Seek(p)
    BY <1>3 DEF Request
  <2>3. \E n \in Nat : file_offset' = n * EntriesPerSector /\ (SeekFits(p) => n = p)
    BY <1>1, <1>2, <2>2 DEF Seek
  <2>4. /\ faults' \in 0 .. MaxFaults /\ faults' <= faults
        /\ faults' = faults => bad = None
    BY <2>1, BadCases
  <2>5. QED BY <1>3, <2>1, <2>3, <2>4
<1>4. CASE ~sd_fat
  <2>1. PICK bad \in Sectors \cup {None} : Bad(bad) /\ io' = Fetched(io, p, bad).io
    BY <1>4 DEF Request
  <2>2. file_offset' = file_offset
    BY <1>4 DEF Request
  <2>3. /\ faults' \in 0 .. MaxFaults /\ faults' <= faults
        /\ faults' = faults => bad = None
    BY <2>1, BadCases
  <2>4. \E n \in Nat : file_offset' = n * EntriesPerSector
    BY <1>2, <2>2
  <2>5. QED BY <1>1, <1>4, <2>1, <2>3, <2>4
<1>5. QED BY <1>3, <1>4

\* A request without a fault gets its sector, when the place that is noted is
\* there or the request is no second look at it.
LEMMA RequestServes ==
  ASSUME FatAssumption, CardIsWhole, FatTypes, Origin,
         NEW p \in Positions, Request(p), faults' = faults,
         Held(io), NotedIsHeld(io) \/ io' # io
  PROVE  RequestServedWithin'
<1>1. /\ request' = p /\ file' = file /\ sd_fat' = sd_fat
  BY DEF Request
<1>2. SUFFICES ASSUME sd_fat, p < file.size, Reached(file.cluster, p)
               PROVE  Holds(io', SectorOf(file.cluster, p))
  BY <1>1 DEF RequestServedWithin, OnFile, Within, FollowsOn, AtItsSector,
              Holds, Reached
<1>3. p \in Nat /\ file.size \in Nat /\ io \in Io
  BY DEF FatAssumption, FatTypes
<1>4. PICK e \in Files : file.cluster = e.cluster /\ file.size = e.size
  BY <1>2, <1>3 DEF Origin
<1>5. p \in 0 .. e.size - 1
  BY <1>2, <1>3, <1>4
<1>6. top_of_cluster = TopOfCluster
  BY <1>2 DEF Origin
<1>7. PICK stale \in Links :
        io' = FetchCluster(io, e.cluster, p * EntriesPerSector, None, stale).io
  <2>1. PICK n \in Nat : /\ file_offset' = n * EntriesPerSector
                         /\ sd_fat /\ SeekFits(p) => n = p
    BY RequestCases
  <2>2. file_offset' = p * EntriesPerSector
    BY <1>2, <2>1 DEF SeekFits
  <2>3. PICK bad \in Sectors \cup {None}, stale \in Links :
          /\ faults' = faults => bad = None
          /\ io' = IF sd_fat THEN FetchCluster(io, file.cluster, file_offset',
                                               bad, stale).io
                   ELSE Fetched(io, p, bad).io
    BY RequestCases
  <2>4. QED BY <1>2, <1>4, <2>2, <2>3
<1>8. CASE NotedIsHeld(io)
  BY <1>2, <1>3, <1>4, <1>5, <1>6, <1>7, <1>8, FetchHolds
<1>9. CASE io' # io
  <2>1. ~SamePlace(io, e.cluster, p * EntriesPerSector)
    BY <1>7, <1>9 DEF FetchCluster
  <2>2. QED BY <1>2, <1>3, <1>4, <1>5, <1>6, <1>7, <2>1, FetchServes
<1>10. QED BY <1>8, <1>9

LEMMA RequestKeeps ==
  ASSUME FatAssumption, CardIsWhole, FatInv, NEW p \in Positions, Request(p)
  PROVE  FatInv'
<1>1. FatTypes /\ Origin
  BY DEF FatInv
<1>2. /\ pc = "prompt" /\ pc' = pc /\ request' = p /\ inits' = inits
      /\ kind' = kind /\ top_of_cluster' = top_of_cluster
      /\ dir_cluster' = dir_cluster /\ dir_offset' = dir_offset
      /\ file' = file /\ sd_fat' = sd_fat
  BY DEF Request, fatVars, command
<1>3. /\ p \in Nat /\ io \in Io /\ top_of_cluster \in Int
      /\ file.cluster \in Nat /\ sd_fat \in BOOLEAN
  BY <1>1 DEF FatAssumption, FatTypes
<1>4. PICK n \in Nat : /\ file_offset' = n * EntriesPerSector
                       /\ sd_fat /\ SeekFits(p) => n = p
  BY <1>1, RequestCases
<1>5. PICK bad \in Sectors \cup {None}, stale \in Links :
        /\ faults' = faults => bad = None
        /\ io' = IF sd_fat THEN FetchCluster(io, file.cluster, file_offset',
                                             bad, stale).io
                 ELSE Fetched(io, p, bad).io
  BY <1>1, RequestCases
<1>6. faults' \in 0 .. MaxFaults /\ faults' <= faults
  BY <1>1, RequestCases
<1>7. /\ io' \in Io
      /\ bad = None /\ Held(io) => Held(io')
      /\ sd_fat \/ SameNote(io', io)
  <2>1. CASE sd_fat
    <3>1. file_offset' \in Nat
      BY <1>4, SizesAre
    <3>2. PICK f \in Io :
            /\ f = FetchCluster(io, file.cluster, file_offset', bad, stale).io
            /\ bad = None /\ Held(io) => Held(f)
      BY <1>3, <3>1, FetchClusterKeeps
    <3>3. QED BY <1>5, <2>1, <3>2
  <2>2. CASE ~sd_fat
    BY <1>3, <1>5, <2>2, FetchedKeeps
  <2>3. QED BY <2>1, <2>2
<1>8. FatTypes'
  <2>1. request' \in Nat \cup {None}
    BY <1>2, <1>3
  <2>2. QED BY <1>1, <1>2, <1>4, <1>6, <1>7, <2>1, Zenon DEF FatTypes
<1>9. Origin'
  BY <1>1, <1>2 DEF Origin
<1>10. ASSUME Undisturbed' PROVE Noted'
  <2>1. Undisturbed /\ faults' = faults
    <3>1. inits' \in Int /\ inits' <= inits
      BY <1>1, <1>2 DEF FatTypes
    <3>2. QED BY <1>1, <1>6, <1>10, <3>1, StillUndisturbed
  <2>2. Held(io) /\ NotedIsHeld(io) /\ bad = None
    BY <1>5, <2>1 DEF FatInv, Noted
  <2>3. RequestServedWithin'
    BY <1>1, <2>1, <2>2, RequestServes
  <2>4. ~sd_fat => \A e \in Files : io'.last_cluster # e.cluster
    BY <1>7, <2>1 DEF FatInv, Noted, SameNote
  <2>5. NotedIsHeld(io')
    <3>1. CASE sd_fat
      <4>1. top_of_cluster = TopOfCluster
        BY <1>1, <3>1 DEF Origin
      <4>2. io' = FetchCluster(io, file.cluster, n * EntriesPerSector, None, stale).io
        BY <1>4, <1>5, <2>2, <3>1
      <4>3. QED BY <1>3, <2>2, <4>1, <4>2, FetchNoted
    <3>2. CASE ~sd_fat
      BY <2>4, <3>2 DEF NotedIsHeld
    <3>3. QED BY <3>1, <3>2
  <2>6. QED BY <1>2, <1>7, <2>2, <2>3, <2>4, <2>5 DEF Noted
<1>11. QED BY <1>8, <1>9, <1>10 DEF FatInv
-----------------------------------------------------------------------------
(* The theorems.                                                            *)

LEMMA FatStep ==
  ASSUME FatAssumption, CardIsWhole, FatInv, [Next]_vars PROVE FatInv'
<1>1. ASSUME NEW n \in Names, M(n) \/ CdTo(n) PROVE FatInv'
  BY <1>1, WalksKeeps DEF M, CdTo
<1>2. CASE Ls
  BY <1>2, WalksKeeps DEF Ls
<1>3. CASE UNCHANGED vars
  BY <1>3 DEF vars, fatVars, fileVars, command, FatInv, FatTypes, Origin, Noted,
              Undisturbed, RequestServedWithin, OnFile, Within, FollowsOn,
              AtItsSector
<1>4. QED
  BY <1>1, <1>2, <1>3, BootKeeps, CdKeeps, FatNextKeeps, RequestKeeps DEF Next

\* As long as no fetch fails and fat_init() is not called again, a request of
\* the guest gets the sector of the file that the chain of the table tells, if
\* its place is not the first of a cluster that does not follow the one before
\* it: for every card that is whole, whatever commands and requests came before.
THEOREM RequestsServed ==
  ASSUME FatAssumption, CardIsWhole
  PROVE  Spec => [](Undisturbed => RequestServedWithin)
<1>1. Init => FatInv
  BY FatInitInv
<1>2. FatInv /\ [Next]_vars => FatInv'
  BY FatStep
<1>3. FatInv => (Undisturbed => RequestServedWithin)
  BY DEF FatInv, Noted
<1>4. QED BY <1>1, <1>2, <1>3, PTL DEF Spec

\* After failed fetches too, or cd without a name: a request that fetches at all
\* without a fault, when the buffer has the sector asked for last, gets it.
THEOREM ServedOverFaults ==
  ASSUME FatAssumption, CardIsWhole PROVE Spec => [][ServedAfterAll]_vars
<1>1. Init => FatInv
  BY FatInitInv
<1>2. FatInv /\ [Next]_vars => FatInv'
  BY FatStep
<1>3. ASSUME FatInv, [Next]_vars PROVE [ServedAfterAll]_vars
  <2>1. SUFFICES ASSUME Next, request' # None, io' # io, io.cur_sec = io.buffer,
                        faults' = faults
                 PROVE  RequestServedWithin'
    BY <1>3 DEF ServedAfterAll
  <2>2. PICK p \in Positions : Request(p)
    BY <1>3, <2>1 DEF Next, Boot, Cd, Ls, M, CdTo, Walks, FatNext, FatInv, Origin
  <2>3. Held(io)
    BY <2>1 DEF Held
  <2>4. QED BY <1>3, <2>1, <2>2, <2>3, RequestServes DEF FatInv
<1>4. QED BY <1>1, <1>2, <1>3, PTL DEF Spec
=============================================================================
