--------------------------- MODULE SettingsProofs ---------------------------
(***************************************************************************)
(* Proofs about Settings: for settings of every size, every set of names   *)
(* and every earlier contents of the flash, the byte-wise writes implement *)
(* SettingsStore, whenever the power is lost.                              *)
(***************************************************************************)
EXTENDS Settings, SequenceTheorems, TLAPS

\* machine_boot() takes these settings for valid, with a valid name.
Marked(s) == s[0] = Set /\ s[MarkAt] = Set

\* The string at NameAt is n.
Holds(s, n) == /\ \A i \in 1 .. Len(n) : s[NameAt + i - 1] = n[i]
               /\ s[NameAt + Len(n)] = 0

\* What is left of a sequence of calls when the k-th is next.
Left(writes, k) == SubSeq(writes, k, Len(writes))

\* What has been written when call k of InitWrites or MountWrites is next.
InitDone(k) == store[0] # Set /\ \A a \in Addresses : a < k - 1 => store[a] = 0
MountDone(k) ==
  k > 1 => /\ store[MarkAt] = 0
           /\ \A i \in 1 .. Len(name) : i < k - 1 => store[NameAt + i - 1] = name[i]
           /\ k > Len(name) + 2 => store[NameAt + Len(name)] = 0

Inv == /\ TypeOK
       /\ image = store
       /\ Marked(store) => \E n \in Names : Holds(store, n)
       /\ pc = "init" => \E k \in 1 .. Bytes + 1 :
            todo = Left(InitWrites, k) /\ InitDone(k)
       /\ pc \in {"mount", "m"} =>
            /\ name \in Names /\ store[0] = Set
            /\ \E k \in 1 .. Len(name) + 3 :
                 todo = Left(MountWrites(name), k) /\ MountDone(k)
       /\ pc \notin {"init", "mount", "m"} => todo = << >>
       /\ pc \in {"boot", "init"} => name = None
       /\ pc \in {"auto", "prompt", "guest"} =>
            /\ store[0] = Set
            /\ sd_fat /\ name # None => Marked(store) /\ Holds(store, name)
-----------------------------------------------------------------------------
(* Names and sequences of calls.                                            *)

LEMMA NameFacts ==
  ASSUME NEW n \in Names
  PROVE  /\ n \in Seq(Chars) /\ Len(n) \in Nat
         /\ \A i \in 1 .. Len(n) : /\ n[i] \in Byte /\ n[i] # 0
                                   /\ NameAt + i - 1 \in Addresses
         /\ NameAt + Len(n) \in Addresses
         /\ NameAt \in Nat /\ n # None
<1>1. n \in Seq(Chars) /\ Len(n) \in Nat
  BY SettingsAssumption
<1>2. ASSUME NEW i \in 1 .. Len(n) PROVE n[i] \in Chars
  BY <1>1, ElementOfSeq
<1>3. QED
  BY <1>1, <1>2, SettingsAssumption DEF Byte, Addresses, NameAt

\* eeprom_read_string() returns the string that is there.
LEMMA NameRead ==
  ASSUME NEW s, NEW n \in Names, Holds(s, n)
  PROVE  NameIn(s) = n
<1> DEFINE e == NameAt + Len(n)
<1>1. e \in Ends(s) /\ \A b \in Ends(s) : e <= b
  <2>1. e \in Ends(s)
    BY NameFacts DEF Ends, Holds
  <2>2. ASSUME NEW b \in Ends(s), b < e PROVE FALSE
    <3>1. b \in Int /\ b >= NameAt /\ s[b] = 0
      BY SettingsAssumption DEF Ends, Addresses
    <3>2. b - NameAt + 1 \in 1 .. Len(n) /\ b = NameAt + (b - NameAt + 1) - 1
      BY <3>1, <2>2, NameFacts
    <3>3. QED BY <3>1, <3>2, NameFacts DEF Holds
  <2>3. \A b \in Ends(s) : b \in Int /\ e \in Int
    BY NameFacts, SettingsAssumption DEF Ends, Addresses
  <2>4. QED BY <2>1, <2>2, <2>3
<1>2. \A a \in Ends(s) : (\A b \in Ends(s) : a <= b) => a = e
  BY <1>1, NameFacts, SettingsAssumption DEF Ends, Addresses
<1>3. (CHOOSE a \in Ends(s) : \A b \in Ends(s) : a <= b) = e
  BY <1>1, <1>2
<1>4. NameIn(s) = [i \in 1 .. e - NameAt |-> s[NameAt + i - 1]]
  BY <1>3 DEF NameIn
<1>5. e - NameAt = Len(n)
  BY NameFacts
<1>6. NameIn(s) = [i \in 1 .. Len(n) |-> n[i]]
  BY <1>4, <1>5 DEF Holds
<1>7. n = [i \in 1 .. Len(n) |-> n[i]]
  BY NameFacts, LenProperties
<1>8. QED BY <1>6, <1>7

LEMMA InitWritesAre ==
  /\ InitWrites \in Seq(Addresses \X Byte) /\ Len(InitWrites) = Bytes + 1
  /\ \A i \in 1 .. Bytes : InitWrites[i] = <<i - 1, 0>>
  /\ InitWrites[Bytes + 1] = <<0, Set>>
<1> DEFINE S == Addresses \X Byte
           zero == [i \in 1 .. Bytes |-> <<i - 1, 0>>]
           last == << <<0, Set>> >>
<1>1. zero \in Seq(Addresses \X Byte) /\ Len(zero) = Bytes
  BY SettingsAssumption DEF Addresses, Byte
<1>2. last \in Seq(Addresses \X Byte) /\ Len(last) = 1 /\ last[1] = <<0, Set>>
  BY SettingsAssumption DEF Addresses, Byte
<1>3. InitWrites = zero \o last
  BY DEF InitWrites
<1>4. /\ InitWrites \in Seq(Addresses \X Byte) /\ Len(InitWrites) = Bytes + 1
      /\ \A i \in 1 .. Bytes + 1 :
           InitWrites[i] = IF i <= Bytes THEN zero[i] ELSE last[i - Bytes]
  <2> HIDE DEF zero, last
  <2> HIDE DEF S
  <2>1. zero \in Seq(S) /\ last \in Seq(S) /\ Len(zero) = Bytes /\ Len(last) = 1
    BY <1>1, <1>2 DEF S
  <2>2. /\ zero \o last \in Seq(S) /\ Len(zero \o last) = Len(zero) + Len(last)
        /\ \A i \in 1 .. Len(zero) + Len(last) :
             (zero \o last)[i] = IF i <= Len(zero) THEN zero[i] ELSE last[i - Len(zero)]
    BY <2>1, ConcatProperties
  <2>3. QED BY <2>1, <2>2, <1>3 DEF S
<1>5. \A i \in 1 .. Bytes : InitWrites[i] = zero[i]
  <2> HIDE DEF zero, last
  <2>1. QED BY <1>4, SettingsAssumption
<1>6. InitWrites[Bytes + 1] = last[1]
  <2> HIDE DEF zero, last
  <2>1. QED BY <1>4, SettingsAssumption
<1>7. QED BY <1>2, <1>4, <1>5, <1>6

LEMMA MountWritesAre ==
  ASSUME NEW n \in Names
  PROVE  /\ MountWrites(n) \in Seq(Addresses \X Byte)
         /\ Len(MountWrites(n)) = Len(n) + 3
         /\ MountWrites(n)[1] = <<MarkAt, 0>>
         /\ \A i \in 1 .. Len(n) :
              MountWrites(n)[i + 1] = <<NameAt + i - 1, n[i]>>
         /\ MountWrites(n)[Len(n) + 2] = <<NameAt + Len(n), 0>>
         /\ MountWrites(n)[Len(n) + 3] = <<MarkAt, Set>>
<1> DEFINE S == Addresses \X Byte
           chars == [i \in 1 .. Len(n) |-> <<NameAt + i - 1, n[i]>>]
           end == << <<NameAt + Len(n), 0>> >>
           clear == << <<MarkAt, 0>> >>
           mark == << <<MarkAt, Set>> >>
<1>1. MarkAt \in Addresses /\ {0, Set} \subseteq Byte
  BY SettingsAssumption DEF Addresses, Byte
<1>2. chars \in Seq(S) /\ Len(chars) = Len(n)
  BY NameFacts
<1>3. end \in Seq(S) /\ Len(end) = 1 /\ end[1] = <<NameAt + Len(n), 0>>
  BY NameFacts, <1>1
<1>4. /\ clear \in Seq(S) /\ Len(clear) = 1 /\ clear[1] = <<MarkAt, 0>>
      /\ mark \in Seq(S) /\ Len(mark) = 1 /\ mark[1] = <<MarkAt, Set>>
  BY <1>1
<1>5. NameWrites(n) = chars \o end /\ MountWrites(n) = (clear \o NameWrites(n)) \o mark
  BY DEF NameWrites, MountWrites
<1>6. /\ NameWrites(n) \in Seq(S) /\ Len(NameWrites(n)) = Len(n) + 1
      /\ \A i \in 1 .. Len(n) + 1 :
           NameWrites(n)[i] = IF i <= Len(n) THEN chars[i] ELSE end[i - Len(n)]
  <2> HIDE DEF chars, end, S
  <2>1. chars \in Seq(S) /\ end \in Seq(S)
    BY <1>2, <1>3
  <2>2. /\ chars \o end \in Seq(S) /\ Len(chars \o end) = Len(chars) + Len(end)
        /\ \A i \in 1 .. Len(chars) + Len(end) :
             (chars \o end)[i] = IF i <= Len(chars) THEN chars[i] ELSE end[i - Len(chars)]
    BY <2>1, ConcatProperties
  <2>3. QED BY <1>2, <1>3, <1>5, <2>2
<1>7. /\ clear \o NameWrites(n) \in Seq(S)
      /\ Len(clear \o NameWrites(n)) = Len(n) + 2
      /\ \A i \in 1 .. Len(n) + 2 :
           (clear \o NameWrites(n))[i] =
             IF i <= 1 THEN clear[i] ELSE NameWrites(n)[i - 1]
  <2> HIDE DEF clear, S
  <2> DEFINE w == NameWrites(n)
  <2> HIDE DEF w
  <2>1. clear \in Seq(S) /\ w \in Seq(S) /\ Len(clear) = 1 /\ Len(w) = Len(n) + 1
    BY <1>4, <1>6 DEF w
  <2>2. /\ clear \o w \in Seq(S) /\ Len(clear \o w) = Len(clear) + Len(w)
        /\ \A i \in 1 .. Len(clear) + Len(w) :
             (clear \o w)[i] = IF i <= Len(clear) THEN clear[i] ELSE w[i - Len(clear)]
    BY <2>1, ConcatProperties
  <2>3. 1 + (Len(n) + 1) = Len(n) + 2
    BY NameFacts
  <2>4. QED BY <2>1, <2>2, <2>3 DEF w
<1>8. /\ MountWrites(n) \in Seq(S)
      /\ Len(MountWrites(n)) = Len(n) + 3
      /\ \A i \in 1 .. Len(n) + 3 :
           MountWrites(n)[i] = IF i <= Len(n) + 2 THEN (clear \o NameWrites(n))[i]
                                                 ELSE mark[i - (Len(n) + 2)]
  <2> HIDE DEF clear, mark, S
  <2> DEFINE w == clear \o NameWrites(n)
  <2> HIDE DEF w
  <2>1. w \in Seq(S) /\ mark \in Seq(S) /\ Len(w) = Len(n) + 2 /\ Len(mark) = 1
    BY <1>4, <1>7 DEF w
  <2>2. /\ w \o mark \in Seq(S) /\ Len(w \o mark) = Len(w) + Len(mark)
        /\ \A i \in 1 .. Len(w) + Len(mark) :
             (w \o mark)[i] = IF i <= Len(w) THEN w[i] ELSE mark[i - Len(w)]
    BY <2>1, ConcatProperties
  <2>3. (Len(n) + 2) + 1 = Len(n) + 3
    BY NameFacts
  <2>4. QED BY <2>1, <2>2, <2>3, <1>5 DEF w
<1>9. Len(n) \in Nat
  BY NameFacts
<1>10. \A i \in 1 .. Len(n) + 1 : MountWrites(n)[i + 1] = NameWrites(n)[i]
  <2> HIDE DEF clear, mark
  <2> SUFFICES ASSUME NEW i \in 1 .. Len(n) + 1
               PROVE  MountWrites(n)[i + 1] = NameWrites(n)[i]
    OBVIOUS
  <2>1. /\ i + 1 \in 1 .. Len(n) + 2 /\ i + 1 \in 1 .. Len(n) + 3
        /\ i + 1 <= Len(n) + 2 /\ ~(i + 1 <= 1) /\ (i + 1) - 1 = i
    BY <1>9
  <2>2. MountWrites(n)[i + 1] = (clear \o NameWrites(n))[i + 1]
    BY <1>8, <2>1, Zenon
  <2>3. (clear \o NameWrites(n))[i + 1] = NameWrites(n)[(i + 1) - 1]
    BY <1>7, <2>1, Zenon
  <2>4. QED BY <2>1, <2>2, <2>3, Zenon
<1>11. MountWrites(n)[1] = clear[1] /\ MountWrites(n)[Len(n) + 3] = mark[1]
  <2> HIDE DEF clear, mark
  <2> DEFINE last == Len(n) + 3
  <2>1. /\ 1 \in 1 .. Len(n) + 2 /\ 1 \in 1 .. Len(n) + 3 /\ 1 <= Len(n) + 2 /\ 1 <= 1
        /\ last \in 1 .. Len(n) + 3 /\ ~(last <= Len(n) + 2) /\ last - (Len(n) + 2) = 1
    BY <1>9
  <2> HIDE DEF last
  <2>2. (clear \o NameWrites(n))[1] = clear[1]
    BY <1>7, <2>1, Zenon
  <2>3. MountWrites(n)[1] = (clear \o NameWrites(n))[1]
    BY <1>8, <2>1, Zenon
  <2>4. MountWrites(n)[last] = mark[last - (Len(n) + 2)]
    BY <1>8, <2>1, Zenon
  <2>5. QED BY <2>1, <2>2, <2>3, <2>4, Zenon DEF last
<1>12. /\ \A i \in 1 .. Len(n) : NameWrites(n)[i] = chars[i]
       /\ NameWrites(n)[Len(n) + 1] = end[1]
  <2> HIDE DEF chars, end
  <2>1. QED BY <1>6, <1>9
<1>13. MountWrites(n)[Len(n) + 2] = end[1]
  BY <1>9, <1>10, <1>12
<1>14. \A i \in 1 .. Len(n) : MountWrites(n)[i + 1] = <<NameAt + i - 1, n[i]>>
  BY <1>9, <1>10, <1>12
<1>15. QED
  BY <1>3, <1>4, <1>8, <1>11, <1>13, <1>14

\* The next call, and what is left after it.
LEMMA LeftFacts ==
  ASSUME NEW S, NEW w \in Seq(S), NEW k \in 1 .. Len(w)
  PROVE  /\ Left(w, k) \in Seq(S) /\ Left(w, k) # << >>
         /\ Head(Left(w, k)) = w[k] /\ w[k] \in S
         /\ Tail(Left(w, k)) = Left(w, k + 1)
         /\ Left(w, k + 1) \in Seq(S)
         /\ Left(w, k + 1) = << >> <=> k = Len(w)
<1>1. Len(w) \in Nat /\ \A i \in 1 .. Len(w) : w[i] \in S
  BY ElementOfSeq, LenProperties
<1>2. Left(w, k) \in Seq(S) /\ Len(Left(w, k)) = Len(w) - k + 1
  BY <1>1, SubSeqProperties DEF Left
<1>3. /\ Left(w, k + 1) \in Seq(S)
      /\ Len(Left(w, k + 1)) = IF k + 1 <= Len(w) THEN Len(w) - k ELSE 0
  BY <1>1, SubSeqProperties DEF Left
<1>4. Left(w, k) # << >> /\ (Left(w, k + 1) = << >> <=> k = Len(w))
  BY <1>1, <1>2, <1>3, EmptySeq
<1>5. Head(Left(w, k)) = w[k] /\ Tail(Left(w, k)) = Left(w, k + 1)
  BY <1>1, HeadTailOfSubSeq DEF Left
<1>6. QED BY <1>1, <1>2, <1>3, <1>4, <1>5

LEMMA LeftAll ==
  ASSUME NEW S, NEW w \in Seq(S)
  PROVE  Left(w, 1) = w
BY SubSeqFull DEF Left
-----------------------------------------------------------------------------
(* The invariant.                                                           *)

LEMMA InitInv == Init => Inv
<1>1. Init => 0 \in Addresses /\ store[0] # Set /\ store \in [Addresses -> Byte]
  BY SettingsAssumption DEF Init, Addresses
<1>2. Init => << >> \in Seq(Addresses \X Byte)
  BY EmptySeq
<1>3. QED BY <1>1, <1>2 DEF Init, Inv, TypeOK, Marked

\* After power on or reset the next thing is machine_boot(), over whatever is
\* in the flash.
LEMMA StartInv ==
  ASSUME Start, store' \in [Addresses -> Byte],
         Marked(store') => \E n \in Names : Holds(store', n)
  PROVE  Inv'
<1>1. << >> \in Seq(Addresses \X Byte)
  BY EmptySeq
<1>2. TypeOK'
  BY <1>1 DEF Start, TypeOK
<1>3. QED BY <1>2 DEF Start, Inv, Marked, Holds

LEMMA NothingMarked ==
  ASSUME store' = [a \in Addresses |-> Erased]
  PROVE  store' \in [Addresses -> Byte] /\ store'[0] # Set
BY SettingsAssumption DEF Addresses, Byte

LEMMA MountInv ==
  ASSUME Inv, NEW n \in Names, NEW found \in {"mount", "m"},
         NEW missing \in {"auto", "prompt"}, store[0] = Set, todo = << >>,
         Mount(n, found, missing), UNCHANGED <<store, image, files>>
  PROVE  Inv'
<1>1. MountWrites(n) \in Seq(Addresses \X Byte) /\ Len(n) \in Nat
  BY MountWritesAre, NameFacts
<1>2. CASE n \in files
  <2>1. /\ name' = n /\ sd_fat' = TRUE /\ pc' = found
        /\ todo' = Left(MountWrites(n), 1)
    BY <1>1, <1>2, LeftAll DEF Mount
  <2>2. MountDone(1)'
    BY DEF MountDone
  <2>3. TypeOK'
    BY <1>1, <1>2 DEF Mount, TypeOK, Inv
  <2>4. 1 \in 1 .. Len(n) + 3
    BY <1>1
  <2>5. (todo = Left(MountWrites(name), 1))'
    BY <2>1
  <2>6. (\E k \in 1 .. Len(name) + 3 :
           todo = Left(MountWrites(name), k) /\ MountDone(k))'
    BY <2>1, <2>2, <2>4, <2>5
  <2>7. QED BY <2>1, <2>3, <2>6 DEF Inv, Marked, Holds
<1>3. CASE n \notin files
  BY <1>3 DEF Mount, Inv, TypeOK, Marked, Holds
<1>4. QED BY <1>2, <1>3

\* One call: the image and the flash change in one byte, and stay the same.
LEMMA WriteFacts ==
  ASSUME Inv, WriteNext, NEW w \in Seq(Addresses \X Byte), NEW k \in 1 .. Len(w),
         todo = Left(w, k)
  PROVE  /\ w[k] \in Addresses \X Byte
         /\ store' = [store EXCEPT ![w[k][1]] = w[k][2]] /\ image' = store'
         /\ store' \in [Addresses -> Byte]
         /\ todo' = Left(w, k + 1) /\ todo' \in Seq(Addresses \X Byte)
         /\ IF k < Len(w) THEN pc' = pc
            ELSE todo' = << >> /\ pc' = IF pc = "mount" THEN "auto" ELSE "prompt"
         /\ UNCHANGED <<name, files, sd_fat>>
<1>1. /\ Head(todo) = w[k] /\ w[k] \in Addresses \X Byte
      /\ Tail(todo) = Left(w, k + 1)
      /\ Left(w, k + 1) \in Seq(Addresses \X Byte)
      /\ Left(w, k + 1) = << >> <=> k = Len(w)
  BY LeftFacts
<1>2. Len(w) \in Nat
  BY LenProperties
<1>3. store' = [store EXCEPT ![w[k][1]] = w[k][2]] /\ image' = store'
  BY <1>1 DEF WriteNext, Write, Inv
<1>4. store' \in [Addresses -> Byte]
  BY <1>1, <1>3 DEF Inv, TypeOK
<1>5. todo' = Left(w, k + 1) /\ UNCHANGED <<name, files, sd_fat>>
  BY <1>1 DEF WriteNext
<1>6. /\ k < Len(w) => todo' # << >>
      /\ k >= Len(w) => todo' = << >>
  BY <1>1, <1>2, <1>5
<1>7. pc' = IF todo' # << >> THEN pc ELSE IF pc = "mount" THEN "auto" ELSE "prompt"
  BY DEF WriteNext
<1>8. IF k < Len(w) THEN pc' = pc
      ELSE todo' = << >> /\ pc' = IF pc = "mount" THEN "auto" ELSE "prompt"
  BY <1>2, <1>6, <1>7
<1>9. todo' \in Seq(Addresses \X Byte)
  BY <1>1, <1>5
<1>10. QED BY <1>1, <1>3, <1>4, <1>5, <1>8, <1>9

\* The initialisation is valid only when it is complete, and then holds no name.
LEMMA InitWrite ==
  ASSUME Inv, WriteNext, pc = "init"
  PROVE  /\ Inv'
         /\ store[0] # Set /\ pc' \in {"init", "prompt"}
         /\ ~ Marked(store') /\ ~ (store'[0] = Set /\ store'[AutoAt] = Set)
<1>1. PICK k \in 1 .. Bytes + 1 : todo = Left(InitWrites, k) /\ InitDone(k)
  BY DEF Inv
<1>2. /\ Bytes \in Nat /\ {0, MarkAt, AutoAt} \subseteq 0 .. Bytes - 1
      /\ AutoAt # 0 /\ MarkAt # 0 /\ Addresses = 0 .. Bytes - 1 /\ Set # 0
  BY SettingsAssumption DEF Addresses
<1>3. store \in [Addresses -> Byte] /\ name = None
  BY DEF Inv, TypeOK
<1>4. /\ store' = [store EXCEPT ![InitWrites[k][1]] = InitWrites[k][2]]
      /\ image' = store' /\ store' \in [Addresses -> Byte]
      /\ todo' = Left(InitWrites, k + 1) /\ todo' \in Seq(Addresses \X Byte)
      /\ IF k < Bytes + 1 THEN pc' = pc ELSE todo' = << >> /\ pc' = "prompt"
      /\ UNCHANGED <<name, files, sd_fat>>
  BY <1>1, InitWritesAre, WriteFacts, SMTT(40)
<1>5. TypeOK'
  BY <1>2, <1>4 DEF Inv, TypeOK
<1>6. CASE k < Bytes + 1
  <2>1. InitWrites[k] = <<k - 1, 0>>
    BY <1>2, <1>6, InitWritesAre
  <2>2. store' = [store EXCEPT ![k - 1] = 0]
    BY <1>4, <2>1
  <2>3. store'[0] # Set /\ \A a \in Addresses : a < k => store'[a] = 0
    BY <1>1, <1>2, <1>3, <1>6, <2>2 DEF InitDone
  <2>4. InitDone(k + 1)'
    BY <1>2, <2>3 DEF InitDone
  <2>5. k + 1 \in 1 .. Bytes + 1 /\ pc' = "init"
    BY <1>2, <1>4, <1>6
  <2>6. (todo = Left(InitWrites, k + 1))'
    BY <1>4 DEF Left, InitWrites
  <2>7. (\E j \in 1 .. Bytes + 1 : todo = Left(InitWrites, j) /\ InitDone(j))'
    BY <2>4, <2>5, <2>6
  <2>8. QED
    BY <1>1, <1>3, <1>4, <1>5, <2>3, <2>5, <2>7 DEF Inv, Marked, InitDone
<1>7. CASE k = Bytes + 1
  <2>1. store' = [store EXCEPT ![0] = Set]
    BY <1>4, <1>7, InitWritesAre
  <2>2. store'[0] = Set /\ store'[MarkAt] = 0 /\ store'[AutoAt] = 0
    BY <1>1, <1>2, <1>3, <1>7, <2>1 DEF InitDone
  <2>3. todo' = << >> /\ pc' = "prompt" /\ name' = None
    BY <1>2, <1>3, <1>4, <1>7
  <2>4. QED
    BY <1>1, <1>2, <1>4, <1>5, <2>2, <2>3 DEF Inv, Marked, InitDone
<1>8. QED BY <1>2, <1>6, <1>7

\* The mark goes first and comes last; in between the name is written.
LEMMA MountWrite ==
  ASSUME Inv, WriteNext, pc \in {"mount", "m"}
  PROVE  /\ Inv'
         /\ name \in Names /\ name' = name
         /\ store'[0] = Set /\ store[0] = Set /\ store'[AutoAt] = store[AutoAt]
         /\ \/ pc' = pc /\ ~ Marked(store')
            \/ /\ pc' \in {"auto", "prompt"} /\ ~ Marked(store)
               /\ Marked(store') /\ Holds(store', name)
<1> DEFINE w == MountWrites(name)
           l == Len(name)
<1>1. name \in Names /\ name # None /\ store[0] = Set
  BY NameFacts DEF Inv
<1>2. PICK k \in 1 .. l + 3 : todo = Left(w, k) /\ MountDone(k)
  BY DEF Inv
<1>3. /\ l \in Nat /\ NameAt = MarkAt + 1 /\ MarkAt \in Nat /\ AutoAt \in Nat
      /\ AutoAt # 0 /\ AutoAt < MarkAt /\ MarkAt \in Addresses
      /\ AutoAt \in Addresses /\ 0 \in Addresses
      /\ NameAt + l \in Addresses /\ Set # 0
      /\ \A i \in 1 .. l : NameAt + i - 1 \in Addresses
  BY <1>1, NameFacts, SettingsAssumption DEF Addresses, NameAt
<1>4. /\ w \in Seq(Addresses \X Byte) /\ Len(w) = l + 3
      /\ w[1] = <<MarkAt, 0>>
      /\ \A i \in 1 .. l : w[i + 1] = <<NameAt + i - 1, name[i]>>
      /\ w[l + 2] = <<NameAt + l, 0>> /\ w[l + 3] = <<MarkAt, Set>>
  BY <1>1, MountWritesAre
<1> HIDE DEF w
<1>5. /\ store' = [store EXCEPT ![w[k][1]] = w[k][2]]
      /\ image' = store' /\ store' \in [Addresses -> Byte]
      /\ todo' = Left(w, k + 1) /\ todo' \in Seq(Addresses \X Byte)
      /\ IF k < l + 3 THEN pc' = pc
         ELSE todo' = << >> /\ pc' = IF pc = "mount" THEN "auto" ELSE "prompt"
      /\ UNCHANGED <<name, files, sd_fat>>
  <2>1. k \in 1 .. Len(w) /\ (k < Len(w) <=> k < l + 3)
    BY <1>3, <1>4
  <2> HIDE DEF l
  <2>2. QED BY <1>2, <1>4, <2>1, WriteFacts
<1>6. store \in [Addresses -> Byte]
  BY DEF Inv, TypeOK
<1>7. TypeOK'
  BY <1>5 DEF Inv, TypeOK
<1>8. ASSUME k < l + 3, MountDone(k + 1)', store'[0] = Set PROVE Inv'
  <2>1. pc' = pc /\ k + 1 \in 1 .. l + 3 /\ store'[MarkAt] = 0
    BY <1>3, <1>5, <1>8 DEF MountDone
  <2>2. (todo = Left(MountWrites(name), k + 1))'
    BY <1>5 DEF w
  <2>3. (\E j \in 1 .. Len(name) + 3 :
           todo = Left(MountWrites(name), j) /\ MountDone(j))'
    BY <1>5, <1>8, <2>1, <2>2
  <2>4. QED
    BY <1>1, <1>3, <1>5, <1>7, <1>8, <2>1, <2>3 DEF Inv, Marked
<1>9. CASE k = 1
  <2>1. store' = [store EXCEPT ![MarkAt] = 0]
    <3>1. w[k] = <<MarkAt, 0>>
      BY <1>3, <1>4, <1>9
    <3>2. w[k][1] = <<MarkAt, 0>>[1] /\ w[k][2] = <<MarkAt, 0>>[2]
      BY <3>1
    <3>3. QED BY <1>5, <3>2
  <2>2. /\ store'[MarkAt] = 0 /\ store'[0] = store[0]
        /\ store'[AutoAt] = store[AutoAt]
    BY <1>3, <1>6, <2>1
  <2>3. MountDone(k + 1)'
    BY <1>3, <1>9, <2>2 DEF MountDone
  <2>4. Inv'
    BY <1>1, <1>3, <1>8, <1>9, <2>2, <2>3
  <2>5. QED BY <1>1, <1>3, <1>5, <1>9, <2>2, <2>4 DEF Marked
<1>10. CASE k \in 2 .. l + 1
  <2>1. k - 1 \in 1 .. l /\ w[k] = <<NameAt + (k - 1) - 1, name[k - 1]>>
    <3>1. k - 1 \in 1 .. l /\ (k - 1) + 1 = k
      BY <1>3, <1>10
    <3>2. w[(k - 1) + 1] = <<NameAt + (k - 1) - 1, name[k - 1]>>
      BY <1>4, <3>1
    <3>3. QED BY <3>1, <3>2
  <2>2. store' = [store EXCEPT ![NameAt + (k - 1) - 1] = name[k - 1]]
    BY <1>5, <2>1
  <2>3. /\ store'[MarkAt] = 0 /\ store'[0] = store[0]
        /\ store'[AutoAt] = store[AutoAt] /\ store[MarkAt] = 0
        /\ \A i \in 1 .. l : i < k => store'[NameAt + i - 1] = name[i]
    <3> DEFINE at == NameAt + (k - 1) - 1
    <3>1. at \in Addresses /\ at \notin {0, AutoAt, MarkAt}
      BY <1>3, <2>1
    <3>2. /\ store[MarkAt] = 0
          /\ \A i \in 1 .. l : i < k - 1 => store[NameAt + i - 1] = name[i]
      BY <1>2, <1>10 DEF MountDone
    <3>3. store' = [store EXCEPT ![at] = name[k - 1]]
      BY <2>2
    <3>4. \A a \in Addresses : store'[a] = IF a = at THEN name[k - 1] ELSE store[a]
      BY <1>6, <3>3
    <3>5. /\ store'[MarkAt] = 0 /\ store'[0] = store[0]
          /\ store'[AutoAt] = store[AutoAt]
      BY <1>3, <3>1, <3>2, <3>4
    <3>6. ASSUME NEW i \in 1 .. l, i < k PROVE store'[NameAt + i - 1] = name[i]
      <4>1. CASE i = k - 1
        BY <1>3, <3>1, <3>4, <4>1
      <4>2. CASE i # k - 1
        <5>1. i < k - 1 /\ NameAt + i - 1 # at /\ NameAt + i - 1 \in Addresses
          BY <1>3, <3>6, <4>2
        <5>2. QED BY <3>2, <3>4, <5>1
      <4>3. QED BY <4>1, <4>2
    <3>7. QED BY <3>2, <3>5, <3>6
  <2>4. MountDone(k + 1)'
    BY <1>3, <1>5, <1>10, <2>3 DEF MountDone
  <2>5. Inv'
    BY <1>1, <1>3, <1>8, <1>10, <2>3, <2>4
  <2>6. QED BY <1>1, <1>3, <1>5, <1>10, <2>3, <2>5 DEF Marked
<1>11. CASE k = l + 2
  <2>1. store' = [store EXCEPT ![NameAt + l] = 0]
    <3>1. w[k] = <<NameAt + l, 0>>
      BY <1>3, <1>4, <1>11
    <3>2. w[k][1] = <<NameAt + l, 0>>[1] /\ w[k][2] = <<NameAt + l, 0>>[2]
      BY <3>1
    <3>3. QED BY <1>5, <3>2
  <2>2. /\ store'[MarkAt] = 0 /\ store'[0] = store[0]
        /\ store'[AutoAt] = store[AutoAt] /\ store[MarkAt] = 0
        /\ store'[NameAt + l] = 0
        /\ \A i \in 1 .. l : store'[NameAt + i - 1] = name[i]
    BY <1>2, <1>3, <1>6, <1>11, <2>1, SMTT(40) DEF MountDone
  <2>3. MountDone(k + 1)'
    BY <1>3, <1>5, <1>11, <2>2 DEF MountDone
  <2>4. Inv'
    BY <1>1, <1>3, <1>8, <1>11, <2>2, <2>3
  <2>5. QED BY <1>1, <1>3, <1>5, <1>11, <2>2, <2>4 DEF Marked
<1>12. CASE k = l + 3
  <2>1. store' = [store EXCEPT ![MarkAt] = Set]
    <3>1. w[k] = <<MarkAt, Set>>
      BY <1>3, <1>4, <1>12
    <3>2. w[k][1] = <<MarkAt, Set>>[1] /\ w[k][2] = <<MarkAt, Set>>[2]
      BY <3>1
    <3>3. QED BY <1>5, <3>2
  <2>2. /\ store'[MarkAt] = Set /\ store'[0] = store[0]
        /\ store'[AutoAt] = store[AutoAt] /\ store[MarkAt] = 0
        /\ store'[NameAt + l] = 0
        /\ \A i \in 1 .. l : store'[NameAt + i - 1] = name[i]
    BY <1>2, <1>3, <1>6, <1>12, <2>1 DEF MountDone
  <2>3. Marked(store') /\ Holds(store', name)
    BY <1>1, <2>2 DEF Marked, Holds
  <2>4. todo' = << >> /\ pc' \in {"auto", "prompt"} /\ name' = name
    BY <1>3, <1>5, <1>12
  <2>5. Inv'
    BY <1>1, <1>5, <1>7, <2>2, <2>3, <2>4 DEF Inv
  <2>6. QED BY <1>1, <1>3, <2>2, <2>3, <2>4, <2>5 DEF Marked
<1>13. QED BY <1>3, <1>9, <1>10, <1>11, <1>12

\* `a on' and `a off' leave the name alone.
LEMMA AutoWrite ==
  ASSUME Inv, NEW v \in {0, Set}, CmdAuto(v)
  PROVE  /\ Inv'
         /\ store'[0] = store[0] /\ (Marked(store') <=> Marked(store))
         /\ \A n \in Names : Holds(store', n) <=> Holds(store, n)
         /\ pc = "prompt" /\ pc' = pc
<1>1. /\ AutoAt \in Nat /\ MarkAt \in Nat /\ AutoAt # 0 /\ AutoAt < MarkAt
      /\ NameAt = MarkAt + 1 /\ v \in Byte /\ AutoAt \in Addresses
  BY SettingsAssumption DEF NameAt, Byte, Addresses
<1>2. store' = [store EXCEPT ![AutoAt] = v] /\ image' = store'
  BY DEF CmdAuto, Write, Inv
<1>3. \A a : a # AutoAt => store'[a] = store[a]
  BY <1>2 DEF Inv, TypeOK
<1>4. store'[0] = store[0] /\ store'[MarkAt] = store[MarkAt]
  BY <1>1, <1>3
<1>5. ASSUME NEW n \in Names
      PROVE  Holds(store', n) <=> Holds(store, n)
  <2>1. store'[NameAt + Len(n)] = store[NameAt + Len(n)]
    BY <1>1, <1>3, NameFacts
  <2>2. \A i \in 1 .. Len(n) : store'[NameAt + i - 1] = store[NameAt + i - 1]
    BY <1>1, <1>3, NameFacts
  <2>3. QED BY <2>1, <2>2 DEF Holds
<1>6. TypeOK'
  BY <1>1, <1>2 DEF Inv, TypeOK, CmdAuto
<1>7. name # None => name \in Names
  BY DEF Inv, TypeOK
<1>8. /\ pc = "prompt" /\ pc' = pc /\ todo' = << >>
      /\ UNCHANGED <<name, files, sd_fat>>
  BY DEF CmdAuto, Inv
<1>9. Inv'
  BY <1>2, <1>4, <1>5, <1>6, <1>7, <1>8 DEF Inv, Marked
<1>10. QED BY <1>4, <1>5, <1>8, <1>9 DEF Marked

LEMMA NextInv == Inv /\ [Next]_vars => Inv'
<1> SUFFICES ASSUME Inv, [Next]_vars PROVE Inv'
  OBVIOUS
<1>1. store \in [Addresses -> Byte] /\ image = store
  BY DEF Inv, TypeOK
<1>2. CASE BootInit
  <2>1. /\ InitWrites \in Seq(Addresses \X Byte) /\ Bytes \in Nat
        /\ todo' = Left(InitWrites, 1)
    BY <1>2, InitWritesAre, LeftAll, SettingsAssumption DEF BootInit
  <2>2. store[0] # Set /\ InitDone(1)'
    BY <1>1, <1>2, SettingsAssumption DEF BootInit, InitDone, Addresses
  <2>3. (todo = Left(InitWrites, 1))'
    BY <2>1 DEF Left, InitWrites
  <2>4. (\E k \in 1 .. Bytes + 1 : todo = Left(InitWrites, k) /\ InitDone(k))'
    BY <2>1, <2>2, <2>3
  <2>5. TypeOK'
    BY <1>2, <2>1, InitWritesAre DEF BootInit, Inv, TypeOK
  <2>6. QED BY <1>2, <2>2, <2>4, <2>5 DEF BootInit, Inv, Marked
<1>3. CASE BootMount
  <2>1. pc = "boot" /\ store[0] = Set /\ todo = << >> /\ name = None
    BY <1>1, <1>3 DEF BootMount, Inv
  <2>2. CASE image[MarkAt] = Set /\ sd_fat
    <3>1. PICK n \in Names : Holds(store, n)
      BY <1>1, <2>1, <2>2 DEF Inv, Marked
    <3>2. NameIn(image) = n
      BY <1>1, <3>1, NameRead
    <3>3. Mount(n, "mount", "auto") /\ UNCHANGED <<store, image, files>>
      BY <1>3, <2>2, <3>2 DEF BootMount
    <3>4. QED BY <2>1, <3>3, MountInv
  <2>3. CASE ~ (image[MarkAt] = Set /\ sd_fat)
    BY <1>3, <2>1, <2>3 DEF BootMount, Inv, TypeOK, Marked, Holds
  <2>4. QED BY <2>2, <2>3
<1>4. CASE BootAuto
  BY <1>4 DEF BootAuto, Inv, TypeOK, Marked, Holds
<1>5. ASSUME NEW n \in Names, CmdMount(n) PROVE Inv'
  <2>1. store[0] = Set /\ todo = << >> /\ Mount(n, "m", "prompt")
    BY <1>5 DEF CmdMount, Inv
  <2>2. UNCHANGED <<store, image, files>>
    BY <1>5 DEF CmdMount
  <2>3. QED BY <2>1, <2>2, MountInv
<1>6. ASSUME NEW v \in {0, Set}, CmdAuto(v) PROVE Inv'
  BY <1>6, AutoWrite
<1>7. CASE CmdBoot
  BY <1>7 DEF CmdBoot, Inv, TypeOK, Marked, Holds
<1>8. CASE WriteNext
  <2>1. pc \in {"init", "mount", "m"}
    BY <1>8 DEF WriteNext, Writing, Inv
  <2>2. QED BY <1>8, <2>1, InitWrite, MountWrite
<1>9. CASE Restart
  <2>1. store' = store /\ Start
    BY <1>9 DEF Restart
  <2>2. Marked(store') => \E n \in Names : Holds(store', n)
    BY <2>1 DEF Inv
  <2>3. QED BY <1>1, <2>1, <2>2, StartInv
<1>10. CASE PowerLossInWrite \/ PowerLossInAuto
  <2>1. store' = [a \in Addresses |-> Erased] /\ Start
    BY <1>10 DEF PowerLossInWrite, PowerLossInAuto
  <2>2. ~ Marked(store')
    BY <2>1, NothingMarked DEF Marked
  <2>3. QED BY <2>1, <2>2, NothingMarked, StartInv
<1>11. CASE UNCHANGED vars
  BY <1>11, ZenonT(60) DEF vars, Inv, TypeOK, Marked, Holds, InitDone, MountDone, Left,
               InitWrites, MountWrites, NameWrites
<1>12. QED
  BY <1>2, <1>3, <1>4, <1>5, <1>6, <1>7, <1>8, <1>9, <1>10, <1>11 DEF Next

LEMMA InvHolds == Spec => []Inv
<1>1. QED BY InitInv, NextInv, PTL DEF Spec

\* Every variable has its type (machine.c: machine_boot(), mount(), prompt());
\* in particular what the settings give to mount() is a name the user gave.
THEOREM TypeCorrect == Spec => []TypeOK
<1>1. Inv => TypeOK
  BY DEF Inv
<1>2. QED BY <1>1, InvHolds, PTL

\* What a restart finds (machine.c:1129-1138).
LEMMA RememberedIs ==
  /\ ~ Marked(store) => Remembered = None
  /\ \A n \in Names : Marked(store) /\ Holds(store, n) => Remembered = n
  /\ ~ Marked(store') => Remembered' = None
  /\ \A n \in Names : Marked(store') /\ Holds(store', n) => Remembered' = n
BY NameRead DEF Remembered, Marked

\* While an image is mounted and no handler is at work, a restart would mount
\* the same image (mount(), eeprom_write_string()), for settings of every size
\* and names of every length.
THEOREM MountedIsKept == Spec => []MountedIsRemembered
<1>1. Inv => MountedIsRemembered
  BY RememberedIs DEF Inv, TypeOK, MountedIsRemembered
<1>2. QED BY <1>1, InvHolds, PTL
-----------------------------------------------------------------------------
(* The refinement.                                                          *)

Asked == IF pc \in {"mount", "m"} THEN name ELSE Remembered
AutoBoot == store[0] = Set /\ store[AutoAt] = Set

LEMMA SameMemory ==
  ASSUME UNCHANGED store
  PROVE  UNCHANGED <<Remembered, AutoBoot>>
BY DEF Remembered, NameIn, Ends, AutoBoot

LEMMA MountMaps ==
  ASSUME Inv, NEW n \in Names, NEW found \in {"mount", "m"},
         NEW missing \in {"auto", "prompt"}, pc \notin {"mount", "m"},
         Mount(n, found, missing), UNCHANGED store
  PROVE  /\ UNCHANGED <<Remembered, AutoBoot>>
         /\ Asked' = n \/ Asked' = Asked
BY SameMemory DEF Mount, Asked

LEMMA LostMaps ==
  ASSUME store' = [a \in Addresses |-> Erased], Start
  PROVE  Store!Lost
<1>1. ~ Marked(store') /\ AutoBoot' = FALSE
  BY NothingMarked DEF Marked, AutoBoot
<1>2. Remembered' = None /\ Asked' = None
  BY <1>1, RememberedIs DEF Asked, Start
<1>3. QED BY <1>1, <1>2 DEF Store!Lost, Asked, AutoBoot

LEMMA WriteMaps ==
  ASSUME Inv, WriteNext
  PROVE  [Store!Next]_(Store!vars)
<1>1. pc \in {"init", "mount", "m"}
  BY DEF WriteNext, Writing, Inv
<1>2. CASE pc = "init"
  <2>1. /\ ~ Marked(store) /\ ~ Marked(store') /\ pc' \in {"init", "prompt"}
        /\ AutoBoot = FALSE /\ AutoBoot' = FALSE
    BY <1>2, InitWrite DEF Marked, AutoBoot
  <2>2. Remembered = None /\ Remembered' = None
    BY <2>1, RememberedIs
  <2>3. Asked' = Asked
    BY <1>2, <2>1, <2>2 DEF Asked
  <2>4. QED BY <2>1, <2>2, <2>3 DEF Store!vars, Asked, AutoBoot
<1>3. CASE pc \in {"mount", "m"}
  <2>1. /\ name \in Names /\ name' = name /\ Asked = name
        /\ AutoBoot' = AutoBoot
    BY <1>3, MountWrite DEF Asked, AutoBoot
  <2>2. CASE pc' = pc /\ ~ Marked(store')
    <3>1. Remembered' = None /\ Asked' = Asked
      BY <1>3, <2>1, <2>2, RememberedIs DEF Asked
    <3>2. Store!Forget
      BY <2>1, <3>1 DEF Store!Forget, Asked, AutoBoot
    <3>3. QED BY <3>2 DEF Store!Next
  <2>3. CASE /\ pc' \in {"auto", "prompt"} /\ ~ Marked(store)
             /\ Marked(store') /\ Holds(store', name)
    <3>1. Remembered = None /\ Remembered' = name
      BY <2>1, <2>3, RememberedIs
    <3>2. Asked' = Asked
      BY <2>1, <2>3, <3>1 DEF Asked
    <3>3. Store!Remember
      BY <2>1, <3>1, <3>2 DEF Store!Remember, Asked, AutoBoot
    <3>4. QED BY <3>3 DEF Store!Next
  <2>4. QED BY <1>3, <2>2, <2>3, MountWrite
<1>4. QED BY <1>1, <1>2, <1>3

\* Every step of the settings is a step of SettingsStore or changes nothing
\* of what it promises.
LEMMA StepMaps == Inv /\ [Next]_vars => [Store!Next]_(Store!vars)
<1> SUFFICES ASSUME Inv, [Next]_vars PROVE [Store!Next]_(Store!vars)
  OBVIOUS
<1>1. ASSUME UNCHANGED store, Asked' = Asked PROVE [Store!Next]_(Store!vars)
  BY <1>1, SameMemory DEF Store!vars, Asked, AutoBoot
<1>2. CASE BootInit \/ BootAuto \/ CmdBoot
  <2>1. /\ store' = store /\ pc \notin {"mount", "m"}
        /\ pc' \notin {"mount", "m"}
    BY <1>2 DEF BootInit, BootAuto, CmdBoot
  <2>2. QED BY <1>1, <2>1, SameMemory DEF Asked
<1>3. CASE BootMount
  <2>1. store' = store /\ image = store /\ pc = "boot" /\ store[0] = Set
    BY <1>3 DEF BootMount, Inv
  <2>2. CASE image[MarkAt] = Set /\ sd_fat
    <3>1. PICK n \in Names : Holds(store, n)
      BY <2>1, <2>2 DEF Inv, Marked
    <3>2. NameIn(image) = n /\ Remembered = n
      BY <2>1, <2>2, <3>1, NameRead, RememberedIs DEF Marked
    <3>3. Mount(n, "mount", "auto")
      BY <1>3, <2>2, <3>2 DEF BootMount
    <3>4. Asked' = n \/ Asked' = Asked
      BY <2>1, <3>3, MountMaps
    <3>5. Asked = n
      BY <2>1, <3>2 DEF Asked
    <3>6. QED BY <1>1, <2>1, <3>4, <3>5
  <2>3. CASE ~ (image[MarkAt] = Set /\ sd_fat)
    <3>1. pc' = "auto"
      BY <1>3, <2>3 DEF BootMount
    <3>2. QED BY <1>1, <2>1, <3>1, SameMemory DEF Asked
  <2>4. QED BY <2>2, <2>3
<1>4. ASSUME NEW n \in Names, CmdMount(n) PROVE [Store!Next]_(Store!vars)
  <2>1. /\ UNCHANGED <<Remembered, AutoBoot>> /\ store' = store
        /\ Asked' = n \/ Asked' = Asked
    BY <1>4, MountMaps DEF CmdMount
  <2>2. CASE Asked' = n
    <3>1. Store!Ask(n)
      BY <2>1, <2>2 DEF Store!Ask, Asked, AutoBoot
    <3>2. QED BY <3>1 DEF Store!Next
  <2>3. QED BY <1>1, <2>1, <2>2
<1>5. ASSUME NEW v \in {0, Set}, CmdAuto(v) PROVE [Store!Next]_(Store!vars)
  <2>1. /\ Marked(store') <=> Marked(store)
        /\ \A n \in Names : Holds(store', n) <=> Holds(store, n)
        /\ pc = "prompt" /\ pc' = pc
    BY <1>5, AutoWrite
  <2>2. Remembered' = Remembered
    BY <2>1, RememberedIs DEF Inv
  <2>3. Asked' = Asked
    BY <2>1, <2>2 DEF Asked
  <2>4. Store!SetAuto
    BY <2>2, <2>3 DEF Store!SetAuto, Asked
  <2>5. QED BY <2>4 DEF Store!Next
<1>6. CASE WriteNext
  BY <1>6, WriteMaps
<1>7. CASE Restart
  <2>1. store' = store /\ pc' = "boot"
    BY <1>7 DEF Restart, Start
  <2>2. Asked' = Remembered /\ UNCHANGED <<Remembered, AutoBoot>>
    BY <2>1, SameMemory DEF Asked
  <2>3. Store!Restart
    BY <2>2 DEF Store!Restart, Asked, AutoBoot
  <2>4. QED BY <2>3 DEF Store!Next
<1>8. CASE PowerLossInWrite \/ PowerLossInAuto
  <2>1. Store!Lost
    BY <1>8, LostMaps DEF PowerLossInWrite, PowerLossInAuto
  <2>2. QED BY <2>1 DEF Store!Next
<1>9. CASE UNCHANGED vars
  <2>1. store' = store /\ pc' = pc /\ name' = name
    BY <1>9 DEF vars
  <2>2. QED BY <1>1, <2>1, SameMemory DEF Asked
<1>10. QED
  BY <1>2, <1>3, <1>4, <1>5, <1>6, <1>7, <1>8, <1>9 DEF Next

\* However the writes of the single bytes (eeprom_write()) and the power losses
\* fall, a restart finds the name asked for last or none: for every size of the
\* settings, every set of names and every earlier contents of the flash.
THEOREM SettingsImplement == Spec => ImplementsStore
<1>1. Init => Store!Init
  <2>1. Init => store[0] # Set /\ pc = "off"
    BY SettingsAssumption DEF Init
  <2>2. Init => Remembered = None /\ Asked = None /\ AutoBoot = FALSE
    BY <2>1, RememberedIs DEF Marked, Asked, AutoBoot
  <2>3. QED BY <2>2 DEF Store!Init, Asked, AutoBoot
<1>2. QED
  BY <1>1, StepMaps, InvHolds, PTL DEF Spec, ImplementsStore, Store!Spec
=============================================================================
