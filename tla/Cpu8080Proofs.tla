--------------------------- MODULE Cpu8080Proofs ---------------------------
(***************************************************************************)
(* The 8080, for every operand, guest and size of memory.  First the       *)
(* carries and borrows of its additions and subtractions: the code finds   *)
(* them by comparing the truncated result with an operand, and result and  *)
(* carry together are the exact sum or difference, so that longer numbers  *)
(* can be chained.  Then the flag byte, bit by bit, the decimal adjust,    *)
(* the types of all instructions, and the stack.                           *)
(***************************************************************************)
EXTENDS Cpu8080, ModArith, TLAPS

Bits == {0, 1}

\* The flags of a result can be read back.
LEMMA ZspEven == ASSUME NEW n \in Byte
                 PROVE  \E k \in Nat : flag_zsp(n) = 4 * k
<1> DEFINE k == 16 * One(n = 0) + 32 * (n \div 128)
                + One(tbl_par(n % 16) + tbl_par(n \div 16) # 1)
<1>1. n \div 128 \in Nat  BY DEF Byte
<1>2. One(n = 0) \in Nat /\ One(tbl_par(n % 16) + tbl_par(n \div 16) # 1) \in Nat
  BY DEF One
<1>3. flag_zsp(n) = 4 * k  BY <1>1, <1>2 DEF flag_zsp
<1>4. k \in Nat  BY <1>1, <1>2
<1> QED BY <1>3, <1>4

LEMMA CarryOfResult == ASSUME NEW n \in Byte, NEW cy \in Bits, NEW ac \in Bits
                       PROVE  Bit(Result(n, cy, ac).f, CY) = cy
<1>1. PICK k \in Nat : flag_zsp(n) = 4 * k  BY ZspEven
<1>2. Result(n, cy, ac).f = cy + 16 * ac + 4 * k  BY <1>1 DEF Result
<1>3. (cy + 16 * ac + 4 * k) % 2 = cy  BY DEF Bits
<1>4. Weight(0) = 1  BY DEF Weight
<1>5. cy + 16 * ac + 4 * k \in Nat  BY DEF Bits
<1> QED BY <1>2, <1>3, <1>4, <1>5 DEF Bit, CY

LEMMA CarryIsBit == ASSUME NEW g \in Byte PROVE Bit(g, CY) \in Bits
  BY DEF Byte, Bit, CY, Weight, Bits

\* Truncation of a sum, and of a difference, of bytes.
LEMMA Above == ASSUME NEW m \in 0 .. 511
               PROVE  AsByte(m) = IF m < 256 THEN m ELSE m - 256
  BY DEF AsByte
LEMMA Below == ASSUME NEW m \in -256 .. 255
               PROVE  AsByte(m) = IF m < 0 THEN m + 256 ELSE m
  BY DEF AsByte

LEMMA CarryByComparison ==
  ASSUME NEW a \in Byte, NEW v \in Byte, NEW c \in Bits
  PROVE  /\ AsByte(a + v + c) \in Byte
         /\ AsByte(a + v + c) + 256 * One(AsByte(a + v + c) < a + c) = a + v + c
<1> DEFINE m == a + v + c
<1>1. m \in 0 .. 511 /\ a \in 0 .. 255 /\ v \in 0 .. 255 /\ c \in 0 .. 1
  BY DEF Byte, Bits
<1>2. CASE m < 256
  <2>1. AsByte(m) = m  BY <1>1, <1>2, Above
  <2>2. ~ (m < a + c)  BY <1>1
  <2>3. One(AsByte(m) < a + c) = 0  BY <2>1, <2>2 DEF One
  <2> HIDE DEF m
  <2>4. m \in Byte  BY <1>1, <1>2 DEF Byte
  <2>5. m + 256 * 0 = m  BY <1>1
  <2> QED BY <2>1, <2>3, <2>4, <2>5 DEF m
<1>3. CASE m >= 256
  <2>1. AsByte(m) = m - 256  BY <1>1, <1>3, Above
  <2>2. m - 256 < a + c  BY <1>1
  <2>3. One(AsByte(m) < a + c) = 1  BY <2>1, <2>2 DEF One
  <2> HIDE DEF m
  <2>4. m - 256 \in Byte  BY <1>1, <1>3 DEF Byte
  <2>5. m - 256 + 256 * 1 = m  BY <1>1
  <2> QED BY <2>1, <2>3, <2>4, <2>5 DEF m
<1> QED BY <1>1, <1>2, <1>3

LEMMA CarryOfSum ==
  ASSUME NEW a \in Byte, NEW v \in Byte
  PROVE  /\ AsByte(a + v) \in Byte
         /\ AsByte(a + v) + 256 * One(AsByte(a + v) < a) = a + v
<1>1. a + v + 0 = a + v /\ a + 0 = a  BY DEF Byte
<1> QED BY <1>1, CarryByComparison, 0 \in Bits DEF Bits

LEMMA BorrowByComparison ==
  ASSUME NEW a \in Byte, NEW v \in Byte, NEW c \in Bits
  PROVE  /\ AsByte(a - v - c) \in Byte
         /\ AsByte(a - v - c) = a - v - c + 256 * One(AsByte(a - v - c) > a - c)
         /\ One(AsByte(a - v - c) > a - c) = One(a < v + c)
<1> DEFINE m == a - v - c
<1>1. m \in -256 .. 255 /\ a \in 0 .. 255 /\ v \in 0 .. 255 /\ c \in 0 .. 1
  BY DEF Byte, Bits
<1>2. CASE m < 0
  <2>1. AsByte(m) = m + 256  BY <1>1, <1>2, Below
  <2>2. m + 256 > a - c /\ a < v + c  BY <1>1, <1>2
  <2>3. One(AsByte(m) > a - c) = 1 /\ One(a < v + c) = 1  BY <2>1, <2>2 DEF One
  <2> HIDE DEF m
  <2>4. m + 256 \in Byte  BY <1>1, <1>2 DEF Byte
  <2>5. m + 256 * 1 = m + 256  BY <1>1
  <2> QED BY <2>1, <2>3, <2>4, <2>5 DEF m
<1>3. CASE m >= 0
  <2>1. AsByte(m) = m  BY <1>1, <1>3, Below
  <2>2. ~ (m > a - c) /\ ~ (a < v + c)  BY <1>1, <1>3
  <2>3. One(AsByte(m) > a - c) = 0 /\ One(a < v + c) = 0  BY <2>1, <2>2 DEF One
  <2> HIDE DEF m
  <2>4. m \in Byte  BY <1>1, <1>3 DEF Byte
  <2>5. m + 256 * 0 = m  BY <1>1
  <2> QED BY <2>1, <2>3, <2>4, <2>5 DEF m
<1> QED BY <1>1, <1>2, <1>3

LEMMA Words == ASSUME NEW h \in Int, NEW l \in Int, NEW vh \in Int, NEW vl \in Int,
                      NEW rl \in Int, NEW rh \in Int, NEW c1 \in Int, NEW c2 \in Int,
                      rl + 256 * c1 = l + vl, rh + 256 * c2 = h + vh + c1
               PROVE  rl + 256 * rh + 65536 * c2 = (256 * h + l) + (256 * vh + vl)
  OBVIOUS

\* ADC: result and carry are the sum of both operands and the carry in.  (The
\* code compares the result with a + carry, which may be 256.)
THEOREM AdcExact ==
  ASSUME NEW a \in Byte, NEW v \in Byte, NEW g \in Byte
  PROVE  LET res == adc(a, g, v)
         IN /\ res.val \in Byte /\ Bit(res.f, CY) \in Bits
            /\ res.val + 256 * Bit(res.f, CY) = a + v + Bit(g, CY)
<1> DEFINE c == Bit(g, CY)
           n == AsByte(a + v + c)
           cy == One(n < a + c)
           ac == One(n % 16 < (a % 16) + c)
<1>1. c \in Bits  BY CarryIsBit
<1>2. n \in Byte /\ n + 256 * cy = a + v + c  BY <1>1, CarryByComparison
<1>3. cy \in Bits /\ ac \in Bits  BY DEF One, Bits
<1>4. Bit(Result(n, cy, ac).f, CY) = cy
  <2> HIDE DEF n, cy, ac
  <2> QED BY <1>2, <1>3, CarryOfResult
<1>5. adc(a, g, v) = Result(n, cy, ac)  BY DEF adc
<1>6. Result(n, cy, ac).val = n  BY DEF Result
<1> HIDE DEF n, cy, ac, c
<1> QED BY <1>2, <1>3, <1>4, <1>5, <1>6 DEF c

\* ADD: the same without a carry in.
THEOREM AddExact ==
  ASSUME NEW a \in Byte, NEW v \in Byte, NEW g \in Byte
  PROVE  LET res == add(a, g, v)
         IN /\ res.val \in Byte /\ Bit(res.f, CY) \in Bits
            /\ res.val + 256 * Bit(res.f, CY) = a + v
<1> DEFINE n == AsByte(a + v)
           cy == One(n < a)
           ac == One(n % 16 < a % 16)
<1>2. n \in Byte /\ n + 256 * cy = a + v  BY CarryOfSum
<1>3. cy \in Bits /\ ac \in Bits  BY DEF One, Bits
<1>4. Bit(Result(n, cy, ac).f, CY) = cy
  <2> HIDE DEF n, cy, ac
  <2> QED BY <1>2, <1>3, CarryOfResult
<1>5. add(a, g, v) = Result(n, cy, ac)  BY DEF add
<1>6. Result(n, cy, ac).val = n  BY DEF Result
<1> HIDE DEF n, cy, ac
<1> QED BY <1>2, <1>3, <1>4, <1>5, <1>6

\* SBB: the carry is the borrow of the difference, with the borrow in.
THEOREM SbbExact ==
  ASSUME NEW a \in Byte, NEW v \in Byte, NEW g \in Byte
  PROVE  LET res == sbb(a, g, v)
         IN /\ res.val \in Byte /\ Bit(res.f, CY) \in Bits
            /\ res.val = a - v - Bit(g, CY) + 256 * Bit(res.f, CY)
<1> DEFINE c == Bit(g, CY)
           n == AsByte(a - v - c)
           cy == One(n > a - c)
           ac == One(n % 16 > (a % 16) - c)
<1>1. c \in Bits  BY CarryIsBit
<1>2. n \in Byte /\ n = a - v - c + 256 * cy  BY <1>1, BorrowByComparison
<1>3. cy \in Bits /\ ac \in Bits  BY DEF One, Bits
<1>4. Bit(Result(n, cy, ac).f, CY) = cy
  <2> HIDE DEF n, cy, ac
  <2> QED BY <1>2, <1>3, CarryOfResult
<1>5. sbb(a, g, v) = Result(n, cy, ac)  BY DEF sbb
<1>6. Result(n, cy, ac).val = n  BY DEF Result
<1> HIDE DEF n, cy, ac, c
<1> QED BY <1>2, <1>3, <1>4, <1>5, <1>6 DEF c

\* SUB and CMP: carry exactly when the operand is the greater byte.
THEOREM SubExact ==
  ASSUME NEW a \in Byte, NEW v \in Byte, NEW g \in Byte
  PROVE  LET res == sub(a, g, v)
         IN /\ res.val \in Byte
            /\ res.val = a - v + 256 * Bit(res.f, CY)
            /\ Bit(res.f, CY) = One(a < v)
<1> DEFINE n == AsByte(a - v)
           cy == One(n > a)
           ac == One(n % 16 > a % 16)
<1>1. a - v - 0 = a - v /\ a - 0 = a /\ v + 0 = v  BY DEF Byte
<1>2. n \in Byte /\ n = a - v + 256 * cy /\ cy = One(a < v)
  BY <1>1, BorrowByComparison, 0 \in Bits DEF Bits
<1>3. cy \in Bits /\ ac \in Bits  BY DEF One, Bits
<1>4. Bit(Result(n, cy, ac).f, CY) = cy
  <2> HIDE DEF n, cy, ac
  <2> QED BY <1>2, <1>3, CarryOfResult
<1>5. sub(a, g, v) = Result(n, cy, ac)  BY DEF sub
<1>6. Result(n, cy, ac).val = n  BY DEF Result
<1> HIDE DEF n, cy, ac
<1> QED BY <1>2, <1>3, <1>4, <1>5, <1>6

\* A sum of words by ADD of the low and ADC of the high bytes is exact.
THEOREM WordSumExact ==
  ASSUME NEW hi \in Byte, NEW lo \in Byte, NEW vhi \in Byte, NEW vlo \in Byte,
         NEW g \in Byte
  PROVE  LET low == add(lo, g, vlo)
             high == adc(hi, low.f, vhi)
         IN low.val + 256 * high.val + 65536 * Bit(high.f, CY)
              = (256 * hi + lo) + (256 * vhi + vlo)
<1> DEFINE low == add(lo, g, vlo)
           high == adc(hi, low.f, vhi)
<1>1. /\ low.val \in Byte /\ Bit(low.f, CY) \in Bits
      /\ low.val + 256 * Bit(low.f, CY) = lo + vlo
  BY AddExact
<1>2. low.f \in Byte
  <2>1. /\ One(AsByte(lo + vlo) < lo) \in Bits
        /\ One(AsByte(lo + vlo) % 16 < lo % 16) \in Bits
    BY DEF One, Bits
  <2>2. flag_zsp(AsByte(lo + vlo)) \in 0 .. 196 /\ low.f =
          One(AsByte(lo + vlo) < lo) + 16 * One(AsByte(lo + vlo) % 16 < lo % 16)
          + flag_zsp(AsByte(lo + vlo))
    BY DEF add, Result, flag_zsp, AsByte, Byte, One
  <2> QED BY <2>1, <2>2 DEF Byte, Bits
<1>3. /\ high.val \in Byte /\ Bit(high.f, CY) \in Bits
      /\ high.val + 256 * Bit(high.f, CY) = hi + vhi + Bit(low.f, CY)
  BY <1>2, AdcExact
<1> HIDE DEF low, high
<1>4. low.val + 256 * high.val + 65536 * Bit(high.f, CY)
              = (256 * hi + lo) + (256 * vhi + vlo)
  <2>1. ASSUME NEW l \in Int, NEW h \in Int, NEW c \in Int, NEW d \in Int,
               NEW s \in Int, NEW t \in Int,
               l + 256 * c = s, h + 256 * d = t + c
        PROVE  l + 256 * h + 65536 * d = 256 * t + s
    BY <2>1
  <2>2. \A n \in Byte \cup Bits : n \in Int  BY DEF Byte, Bits
  <2>3. /\ low.val \in Int /\ high.val \in Int
        /\ Bit(low.f, CY) \in Int /\ Bit(high.f, CY) \in Int
        /\ hi \in Int /\ lo \in Int /\ vhi \in Int /\ vlo \in Int
    BY <1>1, <1>3, <2>2
  <2>4. lo + vlo \in Int /\ hi + vhi \in Int  BY <2>3
  <2>7. low.val + 256 * Bit(low.f, CY) = lo + vlo  BY <1>1
  <2>8. high.val + 256 * Bit(high.f, CY) = (hi + vhi) + Bit(low.f, CY)  BY <1>3
  <2>5. low.val + 256 * high.val + 65536 * Bit(high.f, CY)
          = 256 * (hi + vhi) + (lo + vlo)
    BY ONLY <2>1, <2>3, <2>4, <2>7, <2>8
  <2>6. 256 * (hi + vhi) + (lo + vlo) = (256 * hi + lo) + (256 * vhi + vlo)
    BY <2>3
  <2> QED BY <2>5, <2>6
<1> QED BY <1>4 DEF low, high
-----------------------------------------------------------------------------
(* Bytes as bits.                                                           *)

\* The byte with these bits, and that b0 to b7 are bits.
ByBits(b0, b1, b2, b3, b4, b5, b6, b7) ==
  b0 + 2 * b1 + 4 * b2 + 8 * b3 + 16 * b4 + 32 * b5 + 64 * b6 + 128 * b7

LEMMA Halves == ASSUME NEW g \in Nat, NEW b \in Bits, NEW h \in Nat, g = b + 2 * h
                PROVE  g % 2 = b /\ g \div 2 = h
  BY DEF Bits

LEMMA Weights == /\ Weight(0) = 1 /\ Weight(1) = 2 /\ Weight(2) = 4 /\ Weight(3) = 8
                 /\ Weight(4) = 16 /\ Weight(5) = 32 /\ Weight(6) = 64
                 /\ Weight(7) = 128
  BY DEF Weight

\* The bits of a byte make it up.
LEMMA MadeOfBits ==
  ASSUME NEW g \in Byte
  PROVE  /\ \A i \in 0 .. 7 : Bit(g, i) \in Bits
         /\ g = ByBits(Bit(g, 0), Bit(g, 1), Bit(g, 2), Bit(g, 3),
                       Bit(g, 4), Bit(g, 5), Bit(g, 6), Bit(g, 7))
<1>1. ASSUME NEW n \in Nat PROVE n % 2 \in Bits /\ n = (n % 2) + 2 * (n \div 2)
  BY DEF Bits
<1>2. g \in Nat /\ g < 256 BY DEF Byte
<1>3. /\ Bit(g, 0) = g % 2 /\ Bit(g, 1) = (g \div 2) % 2
      /\ Bit(g, 2) = (g \div 4) % 2 /\ Bit(g, 3) = (g \div 8) % 2
      /\ Bit(g, 4) = (g \div 16) % 2 /\ Bit(g, 5) = (g \div 32) % 2
      /\ Bit(g, 6) = (g \div 64) % 2 /\ Bit(g, 7) = (g \div 128) % 2
  BY <1>2, Weights DEF Bit
<1>4. /\ g \div 2 \in Nat /\ g \div 4 = (g \div 2) \div 2
      /\ g \div 8 = (g \div 4) \div 2 /\ g \div 16 = (g \div 8) \div 2
      /\ g \div 32 = (g \div 16) \div 2 /\ g \div 64 = (g \div 32) \div 2
      /\ g \div 128 = (g \div 64) \div 2 /\ (g \div 128) \div 2 = 0
      /\ g \div 4 \in Nat /\ g \div 8 \in Nat /\ g \div 16 \in Nat
      /\ g \div 32 \in Nat /\ g \div 64 \in Nat /\ g \div 128 \in Nat
  BY <1>2
<1>5. \A i \in 0 .. 7 : Bit(g, i) \in Bits
  <2>1. \A i \in 0 .. 7 : i \in {0, 1, 2, 3, 4, 5, 6, 7} OBVIOUS
  <2>2. QED BY <1>1, <1>2, <1>3, <1>4, <2>1
<1>6. /\ g = Bit(g, 0) + 2 * (g \div 2)
      /\ g \div 2 = Bit(g, 1) + 2 * (g \div 4)
      /\ g \div 4 = Bit(g, 2) + 2 * (g \div 8)
      /\ g \div 8 = Bit(g, 3) + 2 * (g \div 16)
      /\ g \div 16 = Bit(g, 4) + 2 * (g \div 32)
      /\ g \div 32 = Bit(g, 5) + 2 * (g \div 64)
      /\ g \div 64 = Bit(g, 6) + 2 * (g \div 128)
      /\ g \div 128 = Bit(g, 7)
  BY <1>1, <1>2, <1>3, <1>4
<1>7. /\ Bit(g, 0) \in Int /\ Bit(g, 1) \in Int /\ Bit(g, 2) \in Int
      /\ Bit(g, 3) \in Int /\ Bit(g, 4) \in Int /\ Bit(g, 5) \in Int
      /\ Bit(g, 6) \in Int /\ Bit(g, 7) \in Int
  BY <1>5 DEF Bits
<1>8. g = ByBits(Bit(g, 0), Bit(g, 1), Bit(g, 2), Bit(g, 3),
                 Bit(g, 4), Bit(g, 5), Bit(g, 6), Bit(g, 7))
  BY <1>4, <1>6, <1>7 DEF ByBits
<1>9. QED BY <1>5, <1>8

\* And they are found again.
HasBits(g, b0, b1, b2, b3, b4, b5, b6, b7) ==
  /\ b0 \in Bits /\ b1 \in Bits /\ b2 \in Bits /\ b3 \in Bits
  /\ b4 \in Bits /\ b5 \in Bits /\ b6 \in Bits /\ b7 \in Bits
  /\ g = ByBits(b0, b1, b2, b3, b4, b5, b6, b7)
LEMMA BitsFound ==
  ASSUME NEW g, NEW b0, NEW b1, NEW b2, NEW b3, NEW b4, NEW b5, NEW b6, NEW b7,
         HasBits(g, b0, b1, b2, b3, b4, b5, b6, b7)
  PROVE  /\ g \in Byte
         /\ Bit(g, 0) = b0 /\ Bit(g, 1) = b1 /\ Bit(g, 2) = b2 /\ Bit(g, 3) = b3
         /\ Bit(g, 4) = b4 /\ Bit(g, 5) = b5 /\ Bit(g, 6) = b6 /\ Bit(g, 7) = b7
<1> /\ b0 \in Bits /\ b1 \in Bits /\ b2 \in Bits /\ b3 \in Bits
    /\ b4 \in Bits /\ b5 \in Bits /\ b6 \in Bits /\ b7 \in Bits
    /\ g = ByBits(b0, b1, b2, b3, b4, b5, b6, b7)
  BY DEF HasBits
<1> DEFINE h7 == b7
           h6 == b6 + 2 * h7
           h5 == b5 + 2 * h6
           h4 == b4 + 2 * h5
           h3 == b3 + 2 * h4
           h2 == b2 + 2 * h3
           h1 == b1 + 2 * h2
<1>1. /\ h7 \in Nat /\ h6 \in Nat /\ h5 \in Nat /\ h4 \in Nat
      /\ h3 \in Nat /\ h2 \in Nat /\ h1 \in Nat
  BY DEF Bits
<1>2. g \in Nat /\ g \in Byte /\ g = b0 + 2 * h1
  BY DEF ByBits, Bits, Byte
<1>3. /\ g \div 1 = g /\ g \div 4 = (g \div 2) \div 2
      /\ g \div 8 = (g \div 4) \div 2 /\ g \div 16 = (g \div 8) \div 2
      /\ g \div 32 = (g \div 16) \div 2 /\ g \div 64 = (g \div 32) \div 2
      /\ g \div 128 = (g \div 64) \div 2
  BY <1>2
<1>4. /\ Bit(g, 0) = g % 2 /\ Bit(g, 1) = (g \div 2) % 2
      /\ Bit(g, 2) = (g \div 4) % 2 /\ Bit(g, 3) = (g \div 8) % 2
      /\ Bit(g, 4) = (g \div 16) % 2 /\ Bit(g, 5) = (g \div 32) % 2
      /\ Bit(g, 6) = (g \div 64) % 2 /\ Bit(g, 7) = (g \div 128) % 2
  BY <1>2, <1>3, Weights DEF Bit
<1>5. g % 2 = b0 /\ g \div 2 = h1
  <2> HIDE DEF h1
  <2>1. QED BY <1>1, <1>2, Halves
<1>6. h1 % 2 = b1 /\ h1 \div 2 = h2
  <2>1. h1 = b1 + 2 * h2 OBVIOUS
  <2> HIDE DEF h1, h2
  <2>2. QED BY <1>1, <2>1, Halves
<1>7. h2 % 2 = b2 /\ h2 \div 2 = h3
  <2>1. h2 = b2 + 2 * h3 OBVIOUS
  <2> HIDE DEF h2, h3
  <2>2. QED BY <1>1, <2>1, Halves
<1>8. h3 % 2 = b3 /\ h3 \div 2 = h4
  <2>1. h3 = b3 + 2 * h4 OBVIOUS
  <2> HIDE DEF h3, h4
  <2>2. QED BY <1>1, <2>1, Halves
<1>9. h4 % 2 = b4 /\ h4 \div 2 = h5
  <2>1. h4 = b4 + 2 * h5 OBVIOUS
  <2> HIDE DEF h4, h5
  <2>2. QED BY <1>1, <2>1, Halves
<1>10. h5 % 2 = b5 /\ h5 \div 2 = h6
  <2>1. h5 = b5 + 2 * h6 OBVIOUS
  <2> HIDE DEF h5, h6
  <2>2. QED BY <1>1, <2>1, Halves, ZenonT(60)
<1>11. h6 % 2 = b6 /\ h6 \div 2 = h7
  <2>1. h6 = b6 + 2 * h7 OBVIOUS
  <2> HIDE DEF h6, h7
  <2>2. QED BY <1>1, <2>1, Halves
<1>12. b7 % 2 = b7 BY DEF Bits
<1> HIDE DEF h1, h2, h3, h4, h5, h6
<1>13. QED
  BY <1>2, <1>3, <1>4, <1>5, <1>6, <1>7, <1>8, <1>9, <1>10, <1>11, <1>12

\* Put() changes one bit: `|=' and `&= ~' of a flag.
LEMMA PutSets ==
  ASSUME NEW g \in Byte, NEW i \in 0 .. 7, NEW b \in Bits
  PROVE  /\ Put(g, i, b) \in Byte
         /\ \A j \in 0 .. 7 : Bit(Put(g, i, b), j) = IF j = i THEN b ELSE Bit(g, j)
<1> DEFINE c(j) == IF j = i THEN b ELSE Bit(g, j)
<1>1. \A j \in 0 .. 7 : Bit(g, j) \in Bits BY MadeOfBits
<1>2. \A j \in 0 .. 7 : c(j) \in Bits BY <1>1
<1>3. g = ByBits(Bit(g, 0), Bit(g, 1), Bit(g, 2), Bit(g, 3),
                 Bit(g, 4), Bit(g, 5), Bit(g, 6), Bit(g, 7))
  BY MadeOfBits
<1>4. \A j \in 0 .. 7 : Bit(g, j) \in Int /\ b \in Int
  BY <1>1 DEF Bits
<1>5. Put(g, i, b) = ByBits(c(0), c(1), c(2), c(3), c(4), c(5), c(6), c(7))
  <2>1. i \in {0, 1, 2, 3, 4, 5, 6, 7} OBVIOUS
  <2>2. QED BY <1>3, <1>4, <2>1, Weights DEF Put, ByBits
<1>6. \A j \in 0 .. 7 : j \in {0, 1, 2, 3, 4, 5, 6, 7} OBVIOUS
<1> HIDE DEF c
<1>7. /\ c(0) \in Bits /\ c(1) \in Bits /\ c(2) \in Bits /\ c(3) \in Bits
      /\ c(4) \in Bits /\ c(5) \in Bits /\ c(6) \in Bits /\ c(7) \in Bits
  BY <1>2
<1> DEFINE h == Put(g, i, b)
<1>8. HasBits(h, c(0), c(1), c(2), c(3), c(4), c(5), c(6), c(7))
  BY <1>5, <1>7 DEF HasBits
<1> HIDE DEF h
<1>9. /\ h \in Byte
       /\ Bit(h, 0) = c(0) /\ Bit(h, 1) = c(1) /\ Bit(h, 2) = c(2)
       /\ Bit(h, 3) = c(3) /\ Bit(h, 4) = c(4) /\ Bit(h, 5) = c(5)
       /\ Bit(h, 6) = c(6) /\ Bit(h, 7) = c(7)
  BY <1>8, BitsFound
<1>10. \A j \in 0 .. 7 : Bit(h, j) = c(j) BY <1>6, <1>9
<1>11. QED BY <1>9, <1>10 DEF c, h
-----------------------------------------------------------------------------
(* What the helpers return: a byte, and flags that fit into a byte.         *)

IsResult(res) == res.val \in Byte /\ res.f \in Byte

LEMMA Truncated == ASSUME NEW n \in Int PROVE AsByte(n) \in Byte
  BY DEF AsByte, Byte

LEMMA ZspRange == ASSUME NEW n \in Byte PROVE flag_zsp(n) \in 0 .. 196
<1>1. n \div 128 \in 0 .. 1 BY DEF Byte
<1>2. \A t \in BOOLEAN : One(t) \in 0 .. 1 BY DEF One
<1>3. One(n = 0) \in 0 .. 1 /\ One(tbl_par(n % 16) + tbl_par(n \div 16) # 1) \in 0 .. 1
  BY DEF One
<1>4. QED BY <1>1, <1>3 DEF flag_zsp

LEMMA ResultIs ==
  ASSUME NEW n \in Byte, NEW cy \in Bits, NEW ac \in Bits
  PROVE  IsResult(Result(n, cy, ac))
<1>1. flag_zsp(n) \in 0 .. 196 BY ZspRange
<1>2. cy + 16 * ac + flag_zsp(n) \in Byte BY <1>1 DEF Bits, Byte
<1>3. QED BY <1>2 DEF IsResult, Result

LEMMA OneIsBit == \A t : One(t) \in Bits
  BY DEF One, Bits

LEMMA FlagIs == ASSUME NEW g \in Byte PROVE \A i \in 0 .. 7 : Bit(g, i) \in Bits
  BY MadeOfBits

\* Each of the additive helpers is Result() of a truncated number.
LEMMA SumsAre ==
  ASSUME NEW a \in Byte, NEW g \in Byte, NEW v \in Byte
  PROVE  /\ IsResult(inr(g, v)) /\ IsResult(dcr(g, v))
         /\ IsResult(add(a, g, v)) /\ IsResult(adc(a, g, v))
         /\ IsResult(sub(a, g, v)) /\ IsResult(sbb(a, g, v))
<1>1. CY \in 0 .. 7 BY DEF CY
<1>2. Bit(g, CY) \in Bits BY <1>1, FlagIs
<1>3. Bit(g, CY) \in Int /\ a \in Int /\ v \in Int BY <1>2 DEF Bits, Byte
<1>4. /\ AsByte(v + 1) \in Byte /\ AsByte(v - 1) \in Byte
      /\ AsByte(a + v) \in Byte /\ AsByte(a + v + Bit(g, CY)) \in Byte
      /\ AsByte(a - v) \in Byte /\ AsByte(a - v - Bit(g, CY)) \in Byte
  BY <1>3, Truncated
<1>5. IsResult(inr(g, v)) BY <1>2, <1>4, OneIsBit, ResultIs DEF inr
<1>6. IsResult(dcr(g, v)) BY <1>2, <1>4, OneIsBit, ResultIs DEF dcr
<1>7. IsResult(add(a, g, v)) BY <1>4, OneIsBit, ResultIs DEF add
<1>8. IsResult(adc(a, g, v)) BY <1>4, OneIsBit, ResultIs DEF adc
<1>9. IsResult(sub(a, g, v)) BY <1>4, OneIsBit, ResultIs DEF sub
<1>10. IsResult(sbb(a, g, v)) BY <1>4, OneIsBit, ResultIs DEF sbb
<1>11. QED BY <1>5, <1>6, <1>7, <1>8, <1>9, <1>10

\* Two bytes, bit by bit: `&' has the bits of both, `|' those of either, `^'
\* those of one.
LEMMA Bitwise8 ==
  ASSUME NEW a \in Byte, NEW v \in Byte
  PROVE  /\ Conjunction(a, v) \in Byte
         /\ a + v - Conjunction(a, v) \in Byte
         /\ a + v - 2 * Conjunction(a, v) \in Byte
<1> DEFINE t(i) == Bit(a, i) * Bit(v, i)
           e(i) == Bit(a, i) + Bit(v, i) - t(i)
           o(i) == Bit(a, i) + Bit(v, i) - 2 * t(i)
<1>1. ASSUME NEW i \in 0 .. 7
      PROVE  t(i) \in Bits /\ e(i) \in Bits /\ o(i) \in Bits
  <2>1. Bit(a, i) \in Bits /\ Bit(v, i) \in Bits BY FlagIs
  <2>2. QED BY <2>1 DEF Bits
<1>2. ASSUME NEW i \in 0 .. 7
      PROVE  /\ Bit(a, i) \in Int /\ Bit(v, i) \in Int /\ t(i) \in Int
             /\ e(i) \in Int /\ o(i) \in Int
             /\ Both(a, v, i) = Weight(i) * t(i)
  <2>1. Bit(a, i) \in Bits /\ Bit(v, i) \in Bits BY FlagIs
  <2>2. i \in {0, 1, 2, 3, 4, 5, 6, 7} OBVIOUS
  <2>3. Weight(i) \in Int BY <2>2, Weights
  <2>4. Bit(a, i) \in Int /\ Bit(v, i) \in Int BY <2>1 DEF Bits
  <2>5. QED BY <2>1, <2>3, <2>4 DEF Both, Bits
<1>3. /\ a = ByBits(Bit(a, 0), Bit(a, 1), Bit(a, 2), Bit(a, 3),
                    Bit(a, 4), Bit(a, 5), Bit(a, 6), Bit(a, 7))
      /\ v = ByBits(Bit(v, 0), Bit(v, 1), Bit(v, 2), Bit(v, 3),
                    Bit(v, 4), Bit(v, 5), Bit(v, 6), Bit(v, 7))
  BY MadeOfBits
<1>4. \A i \in 0 .. 7 : /\ Both(a, v, i) = Weight(i) * t(i) /\ t(i) \in Int
                        /\ e(i) = Bit(a, i) + Bit(v, i) - t(i)
                        /\ o(i) = Bit(a, i) + Bit(v, i) - 2 * t(i)
                        /\ Bit(a, i) \in Int /\ Bit(v, i) \in Int
  BY <1>2
<1>5. \A i \in 0 .. 7 : t(i) \in Bits /\ e(i) \in Bits /\ o(i) \in Bits BY <1>1
<1> HIDE DEF t, e, o
<1>6. HasBits(Conjunction(a, v), t(0), t(1), t(2), t(3), t(4), t(5), t(6), t(7))
  BY <1>4, <1>5, Weights DEF HasBits, Conjunction, ByBits
<1>7. HasBits(a + v - Conjunction(a, v),
              e(0), e(1), e(2), e(3), e(4), e(5), e(6), e(7))
  BY <1>3, <1>4, <1>5, <1>6 DEF HasBits, ByBits
<1>8. HasBits(a + v - 2 * Conjunction(a, v),
              o(0), o(1), o(2), o(3), o(4), o(5), o(6), o(7))
  BY <1>3, <1>4, <1>5, <1>6 DEF HasBits, ByBits
<1>9. QED BY <1>6, <1>7, <1>8, BitsFound

LEMMA OperationIs ==
  ASSUME NEW k \in 0 .. 7, NEW a \in Byte, NEW g \in Byte, NEW v \in Byte
  PROVE  IsResult(Operation(k, a, g, v))
<1>1. 0 \in Bits /\ 1 \in Bits BY DEF Bits
<1>2. IsResult(ana(a, g, v)) /\ IsResult(xra(a, g, v)) /\ IsResult(ora(a, g, v))
  BY <1>1, Bitwise8, ResultIs DEF ana, xra, ora
<1>3. IsResult([sub(a, g, v) EXCEPT !.val = a])
  <2>1. IsResult(sub(a, g, v)) BY SumsAre
  <2>2. sub(a, g, v) = [val |-> sub(a, g, v).val, f |-> sub(a, g, v).f]
    BY DEF sub, Result
  <2>3. QED BY <2>1, <2>2 DEF IsResult
<1>4. k \in {0, 1, 2, 3, 4, 5, 6, 7} OBVIOUS
<1>5. QED BY <1>2, <1>3, <1>4, SumsAre DEF Operation

LEMMA RotateIs ==
  ASSUME NEW k \in 0 .. 3, NEW a \in Byte, NEW g \in Byte
  PROVE  IsResult(Rotate(k, a, g))
<1> DEFINE out == IF k % 2 = 0 THEN a \div 128 ELSE a % 2
           into == IF k < 2 THEN out ELSE Bit(g, CY)
           val == IF k % 2 = 0 THEN AsByte(2 * a) + into ELSE 128 * into + a \div 2
<1>1. CY \in 0 .. 7 BY DEF CY
<1>2. out \in Bits BY DEF Bits, Byte
<1>3. into \in Bits BY <1>1, <1>2, FlagIs
<1>4. val \in Byte
  <2>1. a \in 0 .. 255 BY DEF Byte
  <2>2. AsByte(2 * a) \in 0 .. 254 BY <2>1 DEF AsByte
  <2>3. a \div 2 \in 0 .. 127 BY <2>1
  <2> HIDE DEF into
  <2>4. into \in 0 .. 1 BY <1>3 DEF Bits
  <2>5. QED BY <2>2, <2>3, <2>4 DEF Byte
<1>5. Put(g, CY, out) \in Byte BY <1>1, <1>2, PutSets, ZenonT(60)
<1>6. Rotate(k, a, g) = [val |-> val, f |-> Put(g, CY, out)] BY DEF Rotate
<1> HIDE DEF val, out
<1>7. QED BY <1>4, <1>5, <1>6 DEF IsResult

\* DAA clears zero, sign and parity before it sets those of the result.
LEMMA DaaIs ==
  ASSUME NEW a \in Byte, NEW g \in Byte
  PROVE  /\ IsResult(daa(a, g))
         /\ Bit(daa(a, g).f, CY) = One(a \div 16 > 9 \/ Bit(g, CY) = 1)
<1> DEFINE low == One(a % 16 > 9 \/ Bit(g, AC) = 1)
           high == One(a \div 16 > 9 \/ Bit(g, CY) = 1)
           n == AsByte(16 * (a \div 16 + 6 * high) + ((a % 16) + 6 * low))
           g1 == Put(g, Z, 0)
           g2 == Put(g1, S, 0)
           g3 == Put(g2, P, 0)
           g4 == Put(g3, AC, low)
           g5 == Put(g4, CY, high)
<1>1. daa(a, g) = [val |-> n, f |-> g5 + flag_zsp(n)] BY DEF daa
<1>2. low \in Bits /\ high \in Bits /\ 0 \in Bits BY OneIsBit DEF Bits
<1>3. n \in Byte
  <2> HIDE DEF low, high
  <2>1. 16 * (a \div 16 + 6 * high) + ((a % 16) + 6 * low) \in Int
    BY <1>2 DEF Byte, Bits
  <2>2. QED BY <2>1, Truncated
<1>4. /\ CY = 0 /\ P = 2 /\ AC = 4 /\ Z = 6 /\ S = 7
  BY DEF CY, P, AC, Z, S
<1> HIDE DEF low, high, n
<1>5. g1 \in Byte /\ Bit(g1, 6) = 0
  BY <1>2, <1>4, PutSets
<1> HIDE DEF g1
<1>6. g2 \in Byte /\ Bit(g2, 6) = 0 /\ Bit(g2, 7) = 0
  BY <1>2, <1>4, <1>5, PutSets
<1> HIDE DEF g2
<1>7. g3 \in Byte /\ Bit(g3, 6) = 0 /\ Bit(g3, 7) = 0 /\ Bit(g3, 2) = 0
  BY <1>2, <1>4, <1>6, PutSets
<1> HIDE DEF g3
<1>8. g4 \in Byte /\ Bit(g4, 6) = 0 /\ Bit(g4, 7) = 0 /\ Bit(g4, 2) = 0
  BY <1>2, <1>4, <1>7, PutSets
<1> HIDE DEF g4
<1>9. /\ g5 \in Byte /\ Bit(g5, 6) = 0 /\ Bit(g5, 7) = 0 /\ Bit(g5, 2) = 0
      /\ Bit(g5, 0) = high
  BY <1>2, <1>4, <1>8, PutSets
<1> HIDE DEF g5
<1>10. \A i \in 0 .. 7 : Bit(g5, i) \in 0 .. 1 BY <1>9, FlagIs DEF Bits
<1>11. g5 = ByBits(Bit(g5, 0), Bit(g5, 1), 0, Bit(g5, 3), Bit(g5, 4), Bit(g5, 5), 0, 0)
  BY <1>9, MadeOfBits
<1>12. g5 \in 0 .. 59 BY <1>10, <1>11 DEF ByBits
<1>13. g5 + flag_zsp(n) \in Byte
  <2>1. flag_zsp(n) \in 0 .. 196 BY <1>3, ZspRange
  <2>2. QED BY <1>12, <2>1 DEF Byte
<1>14. Bit(g5 + flag_zsp(n), CY) = high
  <2>1. PICK k \in Nat : flag_zsp(n) = 4 * k BY <1>3, ZspEven
  <2>2. Bit(g5, 0) = g5 % 2 /\ Bit(g5 + 4 * k, 0) = (g5 + 4 * k) % 2
    BY <1>12, Weights DEF Bit
  <2>3. (g5 + 4 * k) % 2 = g5 % 2 BY <1>12
  <2>4. QED BY <1>4, <1>9, <2>1, <2>2, <2>3
<1>15. QED BY <1>1, <1>3, <1>13, <1>14 DEF IsResult, high

\* The half carry of a result can be read back.
LEMMA HalfOfResult == ASSUME NEW n \in Byte, NEW cy \in Bits, NEW ac \in Bits
                      PROVE  Bit(Result(n, cy, ac).f, AC) = ac
<1> DEFINE z0 == One(n = 0)
           s0 == n \div 128
           p0 == One(tbl_par(n % 16) + tbl_par(n \div 16) # 1)
           g == cy + 16 * ac + (64 * z0 + 128 * s0 + 4 * p0)
<1>1. z0 \in Bits /\ p0 \in Bits BY OneIsBit
<1>2. s0 \in Bits BY DEF Byte, Bits
<1>3. Result(n, cy, ac).f = g BY DEF Result, flag_zsp
<1> HIDE DEF z0, s0, p0
<1>4. HasBits(g, cy, 0, p0, 0, ac, 0, z0, s0)
  BY <1>1, <1>2 DEF HasBits, ByBits, Bits
<1> HIDE DEF g
<1>5. QED BY <1>3, <1>4, BitsFound DEF AC

\* The decimal adjust of the sum of two decimal numbers, 10 * ah + al and
\* 10 * vh + vl with the four bits of a digit each, is their decimal sum with
\* its carry, except where the upper digits make 9 and the lower ones 10 to 15:
\* there cpu_8080.c looks at the upper digit before the lower one carries into
\* it, and gives an upper digit of 10 without a carry.
THEOREM DaaDecimal ==
  ASSUME NEW ah \in 0 .. 9, NEW al \in 0 .. 9, NEW vh \in 0 .. 9, NEW vl \in 0 .. 9,
         NEW g \in Byte
  PROVE  LET sum == add(16 * ah + al, g, 16 * vh + vl)
             res == daa(sum.val, sum.f)
         IN IF ah + vh = 9 /\ al + vl \in 10 .. 15
            THEN res.val \div 16 = 10 /\ Bit(res.f, CY) = 0
            ELSE /\ res.val \div 16 \in 0 .. 9 /\ res.val % 16 \in 0 .. 9
                 /\ 100 * Bit(res.f, CY) + 10 * (res.val \div 16) + (res.val % 16)
                      = (10 * ah + al) + (10 * vh + vl)
<1> DEFINE a == 16 * ah + al
           v == 16 * vh + vl
           h == ah + vh
           l == al + vl
           n == AsByte(a + v)
           cy == One(n < a)
           ac == One(n % 16 < a % 16)
           sum == add(a, g, v)
           low == One(n % 16 > 9 \/ ac = 1)
           high == One(n \div 16 > 9 \/ cy = 1)
           res == daa(sum.val, sum.f)
<1>1. a \in Byte /\ v \in Byte BY DEF Byte
<1>2. /\ sum.val = n /\ sum.f = Result(n, cy, ac).f /\ n \in Byte
      /\ cy \in Bits /\ ac \in Bits
  <2>1. sum = Result(n, cy, ac) BY DEF add
  <2>2. n \in Byte BY <1>1, Truncated DEF Byte
  <2>3. cy \in Bits /\ ac \in Bits BY OneIsBit
  <2>4. QED BY <2>1, <2>2, <2>3 DEF Result
<1>3. Bit(sum.f, CY) = cy /\ Bit(sum.f, AC) = ac
  <2> HIDE DEF n, cy, ac, sum
  <2>1. Bit(sum.f, CY) = cy BY <1>2, CarryOfResult
  <2>2. Bit(sum.f, AC) = ac BY <1>2, HalfOfResult
  <2>3. QED BY <2>1, <2>2
<1>4. sum.f \in Byte
  <2>1. IsResult(Result(n, cy, ac)) BY <1>2, ResultIs
  <2>2. QED BY <1>2, <2>1 DEF IsResult
<1>5. /\ res.val = AsByte(16 * (n \div 16 + 6 * high) + ((n % 16) + 6 * low))
      /\ Bit(res.f, CY) = high
  <2> HIDE DEF n, cy, ac, sum
  <2>1. Bit(res.f, CY) = high BY <1>2, <1>3, <1>4, DaaIs
  <2>2. res.val = AsByte(16 * (n \div 16 + 6 * high) + ((n % 16) + 6 * low))
    BY <1>2, <1>3 DEF daa
  <2>3. QED BY <2>1, <2>2
<1> DEFINE k == One(l >= 16)
           e == One(h + k >= 16)
           m == h + k - 16 * e
           d == l - 16 * k
<1>6. /\ h \in 0 .. 18 /\ l \in 0 .. 18 /\ k \in 0 .. 1 /\ e \in 0 .. 1
      /\ m \in 0 .. 15 /\ d \in 0 .. 15 /\ a + v = 16 * m + d + 256 * e
      /\ 16 * m + d \in 0 .. 255 /\ a + v \in 0 .. 511
  <2>1. h \in 0 .. 18 /\ l \in 0 .. 18 OBVIOUS
  <2>2. k = (IF l >= 16 THEN 1 ELSE 0) /\ e = IF h + k >= 16 THEN 1 ELSE 0
    BY DEF One
  <2>3. a + v = 16 * h + l OBVIOUS
  <2> HIDE DEF h, l, k, e, a, v
  <2>4. QED BY <2>1, <2>2, <2>3
<1>7. /\ n = 16 * m + d /\ n \div 16 = m /\ n % 16 = d /\ cy = e
  <2>1. n + 256 * cy = a + v
    <3> HIDE DEF a, v
    <3>1. QED BY <1>1, CarryOfSum
  <2>2. n \in 0 .. 255 /\ cy \in 0 .. 1 BY <1>2 DEF Byte, Bits
  <2> HIDE DEF n, cy, m, d, e, a, v
  <2>3. n = 16 * m + d /\ cy = e BY <1>6, <2>1, <2>2
  <2>4. n \div 16 = m /\ n % 16 = d BY <1>6, <2>3
  <2>5. QED BY <2>3, <2>4
<1>8. ac = k
  <2>1. a % 16 = al OBVIOUS
  <2>2. d < al <=> l >= 16
    <3>1. k = (IF l >= 16 THEN 1 ELSE 0) BY DEF One
    <3> HIDE DEF k
    <3>2. QED BY <3>1
  <2> HIDE DEF n, a, d, l
  <2>3. n % 16 < a % 16 <=> l >= 16 BY <1>7, <2>1, <2>2
  <2>4. CASE l >= 16 BY <2>3, <2>4 DEF One
  <2>5. CASE ~ (l >= 16) BY <2>3, <2>5 DEF One
  <2>6. QED BY <2>4, <2>5
<1> DEFINE u == 16 * (m + 6 * high) + (d + 6 * low)
<1>9. res.val = (IF u < 256 THEN u ELSE u - 256) /\ Bit(res.f, CY) = high
  <2>1. low \in 0 .. 1 /\ high \in 0 .. 1 BY OneIsBit DEF Bits
  <2>2. res.val = AsByte(u) /\ Bit(res.f, CY) = high BY <1>5, <1>7
  <2> HIDE DEF low, high, m, d, res
  <2>3. u \in 0 .. 511 BY <1>6, <2>1
  <2> HIDE DEF u
  <2>4. QED BY <2>2, <2>3, Above
<1>10. /\ low = (IF l >= 10 THEN 1 ELSE 0) /\ high = (IF h + k >= 10 THEN 1 ELSE 0)
       /\ k = (IF l >= 16 THEN 1 ELSE 0) /\ e = IF h + k >= 16 THEN 1 ELSE 0
  <2>1. k = (IF l >= 16 THEN 1 ELSE 0) /\ e = IF h + k >= 16 THEN 1 ELSE 0
    BY DEF One
  <2>2. low = One(d > 9 \/ k = 1) /\ high = One(m > 9 \/ e = 1)
    <3> HIDE DEF n, ac, cy, d, m, k, e
    <3>1. QED BY <1>7, <1>8
  <2> HIDE DEF low, high, k, e, h, l
  <2>3. (d > 9 \/ k = 1) = (l >= 10) BY <1>6, <2>1
  <2>4. (m > 9 \/ e = 1) = (h + k >= 10) BY <1>6, <2>1
  <2> HIDE DEF m, d
  <2>5. QED BY <2>1, <2>2, <2>3, <2>4 DEF One
<1> HIDE DEF low, high, k, e, res, h, l
<1>11. CASE h = 9 /\ l \in 10 .. 15
  <2>1. u = 16 * 10 + (l - 10) /\ high = 0 BY <1>6, <1>10, <1>11
  <2>2. l - 10 \in 0 .. 5 BY <1>11
  <2> HIDE DEF u
  <2>3. res.val = 160 + (l - 10) /\ Bit(res.f, CY) = 0
    BY <1>9, <2>1, <2>2
  <2>4. res.val \div 16 = 10 BY <2>2, <2>3
  <2>5. QED BY <1>11, <2>3, <2>4 DEF h, l, res
<1>12. CASE ~(h = 9 /\ l \in 10 .. 15)
  <2> DEFINE units == IF l >= 10 THEN l - 10 ELSE l
             tens == IF l >= 10 THEN h + 1 ELSE h
             digit == IF tens >= 10 THEN tens - 10 ELSE tens
  <2>1. /\ units \in 0 .. 9 /\ digit \in 0 .. 9 /\ tens \in 0 .. 19
        /\ high = (IF tens >= 10 THEN 1 ELSE 0)
        /\ 10 * tens + units = 10 * h + l
    BY <1>6, <1>10, <1>12
  <2>2. res.val = 16 * digit + units
    BY <1>6, <1>9, <1>10, <1>12
  <2>3. 100 * high + 10 * digit + units = 10 * h + l BY <1>6, <2>1
  <2> HIDE DEF digit, units, tens
  <2>4. res.val \div 16 = digit /\ res.val % 16 = units BY <2>1, <2>2
  <2>5. 10 * h + l = (10 * ah + al) + (10 * vh + vl) BY DEF h, l
  <2>6. /\ res.val \div 16 \in 0 .. 9 /\ res.val % 16 \in 0 .. 9
        /\ 100 * Bit(res.f, CY) + 10 * (res.val \div 16) + (res.val % 16)
             = (10 * ah + al) + (10 * vh + vl)
    BY <1>9, <2>1, <2>3, <2>4, <2>5
  <2>7. QED BY <1>12, <2>6 DEF h, l, res
<1>13. QED BY <1>11, <1>12
-----------------------------------------------------------------------------
(* Words.                                                                   *)

Top == 65535   \* the last word

LEMMA TopIs == Top \in Nat /\ Top > 1
  BY DEF Top
LEMMA TopBytes == Top = 256 * 255 + 255
  BY DEF Top
LEMMA WordsAre == Word = 0 .. Top
  BY DEF Top, Word
LEMMA Truncation == Top + 1 = 65536 /\ \A n : AsWord(n) = n % (Top + 1)
  BY DEF Top, AsWord

\* Truncation of a number one word's length above or below the words.
LEMMA WordTruncated ==
  ASSUME NEW n \in Int
  PROVE  /\ AsWord(n) \in Word
         /\ 0 <= n /\ n <= Top => AsWord(n) = n
         /\ Top < n /\ n <= 2 * Top + 1 => AsWord(n) = n - (Top + 1)
         /\ n < 0 /\ n + Top >= -1 => AsWord(n) = n + (Top + 1)
<1>1. AsWord(n) = n % (Top + 1) BY Truncation
<1>2. n % (Top + 1) \in Word BY TopIs, WordsAre
<1>3. ASSUME 0 <= n, n <= Top PROVE n % (Top + 1) = n
  <2>1. n \in 0 .. (Top + 1) - 1 /\ (Top + 1) * 0 + n = n BY <1>3, TopIs
  <2>2. QED BY <2>1, TopIs, RemainderUnique
<1>4. ASSUME Top < n, n <= 2 * Top + 1 PROVE n % (Top + 1) = n - (Top + 1)
  <2>1. /\ n - (Top + 1) \in 0 .. (Top + 1) - 1
        /\ (Top + 1) * 1 + (n - (Top + 1)) = n
    BY <1>4, TopIs
  <2>2. QED BY <2>1, TopIs, RemainderUnique
<1>5. ASSUME n < 0, n + Top >= -1 PROVE n % (Top + 1) = n + (Top + 1)
  <2>1. /\ n + (Top + 1) \in 0 .. (Top + 1) - 1
        /\ (Top + 1) * (-1) + (n + (Top + 1)) = n
    BY <1>5, TopIs
  <2>2. QED BY <2>1, TopIs, RemainderUnique
<1>6. QED BY <1>1, <1>2, <1>3, <1>4, <1>5

LEMMA WordRange == ASSUME NEW w \in Word
                   PROVE  w \in Int /\ 0 <= w /\ w <= Top
  BY TopIs, WordsAre
LEMMA WordIsInt == ASSUME NEW w \in Word PROVE w \in Int
  BY WordRange
LEMMA AsWordIs == ASSUME NEW n \in Int PROVE AsWord(n) \in Word
  BY WordTruncated

\* A word and its two bytes, and the words next to it.
LEMMA WordParts == ASSUME NEW w \in Word
                   PROVE  /\ w \div 256 \in Byte /\ w % 256 \in Byte
                          /\ (w % 256) + 256 * (w \div 256) = w
<1>1. w \in Nat /\ w <= 256 * 255 + 255 BY WordRange, TopBytes
<1>2. QED BY <1>1 DEF Byte
LEMMA WordMade == ASSUME NEW hi \in Byte, NEW lo \in Byte
                  PROVE  256 * hi + lo \in Word /\ lo + 256 * hi \in Word
<1>1. hi \in Int /\ lo \in Int /\ 0 <= hi /\ hi <= 255 /\ 0 <= lo /\ lo <= 255
  BY DEF Byte
<1>2. /\ 256 * hi + lo \in Nat /\ 256 * hi + lo <= 256 * 255 + 255
      /\ lo + 256 * hi = 256 * hi + lo
  BY <1>1
<1>3. 256 * hi + lo <= Top BY <1>2, TopBytes
<1>4. QED BY <1>2, <1>3, TopIs, WordsAre
LEMMA WordDown == ASSUME NEW w \in Word
                  PROVE  /\ AsWord(w - 1) = AsWord(AsWord(w - 2) + 1)
                         /\ AsWord(AsWord(w - 2) + 2) = w
<1>1. w \in Int /\ 0 <= w /\ w <= Top BY WordRange
<1>2. CASE w >= 2
  <2>1. AsWord(w - 2) = w - 2 /\ AsWord(w) = w
    <3>1. w - 2 \in Int /\ 0 <= w - 2 /\ w - 2 <= Top BY <1>1, <1>2, TopIs
    <3>2. QED BY <1>1, <3>1, WordTruncated
  <2>2. w - 2 + 1 = w - 1 /\ w - 2 + 2 = w BY <1>1
  <2>3. QED BY <2>1, <2>2
<1>3. CASE w < 2
  <2>1. AsWord(w - 2) = w - 2 + (Top + 1)
    BY <1>1, <1>3, WordTruncated, TopIs, w - 2 \in Int
  <2>2. /\ w - 2 + (Top + 1) + 1 = w + Top /\ w - 2 + (Top + 1) + 2 = w + (Top + 1)
        /\ w + Top \in Int /\ w + (Top + 1) \in Int /\ w - 1 \in Int
    BY <1>1, TopIs
  <2>3. AsWord(w + (Top + 1)) = w
    BY <1>1, <1>3, <2>2, WordTruncated, TopIs
  <2>4. CASE w = 0
    <3>1. AsWord(w - 1) = Top /\ AsWord(w + Top) = Top
      BY <1>1, <2>2, <2>4, WordTruncated, TopIs
    <3>2. QED BY <2>1, <2>2, <2>3, <3>1
  <2>5. CASE w = 1
    <3>1. AsWord(w - 1) = 0 /\ AsWord(w + Top) = 0
      BY <1>1, <2>2, <2>5, WordTruncated, TopIs
    <3>2. QED BY <2>1, <2>2, <2>3, <3>1
  <2>6. QED BY <1>1, <1>3, <2>4, <2>5
<1>4. QED BY <1>1, <1>2, <1>3

\* DAD: the carry is that of the word, found by the same comparison; the other
\* flags stay.
THEOREM DadExact ==
  ASSUME NEW h \in Word, NEW v \in Word, NEW g \in Byte
  PROVE  LET res == dad(g, h, v)
         IN /\ res.val \in Word /\ res.f \in Byte
            /\ res.val + 65536 * Bit(res.f, CY) = h + v
            /\ \A i \in 1 .. 7 : Bit(res.f, i) = Bit(g, i)
<1> DEFINE sum == h + v
           n == AsWord(sum)
           cy == One(n < h)
<1>1. n \in Word /\ n + (Top + 1) * cy = sum
  <2>1. h \in Int /\ v \in Int /\ 0 <= h /\ 0 <= v /\ h <= Top /\ v <= Top
    BY WordRange
  <2>2. sum \in Int /\ 0 <= sum /\ sum <= 2 * Top + 1 /\ sum < h + (Top + 1) /\ h <= sum
    BY <2>1, TopIs
  <2> HIDE DEF sum
  <2>3. n \in Word BY <2>2, WordTruncated
  <2>4. CASE sum <= Top
    <3>1. n = sum BY <2>2, <2>4, WordTruncated
    <3>2. cy = 0 BY <2>1, <2>2, <3>1 DEF One
    <3>3. QED BY <2>2, <2>3, <3>1, <3>2, TopIs
  <2>5. CASE ~(sum <= Top)
    <3>1. Top < sum BY <2>2, <2>5, TopIs
    <3>2. n = sum - (Top + 1) BY <2>2, <3>1, WordTruncated
    <3>3. n < h BY <2>1, <2>2, <3>2, TopIs
    <3>4. cy = 1 BY <3>3 DEF One
    <3>5. QED BY <2>2, <2>3, <3>2, <3>4, TopIs
  <2>6. QED BY <2>4, <2>5
<1>2. cy \in Bits BY OneIsBit
<1>3. dad(g, h, v) = [val |-> n, f |-> Put(g, CY, cy)] BY DEF dad
<1> HIDE DEF n, cy, sum
<1>4. /\ Put(g, CY, cy) \in Byte
      /\ \A j \in 0 .. 7 : Bit(Put(g, CY, cy), j) = IF j = CY THEN cy ELSE Bit(g, j)
  BY <1>2, PutSets, CY \in 0 .. 7 DEF CY
<1>5. QED BY <1>1, <1>3, <1>4, Truncation DEF CY, sum

\* The same, for the types alone.
IsWordResult(res) == res.val \in Word /\ res.f \in Byte
LEMMA PutIs == ASSUME NEW g \in Byte, NEW i \in 0 .. 7, NEW b \in Bits
               PROVE  Put(g, i, b) \in Byte
  BY PutSets
LEMMA CarryIs == CY \in 0 .. 7 /\ 1 \in Bits /\ 0 \in Bits
  BY DEF CY, Bits
LEMMA CarrySet == ASSUME NEW g \in Byte
                  PROVE  Put(g, CY, 1) \in Byte /\ Put(g, CY, 1 - Bit(g, CY)) \in Byte
<1> DEFINE one == 1
           other == 1 - Bit(g, CY)
<1>1. Bit(g, CY) = 0 \/ Bit(g, CY) = 1 BY CarryIsBit DEF Bits
<1>2. one \in Bits /\ other \in Bits BY <1>1 DEF Bits
<1> HIDE DEF one, other
<1>3. Put(g, CY, one) \in Byte /\ Put(g, CY, other) \in Byte BY <1>2, CarryIs, PutIs
<1>4. QED BY <1>3 DEF one, other
LEMMA DadIs == ASSUME NEW h \in Word, NEW v \in Word, NEW g \in Byte
               PROVE  IsWordResult(dad(g, h, v))
<1>1. AsWord(h + v) \in Word BY AsWordIs, WordIsInt
<1>2. Put(g, CY, One(AsWord(h + v) < h)) \in Byte BY OneIsBit, PutIs, CarryIs
<1>3. QED BY <1>1, <1>2 DEF IsWordResult, dad
-----------------------------------------------------------------------------
(* The types of every instruction.                                          *)

Memory == [0 .. MemSize - 1 -> Byte]
RegisterFile == [Registers -> Byte]

LEMMA SizeIs == ASSUME CpuAssumption PROVE MemSize \in Nat \ {0}
  BY DEF CpuAssumption

LEMMA PlaceIs == ASSUME CpuAssumption, NEW a \in Int
                 PROVE  a % MemSize \in 0 .. MemSize - 1
  BY SizeIs

LEMMA StoredIs ==
  ASSUME CpuAssumption, NEW m \in Memory, NEW a \in Int, NEW v \in Byte
  PROVE  Stored(m, a, v) \in Memory
<1> DEFINE i == a % MemSize
<1>1. i \in 0 .. MemSize - 1 BY SizeIs
<1>2. Stored(m, a, v) = [m EXCEPT ![i] = v] BY DEF Stored
<1> HIDE DEF i
<1>3. QED BY <1>1, <1>2 DEF Memory

LEMMA LoadIs == ASSUME CpuAssumption, mem \in Memory, NEW a \in Int
                PROVE  load_8(a) \in Byte
<1> DEFINE i == a % MemSize
<1>1. i \in 0 .. MemSize - 1 BY SizeIs
<1>2. load_8(a) = mem[i] BY DEF load_8
<1> HIDE DEF i
<1>3. QED BY <1>1, <1>2 DEF Memory

\* The opcode, its fields and the operands behind it.
LEMMA OpIs == ASSUME CpuAssumption, mem \in Memory, pc \in Word PROVE op \in Byte
  BY LoadIs, WordIsInt DEF op
LEMMA ByteIs == ASSUME CpuAssumption, mem \in Memory, pc \in Word PROVE Byte2 \in Byte
<1>1. pc + 1 \in Int BY WordIsInt
<1>2. QED BY <1>1, LoadIs DEF Byte2
LEMMA WordIs == ASSUME CpuAssumption, mem \in Memory, pc \in Word PROVE Word2 \in Word
<1>1. pc + 2 \in Int BY WordIsInt
<1>2. load_8(pc + 2) \in Byte BY <1>1, LoadIs
<1>3. QED BY <1>2, ByteIs, WordMade DEF Word2
Middle(o) == (o \div 8) % 8
Last(o) == o % 8
LEMMA Octal == ASSUME NEW o \in Byte PROVE Middle(o) \in 0 .. 7 /\ Last(o) \in 0 .. 7
<1> DEFINE k == o \div 8
<1>1. k \in Nat BY DEF Byte
<1>2. o % 8 \in 0 .. 7 BY DEF Byte
<1> HIDE DEF k
<1>3. k % 8 \in 0 .. 7 BY <1>1
<1>4. QED BY <1>2, <1>3 DEF k, Middle, Last
LEMMA YIs == ASSUME CpuAssumption, mem \in Memory, pc \in Word PROVE y \in 0 .. 7
<1>1. Middle(op) \in 0 .. 7 BY OpIs, Octal
<1>2. y = Middle(op) BY DEF y, Middle
<1>3. QED BY <1>1, <1>2
LEMMA ZIs == ASSUME CpuAssumption, mem \in Memory, pc \in Word PROVE z \in 0 .. 7
<1>1. Last(op) \in 0 .. 7 BY OpIs, Octal
<1>2. z = Last(op) BY DEF z, Last
<1>3. QED BY <1>1, <1>2
LEMMA PIs == ASSUME CpuAssumption, mem \in Memory, pc \in Word PROVE p \in 0 .. 3
  BY YIs DEF p
LEMMA QIs == ASSUME CpuAssumption, mem \in Memory, pc \in Word PROVE q \in 0 .. 1
  BY YIs DEF q

LEMMA RegistersAre == /\ A \in Registers
                      /\ \A n \in 0 .. 7 : n # M => n \in Registers
                      /\ \A n \in 0 .. 2 : 2 * n \in Registers /\ 2 * n + 1 \in Registers
                      /\ 0 .. 5 \subseteq Registers
  BY DEF Registers, A, M

LEMMA PairIs == ASSUME r \in RegisterFile, sp \in Word, NEW n \in 0 .. 3
                PROVE  Pair(n) \in Word
<1>1. CASE n = 3 BY <1>1 DEF Pair
<1>2. CASE n # 3
  <2>1. n \in 0 .. 2 BY <1>2
  <2>2. r[2 * n] \in Byte /\ r[2 * n + 1] \in Byte BY <2>1, RegistersAre DEF RegisterFile
  <2>3. QED BY <1>2, <2>2, WordMade DEF Pair
<1>3. QED BY <1>1, <1>2

LEMMA WithPairIs == ASSUME r \in RegisterFile, NEW n \in 0 .. 2, NEW w \in Word
                    PROVE  WithPair(n, w) \in RegisterFile
  BY RegistersAre, WordParts DEF WithPair, RegisterFile

LEMMA OperandIs ==
  ASSUME CpuAssumption, mem \in Memory, r \in RegisterFile, sp \in Word, NEW n \in 0 .. 7
  PROVE  Operand(n) \in Byte
<1>1. CASE n = M
  <2>1. HL \in Int BY PairIs, WordIsInt DEF HL
  <2>2. QED BY <1>1, <2>1, LoadIs DEF Operand
<1>2. CASE n # M BY <1>2, RegistersAre DEF Operand, RegisterFile
<1>3. QED BY <1>1, <1>2

LEMMA SetOperandIs ==
  ASSUME CpuAssumption, mem \in Memory, r \in RegisterFile, sp \in Word,
         NEW n \in 0 .. 7, NEW v \in Byte, SetOperand(n, v)
  PROVE  mem' \in Memory /\ r' \in RegisterFile
<1>1. CASE n = M
  <2>1. HL \in Int BY PairIs, WordIsInt DEF HL
  <2>2. Stored(mem, HL, v) \in Memory BY <2>1, StoredIs
  <2>3. QED BY <1>1, <2>2 DEF SetOperand
<1>2. CASE n # M BY <1>2, RegistersAre DEF SetOperand, RegisterFile
<1>3. QED BY <1>1, <1>2

LEMMA SetPairIs ==
  ASSUME r \in RegisterFile, sp \in Word, NEW n \in 0 .. 3, NEW w \in Word, SetPair(n, w)
  PROVE  r' \in RegisterFile /\ sp' \in Word
<1>1. CASE n = 3 BY <1>1 DEF SetPair
<1>2. CASE n # 3
  <2>1. n \in 0 .. 2 BY <1>2
  <2>2. QED BY <1>2, <2>1, WithPairIs DEF SetPair
<1>3. QED BY <1>1, <1>2

LEMMA Beside == ASSUME sp \in Word
                PROVE  AsWord(sp - 1) \in Word /\ AsWord(sp - 2) \in Word
                       /\ AsWord(sp + 2) \in Word
<1>1. sp \in Int BY WordIsInt
<1>2. sp - 1 \in Int /\ sp - 2 \in Int /\ sp + 2 \in Int BY <1>1
<1>3. QED BY <1>2, AsWordIs

LEMMA PushedIs == ASSUME CpuAssumption, mem \in Memory, sp \in Word, NEW w \in Word
                  PROVE  Pushed(w) \in Memory
<1>1. w \div 256 \in Byte /\ w % 256 \in Byte BY WordParts
<1>2. AsWord(sp - 1) \in Int /\ AsWord(sp - 2) \in Int BY Beside, WordIsInt
<1>3. Stored(mem, AsWord(sp - 1), w \div 256) \in Memory BY <1>1, <1>2, StoredIs
<1>4. QED BY <1>1, <1>2, <1>3, StoredIs DEF Pushed

LEMMA PoppedIs == ASSUME CpuAssumption, mem \in Memory, sp \in Word
                  PROVE  Popped \in Word
<1>1. sp \in Int BY WordIsInt
<1>2. sp + 1 \in Int BY <1>1
<1>3. load_8(sp) \in Byte BY <1>1, LoadIs
<1>4. load_8(sp + 1) \in Byte BY <1>2, LoadIs
<1>5. QED BY <1>3, <1>4, WordMade DEF Popped

\* What Length(), Quiet and Goto() leave in their variables.
LEMMA LengthIs ==
  ASSUME pc \in Word, NEW n \in 0 .. 3, Length(n)
  PROVE  pc' \in Word /\ status' = status /\ prog' = prog
<1>1. pc + n \in Int BY WordIsInt
<1>2. QED BY <1>1, AsWordIs DEF Length

\* Every instruction keeps the types.
LEMMA StepTypes == ASSUME CpuAssumption, TypeOK, Step PROVE TypeOK'
<1>regs. r \in RegisterFile BY DEF TypeOK, RegisterFile
<1>flags. f \in Byte BY DEF TypeOK
<1>pc. pc \in Word BY DEF TypeOK
<1>sp. sp \in Word BY DEF TypeOK
<1>mem. mem \in Memory BY DEF TypeOK, Memory
<1>state. prog \in Guests /\ status \in {"run", "halt", "illegal"} BY DEF TypeOK
<1>ports. ins \in Seq(InBytes) /\ outs \in Seq(Byte) BY DEF TypeOK
<1>y. y \in 0 .. 7 BY <1>mem, <1>pc, YIs
<1>z. z \in 0 .. 7 BY <1>mem, <1>pc, ZIs
<1>p. p \in 0 .. 3 BY <1>mem, <1>pc, PIs
<1>q. q \in 0 .. 1 BY <1>mem, <1>pc, QIs
<1>byte. Byte2 \in Byte BY <1>mem, <1>pc, ByteIs
<1>word. Word2 \in Word BY <1>mem, <1>pc, WordIs
<1>each. \A n \in Registers : r[n] \in Byte BY <1>regs DEF RegisterFile
<1>acc. r[A] \in Byte BY <1>each, RegistersAre
<1>set. \A v \in Byte : [r EXCEPT ![A] = v] \in RegisterFile
  BY <1>regs, RegistersAre DEF RegisterFile
<1>pair. \A n \in 0 .. 3 : Pair(n) \in Word BY <1>regs, <1>sp, PairIs
<1>hl. HL \in Word BY <1>pair, 2 \in 0 .. 3 DEF HL
<1>operand. \A n \in 0 .. 7 : Operand(n) \in Byte
  BY <1>regs, <1>sp, <1>mem, OperandIs
<1>setop. ASSUME NEW n \in 0 .. 7, NEW v \in Byte, SetOperand(n, v)
          PROVE  mem' \in Memory /\ r' \in RegisterFile
  BY <1>regs, <1>sp, <1>mem, <1>setop, SetOperandIs
<1>setpair. ASSUME NEW n \in 0 .. 3, NEW w \in Word, SetPair(n, w)
            PROVE  r' \in RegisterFile /\ sp' \in Word
  BY <1>regs, <1>sp, <1>setpair, SetPairIs
<1>withpair. \A n \in 0 .. 2, w \in Word : WithPair(n, w) \in RegisterFile
  BY <1>regs, WithPairIs
<1>load. \A a \in Int : load_8(a) \in Byte BY <1>mem, LoadIs
<1>loadw. \A w \in Word : load_8(w) \in Byte BY <1>load, WordIsInt
<1>store. ASSUME NEW a \in Word, NEW v \in Byte PROVE Stored(mem, a, v) \in Memory
  BY <1>mem, StoredIs, WordIsInt
<1>push. \A w \in Word : Pushed(w) \in Memory BY <1>mem, <1>sp, PushedIs
<1>pop. Popped \in Word BY <1>mem, <1>sp, PoppedIs
<1>down. AsWord(sp - 2) \in Word BY <1>sp, Beside
<1>up. AsWord(sp + 2) \in Word BY <1>sp, Beside
<1>next. \A n \in 0 .. 3 : AsWord(pc + n) \in Word
  <2>1. ASSUME NEW n \in 0 .. 3 PROVE pc + n \in Int BY <1>pc, WordIsInt
  <2>2. QED BY <2>1, AsWordIs
<1>few. 1 \in 0 .. 3 /\ 2 \in 0 .. 3 /\ 3 \in 0 .. 3 /\ 2 \in 0 .. 2 OBVIOUS
<1> DEFINE OtherTypes == /\ pc' \in Word /\ prog' \in Guests
                         /\ status' \in {"run", "halt", "illegal"}
           PortTypes == ins' \in Seq(InBytes) /\ outs' \in Seq(Byte)
<1>goal. SUFFICES /\ OtherTypes /\ PortTypes /\ r' \in RegisterFile /\ f' \in Byte
                  /\ sp' \in Word /\ mem' \in Memory
  BY DEF TypeOK, RegisterFile, Memory
<1>length. ASSUME NEW n \in 0 .. 3, Length(n) PROVE OtherTypes
  BY <1>pc, <1>state, <1>length, LengthIs
<1>noports. ASSUME UNCHANGED io PROVE PortTypes BY <1>ports, <1>noports DEF io
<1>quiet. ASSUME Quiet PROVE PortTypes /\ sp' \in Word
  BY <1>sp, <1>ports, <1>quiet DEF Quiet, io
<1>goto. ASSUME NEW w \in Word, Goto(w)
         PROVE  OtherTypes /\ PortTypes /\ r' \in RegisterFile /\ f' \in Byte
  BY <1>regs, <1>flags, <1>state, <1>ports, <1>goto DEF Goto, io
<1>stops. ASSUME pc' = AsWord(pc + 1), status' \in {"halt", "illegal"},
                 UNCHANGED <<r, f, sp, mem, prog, io>>
          PROVE  /\ OtherTypes /\ PortTypes /\ r' \in RegisterFile /\ f' \in Byte
                 /\ sp' \in Word /\ mem' \in Memory
  <2>1. AsWord(pc + 1) \in Word BY <1>next, <1>few
  <2>2. OtherTypes BY <1>state, <1>stops, <2>1
  <2>3. QED BY <1>regs, <1>flags, <1>sp, <1>mem, <1>ports, <1>stops, <2>2 DEF io
<1> HIDE DEF OtherTypes, PortTypes
<1>20. CASE Nop
  <2>1. OtherTypes /\ PortTypes /\ sp' \in Word
    BY <1>length, <1>quiet, <1>few, <1>20 DEF Nop
  <2>2. QED BY <1>regs, <1>flags, <1>mem, <1>20, <2>1 DEF Nop
<1>21. CASE Lxi
  <2>1. OtherTypes /\ PortTypes BY <1>length, <1>noports, <1>few, <1>21 DEF Lxi
  <2>2. r' \in RegisterFile /\ sp' \in Word BY <1>p, <1>word, <1>setpair, <1>21 DEF Lxi
  <2>3. QED BY <1>flags, <1>mem, <1>21, <2>1, <2>2 DEF Lxi
<1>22. CASE Dad
  <2> DEFINE res == dad(f, HL, Pair(p))
  <2>1. OtherTypes /\ PortTypes /\ sp' \in Word
    BY <1>length, <1>quiet, <1>few, <1>22 DEF Dad
  <2>2. Pair(p) \in Word BY <1>p, <1>pair
  <2>3. IsWordResult(res) BY <1>flags, <1>hl, <2>2, DadIs
  <2>4. r' = WithPair(2, res.val) /\ f' = res.f /\ UNCHANGED mem BY <1>22 DEF Dad
  <2> HIDE DEF res
  <2>5. res.val \in Word /\ res.f \in Byte BY <2>3 DEF IsWordResult
  <2>6. WithPair(2, res.val) \in RegisterFile BY <1>withpair, <1>few, <2>5
  <2>7. QED BY <1>mem, <2>1, <2>4, <2>5, <2>6
<1>23. CASE Indirect
  <2>1. OtherTypes /\ PortTypes /\ sp' \in Word
    BY <1>length, <1>quiet, <1>few, <1>23 DEF Indirect
  <2>2. Pair(p) \in Word BY <1>p, <1>pair
  <2>3. Stored(mem, Pair(p), r[A]) \in Memory BY <1>acc, <1>store, <2>2
  <2>4. [r EXCEPT ![A] = load_8(Pair(p))] \in RegisterFile BY <1>loadw, <1>set, <2>2
  <2>5. r' \in RegisterFile /\ mem' \in Memory
    BY <1>regs, <1>mem, <1>23, <2>3, <2>4 DEF Indirect
  <2>6. QED BY <1>flags, <1>23, <2>1, <2>5 DEF Indirect
<1>24. CASE Direct
  <2>1. OtherTypes /\ PortTypes /\ sp' \in Word
    BY <1>length, <1>quiet, <1>few, <1>24 DEF Direct
  <2>2. Word2 \in Int /\ Word2 + 1 \in Int BY <1>word, WordIsInt
  <2>3. r[4] \in Byte /\ r[5] \in Byte BY <1>each DEF Registers
  <2>4. Stored(mem, Word2, r[5]) \in Memory /\ Stored(mem, Word2, r[A]) \in Memory
    BY <1>acc, <1>word, <1>store, <2>3
  <2>5. Stored(Stored(mem, Word2, r[5]), Word2 + 1, r[4]) \in Memory
    BY <2>2, <2>3, <2>4, StoredIs
  <2>6. load_8(Word2) \in Byte /\ load_8(Word2 + 1) \in Byte BY <1>load, <2>2
  <2>7. WithPair(2, load_8(Word2) + 256 * load_8(Word2 + 1)) \in RegisterFile
    BY <1>withpair, <1>few, <2>6, WordMade
  <2>8. [r EXCEPT ![A] = load_8(Word2)] \in RegisterFile BY <1>set, <2>6
  <2>9. CASE y = 4 BY <1>regs, <1>flags, <1>24, <2>1, <2>5, <2>9 DEF Direct
  <2>10. CASE y = 5 BY <1>mem, <1>flags, <1>24, <2>1, <2>7, <2>10 DEF Direct
  <2>11. CASE y = 6 BY <1>regs, <1>flags, <1>24, <2>1, <2>4, <2>11 DEF Direct
  <2>12. CASE y = 7
    <3>1. r' = [r EXCEPT ![A] = load_8(Word2)] /\ mem' = mem BY <1>24, <2>12 DEF Direct
    <3>2. f' = f BY <1>24 DEF Direct
    <3>3. QED BY <1>mem, <1>flags, <2>1, <2>8, <3>1, <3>2
  <2>13. y \div 2 >= 2 BY <1>24 DEF Direct, p
  <2>14. y \in {4, 5, 6, 7} BY <1>y, <2>13
  <2>15. QED BY <2>9, <2>10, <2>11, <2>12, <2>14
<1>25. CASE InxDcx
  <2>1. OtherTypes /\ PortTypes BY <1>length, <1>noports, <1>few, <1>25 DEF InxDcx
  <2>2. Pair(p) \in Int BY <1>p, <1>pair, WordIsInt
  <2>3. Pair(p) + 1 - 2 * q \in Int BY <1>q, <2>2
  <2>4. AsWord(Pair(p) + 1 - 2 * q) \in Word BY <2>3, AsWordIs
  <2>5. r' \in RegisterFile /\ sp' \in Word BY <1>p, <1>setpair, <1>25, <2>4 DEF InxDcx
  <2>6. QED BY <1>flags, <1>mem, <1>25, <2>1, <2>5 DEF InxDcx
<1>26. CASE InrDcr
  <2> DEFINE v == Operand(y)
             res == IF z = 4 THEN inr(f, v) ELSE dcr(f, v)
  <2>1. OtherTypes /\ PortTypes /\ sp' \in Word
    BY <1>length, <1>quiet, <1>few, <1>26 DEF InrDcr
  <2>2. SetOperand(y, res.val) /\ f' = res.f BY <1>26 DEF InrDcr
  <2>3. v \in Byte BY <1>y, <1>operand
  <2> HIDE DEF v
  <2>4. IsResult(inr(f, v)) /\ IsResult(dcr(f, v)) BY <1>flags, <2>3, SumsAre
  <2>5. IsResult(res) BY <2>4
  <2> HIDE DEF res
  <2>6. res.val \in Byte /\ res.f \in Byte BY <2>5 DEF IsResult
  <2>7. QED BY <1>y, <1>setop, <2>1, <2>2, <2>6
<1>27. CASE Mvi
  <2>1. OtherTypes /\ PortTypes /\ sp' \in Word
    BY <1>length, <1>quiet, <1>few, <1>27 DEF Mvi
  <2>2. r' \in RegisterFile /\ mem' \in Memory BY <1>y, <1>byte, <1>setop, <1>27 DEF Mvi
  <2>3. QED BY <1>flags, <1>27, <2>1, <2>2 DEF Mvi
<1>28. CASE Accumulator
  <2> DEFINE a == r[A]
             res == CASE y < 4 -> Rotate(y, a, f)
                      [] y = 4 -> daa(a, f)
                      [] y = 5 -> [val |-> 255 - a, f |-> f]
                      [] y = 6 -> [val |-> a, f |-> Put(f, CY, 1)]
                      [] y = 7 -> [val |-> a, f |-> Put(f, CY, 1 - Bit(f, CY))]
  <2>1. OtherTypes /\ PortTypes /\ sp' \in Word
    BY <1>length, <1>quiet, <1>few, <1>28 DEF Accumulator
  <2>2. r' = [r EXCEPT ![A] = res.val] /\ f' = res.f /\ UNCHANGED mem
    BY <1>28 DEF Accumulator
  <2>3. a \in Byte BY <1>acc
  <2> HIDE DEF a
  <2>4. Put(f, CY, 1) \in Byte BY <1>flags, CarrySet
  <2>5. Put(f, CY, 1 - Bit(f, CY)) \in Byte BY <1>flags, CarrySet
  <2>6. 255 - a \in Byte BY <2>3 DEF Byte
  <2>7. ASSUME y < 4 PROVE IsResult(Rotate(y, a, f))
    <3>1. y \in 0 .. 3 BY <1>y, <2>7
    <3>2. QED BY <1>flags, <2>3, <3>1, RotateIs
  <2>8. IsResult(daa(a, f)) BY <1>flags, <2>3, DaaIs
  <2>9. y \in 0 .. 3 \/ y = 4 \/ y = 5 \/ y = 6 \/ y = 7 BY <1>y
  <2>10. IsResult(res)
    <3>1. CASE y \in 0 .. 3 BY <2>7, <3>1
    <3>2. CASE y = 4 BY <2>8, <3>2
    <3>3. CASE y = 5 BY <1>flags, <2>6, <3>3 DEF IsResult
    <3>4. CASE y = 6 BY <2>3, <2>4, <3>4 DEF IsResult
    <3>5. CASE y = 7 BY <2>3, <2>5, <3>5 DEF IsResult
    <3>6. QED BY <2>9, <3>1, <3>2, <3>3, <3>4, <3>5
  <2> HIDE DEF res
  <2>11. res.val \in Byte /\ res.f \in Byte BY <2>10 DEF IsResult
  <2>12. [r EXCEPT ![A] = res.val] \in RegisterFile BY <1>set, <2>11
  <2>13. QED BY <1>mem, <2>1, <2>2, <2>11, <2>12
<1>29. CASE Mov
  <2>1. OtherTypes /\ PortTypes /\ sp' \in Word
    BY <1>length, <1>quiet, <1>few, <1>29 DEF Mov
  <2>2. Operand(z) \in Byte BY <1>z, <1>operand
  <2>3. r' \in RegisterFile /\ mem' \in Memory BY <1>y, <1>setop, <1>29, <2>2 DEF Mov
  <2>4. QED BY <1>flags, <1>29, <2>1, <2>3 DEF Mov
<1>30. CASE Halt BY <1>stops, <1>30 DEF Halt
<1>31. ASSUME NEW v \in Byte, NEW n \in 0 .. 3, Arithmetic(v, n)
       PROVE  /\ OtherTypes /\ PortTypes /\ r' \in RegisterFile /\ f' \in Byte
              /\ sp' \in Word /\ mem' \in Memory
  <2> DEFINE res == Operation(y, r[A], f, v)
  <2>1. OtherTypes /\ PortTypes /\ sp' \in Word
    BY <1>length, <1>quiet, <1>31 DEF Arithmetic
  <2>2. IsResult(res) BY <1>y, <1>acc, <1>flags, <1>31, OperationIs
  <2>3. r' = [r EXCEPT ![A] = res.val] /\ f' = res.f /\ UNCHANGED mem
    BY <1>31 DEF Arithmetic
  <2> HIDE DEF res
  <2>4. res.val \in Byte /\ res.f \in Byte BY <2>2 DEF IsResult
  <2>5. [r EXCEPT ![A] = res.val] \in RegisterFile BY <1>set, <2>4
  <2>6. QED BY <1>mem, <2>1, <2>3, <2>4, <2>5
<1>32. CASE AluRegister
  <2>1. Operand(z) \in Byte BY <1>z, <1>operand
  <2>2. QED BY <1>few, <1>31, <1>32, <2>1 DEF AluRegister
<1>33. CASE AluImmediate BY <1>byte, <1>few, <1>31, <1>33 DEF AluImmediate
<1>34. CASE ret
  <2>1. \/ Goto(Popped) /\ sp' = AsWord(sp + 2)
        \/ Goto(AsWord(pc + 1)) /\ UNCHANGED sp
    BY <1>34 DEF ret
  <2>2. AsWord(pc + 1) \in Word BY <1>next, <1>few
  <2>3. sp' \in Word BY <1>sp, <1>up, <2>1
  <2>4. OtherTypes /\ PortTypes /\ r' \in RegisterFile /\ f' \in Byte
    BY <1>pop, <1>goto, <2>1, <2>2
  <2>5. QED BY <1>mem, <1>34, <2>3, <2>4 DEF ret
<1>35. CASE jmp
  <2>1. Goto(Word2) \/ Goto(AsWord(pc + 3)) BY <1>35 DEF jmp
  <2>2. AsWord(pc + 3) \in Word BY <1>next, <1>few
  <2>3. OtherTypes /\ PortTypes /\ r' \in RegisterFile /\ f' \in Byte
    BY <1>word, <1>goto, <2>1, <2>2
  <2>4. QED BY <1>sp, <1>mem, <1>35, <2>3 DEF jmp
<1>36. CASE call
  <2>1. \/ mem' = Pushed(AsWord(pc + 3)) /\ sp' = AsWord(sp - 2) /\ Goto(Word2)
        \/ Goto(AsWord(pc + 3)) /\ UNCHANGED <<sp, mem>>
    BY <1>36 DEF call
  <2>2. AsWord(pc + 3) \in Word BY <1>next, <1>few
  <2>3. Pushed(AsWord(pc + 3)) \in Memory BY <1>push, <2>2
  <2>4. OtherTypes /\ PortTypes /\ r' \in RegisterFile /\ f' \in Byte
    BY <1>word, <1>goto, <2>1, <2>2
  <2>5. QED BY <1>mem, <1>sp, <1>down, <2>1, <2>3, <2>4
<1>37. CASE rst
  <2>1. 8 * y \in Word
    <3>1. 8 * y \in Nat /\ 8 * y <= 255 BY <1>y
    <3>2. 255 <= Top BY TopBytes
    <3>3. QED BY <3>1, <3>2, TopIs, WordsAre
  <2>2. AsWord(pc + 1) \in Word BY <1>next, <1>few
  <2>3. mem' \in Memory /\ sp' \in Word BY <1>push, <1>down, <1>37, <2>2 DEF rst
  <2>4. QED BY <1>goto, <1>37, <2>1, <2>3 DEF rst
<1>38. CASE Push
  <2> DEFINE w == IF p = 3 THEN 256 * r[A] + Put(f, 1, 1) ELSE Pair(p)
  <2>1. OtherTypes /\ PortTypes BY <1>length, <1>noports, <1>few, <1>38 DEF Push
  <2>2. Put(f, 1, 1) \in Byte BY <1>flags, PutIs, 1 \in 0 .. 7, CarryIs
  <2>3. 256 * r[A] + Put(f, 1, 1) \in Word BY <1>acc, <2>2, WordMade
  <2>4. w \in Word BY <1>p, <1>pair, <2>3
  <2>5. mem' = Pushed(w) /\ sp' = AsWord(sp - 2) /\ UNCHANGED <<r, f>>
    BY <1>38 DEF Push
  <2> HIDE DEF w
  <2>6. QED BY <1>regs, <1>flags, <1>push, <1>down, <2>1, <2>4, <2>5
<1>39. CASE Pop
  <2>1. OtherTypes BY <1>length, <1>few, <1>39 DEF Pop
  <2>2. PortTypes BY <1>noports, <1>39 DEF Pop
  <2>3. sp' \in Word /\ mem' \in Memory BY <1>up, <1>mem, <1>39 DEF Pop
  <2>4. Popped % 256 \in Byte /\ Popped \div 256 \in Byte BY <1>pop, WordParts
  <2>5. CASE p = 3
    <3>1. [r EXCEPT ![A] = Popped \div 256] \in RegisterFile BY <1>set, <2>4
    <3>2. r' = [r EXCEPT ![A] = Popped \div 256] /\ f' = Popped % 256
      BY <1>39, <2>5 DEF Pop
    <3>3. QED BY <2>1, <2>2, <2>3, <2>4, <3>1, <3>2
  <2>6. CASE p # 3
    <3>1. p \in 0 .. 2 BY <1>p, <2>6
    <3>2. WithPair(p, Popped) \in RegisterFile BY <1>pop, <1>withpair, <3>1
    <3>3. r' = WithPair(p, Popped) /\ UNCHANGED f BY <1>39, <2>6 DEF Pop
    <3>4. QED BY <1>flags, <2>1, <2>2, <2>3, <3>2, <3>3
  <2>7. QED BY <2>5, <2>6
<1>40. CASE Out
  <2>1. OtherTypes BY <1>length, <1>few, <1>40 DEF Out
  <2>2. PortTypes
    <3>1. outs' = Append(outs, r[A]) /\ UNCHANGED ins BY <1>40 DEF Out
    <3>2. QED BY <1>acc, <1>ports, <3>1 DEF PortTypes
  <2>3. QED BY <1>regs, <1>flags, <1>sp, <1>mem, <1>40, <2>1, <2>2 DEF Out
<1>41. CASE \E v \in InBytes : In(v)
  <2>1. PICK v \in InBytes : In(v) BY <1>41
  <2>2. v \in Byte BY DEF CpuAssumption
  <2>3. OtherTypes BY <1>length, <1>few, <2>1 DEF In
  <2>4. PortTypes
    <3>1. ins' = Append(ins, v) /\ outs' = outs BY <2>1 DEF In
    <3>2. QED BY <1>ports, <2>1, <3>1 DEF PortTypes
  <2>5. r' \in RegisterFile
    <3>1. r' = [r EXCEPT ![A] = v] BY <2>1 DEF In
    <3>2. [r EXCEPT ![A] = v] \in RegisterFile BY <1>set, <2>2
    <3>3. QED BY <3>1, <3>2
  <2>6. QED BY <1>flags, <1>sp, <1>mem, <2>1, <2>3, <2>4, <2>5 DEF In
<1>42. CASE Xthl
  <2>1. OtherTypes /\ PortTypes /\ sp' \in Word
    BY <1>length, <1>quiet, <1>few, <1>42 DEF Xthl
  <2>2. sp + 1 \in Int BY <1>sp, WordIsInt
  <2>3. r[4] \in Byte /\ r[5] \in Byte BY <1>each DEF Registers
  <2>4. Stored(mem, sp, r[5]) \in Memory BY <1>sp, <1>store, <2>3
  <2>5. Stored(Stored(mem, sp, r[5]), sp + 1, r[4]) \in Memory
    BY <2>2, <2>3, <2>4, StoredIs
  <2>6. WithPair(2, Popped) \in RegisterFile BY <1>pop, <1>withpair, <1>few
  <2>7. QED BY <1>flags, <1>42, <2>1, <2>5, <2>6 DEF Xthl
<1>43. CASE Pchl
  <2>1. OtherTypes /\ PortTypes /\ r' \in RegisterFile /\ f' \in Byte
    BY <1>hl, <1>goto, <1>43 DEF Pchl
  <2>2. QED BY <1>sp, <1>mem, <1>43, <2>1 DEF Pchl
<1>44. CASE Xchg
  <2>1. OtherTypes /\ PortTypes /\ sp' \in Word
    BY <1>length, <1>quiet, <1>few, <1>44 DEF Xchg
  <2>2. r' \in RegisterFile
    <3>1. 2 \in Registers /\ 3 \in Registers /\ 4 \in Registers /\ 5 \in Registers
      BY DEF Registers
    <3>2. r' = [r EXCEPT ![2] = r[4], ![3] = r[5], ![4] = r[2], ![5] = r[3]]
      BY <1>44 DEF Xchg
    <3>3. QED BY <1>regs, <3>1, <3>2 DEF RegisterFile
  <2>3. QED BY <1>flags, <1>mem, <1>44, <2>1, <2>2 DEF Xchg
<1>45. CASE Sphl
  <2>1. OtherTypes /\ PortTypes BY <1>length, <1>noports, <1>few, <1>45 DEF Sphl
  <2>2. QED BY <1>regs, <1>flags, <1>mem, <1>hl, <1>45, <2>1 DEF Sphl
<1>46. CASE Illegal BY <1>stops, <1>46 DEF Illegal
<1>47. QED
  BY <1>20, <1>21, <1>22, <1>23, <1>24, <1>25, <1>26, <1>27, <1>28, <1>29, <1>30,
     <1>32, <1>33, <1>34, <1>35, <1>36, <1>37, <1>38, <1>39, <1>40, <1>41, <1>42,
     <1>43, <1>44, <1>45, <1>46
  DEF Step

\* Whatever the guest does, the registers, the flags and the memory stay bytes,
\* and the program counter and the stack pointer words: no instruction of
\* cpu_8080.c carries out of the part of an integer it writes to.
THEOREM TypeCorrect == Spec => []TypeOK
<1>1. Init => TypeOK
  <2> SUFFICES ASSUME Init PROVE TypeOK OBVIOUS
  <2>1. r \in [Registers -> Byte] /\ f \in Byte BY DEF Init, Byte
  <2>2. 0 \in Word /\ Top \in Word BY TopIs, WordsAre
  <2>3. pc \in Word /\ sp \in Word BY <2>2 DEF Init, Top
  <2>4. mem \in [0 .. MemSize - 1 -> Byte] /\ prog \in Guests
    BY CpuAssumption DEF Init, CpuAssumption
  <2>5. /\ status \in {"run", "halt", "illegal"}
        /\ ins \in Seq(InBytes) /\ outs \in Seq(Byte)
    BY DEF Init
  <2>6. QED BY <2>1, <2>3, <2>4, <2>5 DEF TypeOK
<1>2. TypeOK /\ [Next]_vars => TypeOK'
  <2>1. ASSUME TypeOK, UNCHANGED vars PROVE TypeOK'
    BY <2>1 DEF TypeOK, vars, io
  <2>2. QED BY <2>1, StepTypes, CpuAssumption DEF Next
<1>3. QED BY <1>1, <1>2, PTL DEF Spec
-----------------------------------------------------------------------------
(* The stack.                                                               *)

\* A word and the next one are at neighbouring places of the memory, also where
\* the words or the mirrors of the memory wrap.
LEMMA Neighbours ==
  ASSUME CpuAssumption, MemSize > 1, NEW w \in Word
  PROVE  /\ AsWord(w + 1) % MemSize = (w + 1) % MemSize
         /\ w % MemSize # (w + 1) % MemSize
<1>1. w \in Nat /\ w <= Top BY WordRange
<1>2. MemSize \in Nat \ {0} BY SizeIs
<1>3. AsWord(w + 1) % MemSize = (w + 1) % MemSize
  <2>1. CASE w = Top
    <3>1. AsWord(w + 1) = 0 BY <1>1, <2>1, WordTruncated, TopIs
    <3>2. (w + 1) % MemSize = 0 BY <2>1, Truncation DEF CpuAssumption, Mirrored
    <3>3. 0 % MemSize = 0 BY <1>2
    <3>4. QED BY <3>1, <3>2, <3>3
  <2>2. CASE w # Top
    <3>1. AsWord(w + 1) = w + 1 BY <1>1, <2>2, WordTruncated, TopIs
    <3>2. QED BY <3>1
  <2>3. QED BY <2>1, <2>2
<1>4. w % MemSize # (w + 1) % MemSize BY <1>1, <1>2, RemainderNeighbour, Zenon
<1>5. QED BY <1>3, <1>4

\* What is pushed is popped.
LEMMA PushPop ==
  ASSUME CpuAssumption, MemSize > 1, mem \in Memory, sp \in Word, NEW w \in Word,
         mem' = Pushed(w), sp' = AsWord(sp - 2)
  PROVE  Popped' = w /\ AsWord(sp' + 2) = sp
<1> DEFINE t == AsWord(sp - 2)
           i == t % MemSize
           j == AsWord(sp - 1) % MemSize
           lo == w % 256
           hi == w \div 256
<1>1. t \in Word /\ t \in Int /\ AsWord(sp - 1) \in Int
  BY Beside, WordIsInt
<1>2. AsWord(sp - 1) = AsWord(t + 1) /\ AsWord(t + 2) = sp BY WordDown
<1>3. j = (t + 1) % MemSize /\ i # j
  <2> HIDE DEF t
  <2>1. /\ AsWord(t + 1) % MemSize = (t + 1) % MemSize
        /\ t % MemSize # (t + 1) % MemSize
    BY <1>1, Neighbours, Zenon
  <2>2. AsWord(sp - 1) % MemSize = (t + 1) % MemSize BY <1>2, <2>1, Zenon
  <2>3. QED BY <2>1, <2>2, Zenon
<1>4. i \in 0 .. MemSize - 1 /\ j \in 0 .. MemSize - 1 BY <1>1, PlaceIs
<1>5. mem' = [[mem EXCEPT ![j] = hi] EXCEPT ![i] = lo] BY DEF Pushed, Stored
<1>6. Popped' = mem'[i] + 256 * mem'[j]
  <2>1. Popped' = mem'[sp' % MemSize] + 256 * mem'[(sp' + 1) % MemSize]
    BY DEF Popped, load_8
  <2>2. sp' = t OBVIOUS
  <2> HIDE DEF t
  <2>3. QED BY <1>3, <2>1, <2>2
<1>7. lo + 256 * hi = w BY WordParts
<1> HIDE DEF i, j, lo, hi
<1>8. mem'[i] = lo /\ mem'[j] = hi BY <1>3, <1>4, <1>5 DEF Memory
<1>9. QED BY <1>2, <1>6, <1>7, <1>8

\* What an instruction puts on the stack the matching one takes off again:
\* call() and RST leave the address of the instruction behind them where ret()
\* looks for it, PUSH a register pair where POP does, and the stack pointer that
\* ret() and POP give is the one before; whatever the stack pointer is, 0 and 1
\* included, and however the memory is mirrored.
StackIsKept ==
  /\ call /\ sp' # sp => Popped' = AsWord(pc + 3) /\ AsWord(sp' + 2) = sp
  /\ rst => Popped' = AsWord(pc + 1) /\ AsWord(sp' + 2) = sp
  /\ Push /\ p # 3 => Popped' = Pair(p) /\ AsWord(sp' + 2) = sp

THEOREM StackKept ==
  ASSUME MemSize > 1
  PROVE  Spec => [][StackIsKept]_vars
<1>1. ASSUME TypeOK, Next PROVE StackIsKept
  <2>1. mem \in Memory /\ sp \in Word /\ pc \in Word /\ r \in RegisterFile
    BY <1>1 DEF TypeOK, Memory, RegisterFile
  <2>2. AsWord(pc + 3) \in Word /\ AsWord(pc + 1) \in Word
    <3>1. pc + 3 \in Int /\ pc + 1 \in Int BY <2>1, WordIsInt
    <3>2. QED BY <3>1, AsWordIs
  <2>3. Pair(p) \in Word BY <2>1, CpuAssumption, PIs, PairIs
  <2>4. ASSUME NEW w \in Word, mem' = Pushed(w), sp' = AsWord(sp - 2)
        PROVE  Popped' = w /\ AsWord(sp' + 2) = sp
    BY <2>1, <2>4, CpuAssumption, PushPop
  <2>5. ASSUME call, sp' # sp PROVE Popped' = AsWord(pc + 3) /\ AsWord(sp' + 2) = sp
    <3>1. mem' = Pushed(AsWord(pc + 3)) /\ sp' = AsWord(sp - 2) BY <2>5 DEF call
    <3>2. QED BY <2>2, <2>4, <3>1
  <2>6. ASSUME rst PROVE Popped' = AsWord(pc + 1) /\ AsWord(sp' + 2) = sp
    <3>1. mem' = Pushed(AsWord(pc + 1)) /\ sp' = AsWord(sp - 2) BY <2>6 DEF rst
    <3>2. QED BY <2>2, <2>4, <3>1
  <2>7. ASSUME Push, p # 3 PROVE Popped' = Pair(p) /\ AsWord(sp' + 2) = sp
    <3>1. mem' = Pushed(Pair(p)) /\ sp' = AsWord(sp - 2) BY <2>7 DEF Push
    <3>2. QED BY <2>3, <2>4, <3>1
  <2>8. QED BY <2>5, <2>6, <2>7 DEF StackIsKept
<1>2. TypeOK /\ [Next]_vars => [StackIsKept]_vars BY <1>1
<1>3. QED BY <1>2, TypeCorrect, PTL DEF Spec
=============================================================================
