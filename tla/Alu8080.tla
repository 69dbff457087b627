------------------------------ MODULE Alu8080 ------------------------------
(***************************************************************************)
(* The arithmetic helpers of cpu_8080.c: each takes the accumulator, an    *)
(* operand and the flag byte and gives a result and a new flag byte.       *)
(***************************************************************************)
EXTENDS Integers

Byte == 0 .. 255
Word == 0 .. 65535
AsByte(n) == n % 256
AsWord(n) == n % 65536

Weight(i) == << 1, 2, 4, 8, 16, 32, 64, 128 >>[i + 1]
Bit(v, i) == (v \div Weight(i)) % 2
One(test) == IF test THEN 1 ELSE 0

\* F_CY, F_P, F_AC, F_Z, F_S: the places of the flags in `f'.
CY == 0
P  == 2
AC == 4
Z  == 6
S  == 7

\* `f |= mask', `f &= ~mask' for one flag.
Put(f, i, bit) == f + (bit - Bit(f, i)) * Weight(i)

\* tbl_par and flag_zsp(): zero, sign and even parity of a result.
tbl_par(n) == (1 + Bit(n, 0) + Bit(n, 1) + Bit(n, 2) + Bit(n, 3)) % 2
flag_zsp(r) == 64 * One(r = 0) + 128 * (r \div 128)
               + 4 * One(tbl_par(r % 16) + tbl_par(r \div 16) # 1)

\* A result with its flags.
Result(r, cy, ac) == [val |-> r, f |-> cy + 16 * ac + flag_zsp(r)]

\* inr() and dcr() keep the carry.
inr(f, v) == LET r == AsByte(v + 1) IN Result(r, Bit(f, CY), One(r % 16 = 0))
dcr(f, v) == LET r == AsByte(v - 1) IN Result(r, Bit(f, CY), One(r % 16 = 15))

\* dad(): hl and val are words; only the carry changes.
dad(f, hl, v) == LET r == AsWord(hl + v) IN [val |-> r, f |-> Put(f, CY, One(r < hl))]

add(a, f, v) == LET r == AsByte(a + v)
                IN Result(r, One(r < a), One(r % 16 < a % 16))
\* Mutant: the carry in is not part of the comparison.
AdcCarryOfSum(a, f, v) == LET c == Bit(f, CY)
                              r == AsByte(a + v + c)
                          IN Result(r, One(r < a), One(r % 16 < (a % 16) + c))
adc(a, f, v) == LET c == Bit(f, CY)
                    r == AsByte(a + v + c)
                IN Result(r, One(r < a + c), One(r % 16 < (a % 16) + c))
sub(a, f, v) == LET r == AsByte(a - v)
                IN Result(r, One(r > a), One(r % 16 > a % 16))
sbb(a, f, v) == LET c == Bit(f, CY)
                    r == AsByte(a - v - c)
                IN Result(r, One(r > a - c), One(r % 16 > (a % 16) - c))

\* `&' of two bytes, bit by bit; `^' has the bits of one of them, `|' those of
\* either.
Both(x, y, i) == Weight(i) * Bit(x, i) * Bit(y, i)
Conjunction(x, y) == Both(x, y, 0) + Both(x, y, 1) + Both(x, y, 2) + Both(x, y, 3)
                     + Both(x, y, 4) + Both(x, y, 5) + Both(x, y, 6) + Both(x, y, 7)
ana(a, f, v) == Result(Conjunction(a, v), 0, 1)
xra(a, f, v) == Result(a + v - 2 * Conjunction(a, v), 0, 0)
ora(a, f, v) == Result(a + v - Conjunction(a, v), 0, 0)

\* The eight operations, in the order of the opcodes; the eighth is CMP, a
\* sub() whose result is dropped.
Operation(k, a, f, v) ==
  CASE k = 0 -> add(a, f, v) [] k = 1 -> adc(a, f, v)
    [] k = 2 -> sub(a, f, v) [] k = 3 -> sbb(a, f, v)
    [] k = 4 -> ana(a, f, v) [] k = 5 -> xra(a, f, v)
    [] k = 6 -> ora(a, f, v) [] k = 7 -> [sub(a, f, v) EXCEPT !.val = a]

\* RLC, RRC, RAL, RAR: the bit that leaves becomes the carry; the one that
\* enters is that bit or the old carry.
Rotate(k, a, f) ==
  LET out == IF k % 2 = 0 THEN a \div 128 ELSE a % 2
      into == IF k < 2 THEN out ELSE Bit(f, CY)
  IN [val |-> IF k % 2 = 0 THEN AsByte(2 * a) + into ELSE 128 * into + a \div 2,
      f |-> Put(f, CY, out)]

\* Mutant: the half carry of the addition is not looked at.
DaaByDigit(a, f) ==
  LET adjustLow == a % 16 > 9
      adjustHigh == a \div 16 > 9 \/ Bit(f, CY) = 1
      r == AsByte(a + 6 * One(adjustLow) + 96 * One(adjustHigh))
  IN [val |-> r, f |-> 16 * One(adjustLow) + One(adjustHigh) + flag_zsp(r)]
\* Mutant: the flags of the sum are not cleared.
DaaKeepsFlags(a, f) ==
  LET adjustLow == a % 16 > 9 \/ Bit(f, AC) = 1
      adjustHigh == a \div 16 > 9 \/ Bit(f, CY) = 1
      r == AsByte(a + 6 * One(adjustLow) + 96 * One(adjustHigh))
  IN [val |-> r,
      f |-> Put(Put(f, AC, One(adjustLow)), CY, One(adjustHigh)) + flag_zsp(r)]
\* DAA.  The upper digit is adjusted by its old value and the old carry; what
\* the adjusted lower digit carries into it comes afterwards.
daa(a, f) ==
  LET adjustLow == a % 16 > 9 \/ Bit(f, AC) = 1
      adjustHigh == a \div 16 > 9 \/ Bit(f, CY) = 1
      low == (a % 16) + 6 * One(adjustLow)
      high == a \div 16 + 6 * One(adjustHigh)
      r == AsByte(16 * high + low)
      kept == Put(Put(Put(f, Z, 0), S, 0), P, 0)
  IN [val |-> r,
      f |-> Put(Put(kept, AC, One(adjustLow)), CY, One(adjustHigh)) + flag_zsp(r)]
=============================================================================
