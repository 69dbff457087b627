----------------------------- MODULE MCCpu8080 -----------------------------
(***************************************************************************)
(* Guests of a few instructions in 128 bytes of memory, the rest filled     *)
(* with HALT.  Each reads its operands from a port, computes, and writes   *)
(* its results to a port; the properties compare results with operands.    *)
(***************************************************************************)
EXTENDS Cpu8080

Image(code) == [a \in 0 .. MemSize - 1 |-> IF a < Len(code) THEN code[a + 1] ELSE 118]

IN_ == <<219, 0>>
OUT_ == <<211, 0>>

\* Two words, low byte first, in BC and DE.
ReadWords == IN_ \o <<79>> \o IN_ \o <<71>> \o IN_ \o <<95>> \o IN_ \o <<87>>

\* DAD D; then the same sum by ADD and ADC; the carries by SBB A and ACI.
SumCode == ReadWords \o <<96, 105, 25, 245>>                     \* MOV H,B; MOV L,C; DAD D; PUSH PSW
           \o <<121, 131>> \o OUT_ \o <<120, 138>> \o OUT_       \* MOV A,C; ADD E; MOV A,B; ADC D
           \o <<159>> \o OUT_                                    \* SBB A
           \o <<125>> \o OUT_ \o <<124>> \o OUT_                 \* MOV A,L; MOV A,H
           \o <<241, 62, 0, 206, 0>> \o OUT_                     \* POP PSW; MVI A,0; ACI 0

\* SUB and SBB; the difference added to the subtrahend again.
DifferenceCode == ReadWords \o <<121, 147, 111>> \o OUT_         \* MOV A,C; SUB E; MOV L,A
                  \o <<120, 154, 103>> \o OUT_                   \* MOV A,B; SBB D; MOV H,A
                  \o <<62, 0, 23>> \o OUT_                       \* MVI A,0; RAL
                  \o <<235, 25, 125>> \o OUT_ \o <<124>> \o OUT_ \* XCHG; DAD D; MOV A,L; MOV A,H

\* Multiply by adding in a loop: MOV B,A; IN; MOV C,A; MVI A,0;
\* ADD C; DCR B; JNZ.
ProductCode == IN_ \o <<71>> \o IN_ \o <<79, 62, 0, 129, 5, 194, 8, 0>> \o OUT_

\* MOV B,A; IN; CMP B; CZ 14; CC 18; CNC 22; HALT; each subroutine writes one
\* byte, and returns by RET, by RC or by RNC.
CompareCode == IN_ \o <<71>> \o IN_ \o <<184, 204, 16, 0, 220, 21, 0, 212, 26, 0, 118>>
               \o <<62, 0>> \o OUT_ \o <<201>>
               \o <<62, 1>> \o OUT_ \o <<216>>
               \o <<62, 2>> \o OUT_ \o <<208>>

\* A, flags, B and HL before and after a subroutine that saves everything,
\* and changes everything.
ShowState == OUT_ \o <<245, 227, 125>> \o OUT_ \o <<227, 241, 112>>    \* PUSH PSW; XTHL; MOV A,L; XTHL; POP PSW; MOV M,B
CallCode == IN_ \o <<71>> \o IN_ \o <<128, 33, 100, 0>>        \* MOV B,A; IN; ADD B; LXI H,100
            \o ShowState \o <<205, 64, 0>> \o ShowState \o <<58, 100, 0>> \o OUT_ \o <<118>>
SubCode == <<245, 197, 213, 229, 175, 33, 0, 1, 41, 4, 27, 225, 209, 193, 241, 201>>
              \* PUSH PSW, B, D, H; XRA A; LXI H,256; DAD H; INR B; DCX D; POPs; RET
CallImage == [a \in 0 .. MemSize - 1 |->
                IF a \in 64 .. 79 THEN SubCode[a - 63] ELSE Image(CallCode)[a]]

\* A word from BC to memory by SHLD and STA, back by LHLD, LDA, LDAX and STAX.
CopyCode == IN_ \o <<111>> \o IN_ \o <<103, 34, 100, 0>>       \* MOV L,A; IN; MOV H,A; SHLD 100
            \o <<33, 0, 0, 1, 100, 0, 10>> \o OUT_              \* LXI H,0; LXI B,100; LDAX B
            \o <<3, 10>> \o OUT_ \o <<17, 98, 0, 18>>           \* INX B; LDAX B; LXI D,98; STAX D
            \o <<58, 98, 0>> \o OUT_ \o <<42, 100, 0, 124>> \o OUT_ \* LDA 98; LHLD 100; MOV A,H
            \o <<125>> \o OUT_                                  \* MOV A,L

\* Decimal: MOV B,A; IN; ADD B; DAA; the carry by RAL.
DecimalCode == IN_ \o <<71>> \o IN_ \o <<128, 39>> \o OUT_ \o <<62, 0, 23>> \o OUT_

\* Any instruction, with any flags.
AnyCode(o) == <<49, 48, 0, 33, 57, 0>> \o IN_ \o <<71>> \o IN_ \o <<128, o, 58, 0>>

\* Guests 0 to 255 run that opcode; the others have names.
Sum == 256
Difference == 257
Product == 258
Compare == 259
Call == 260
Copy == 261
Decimal == 262
MCGuests == 0 .. 262
MCPrograms == [n \in MCGuests |->
  CASE n = Sum -> Image(SumCode)         [] n = Difference -> Image(DifferenceCode)
    [] n = Product -> Image(ProductCode) [] n = Compare -> Image(CompareCode)
    [] n = Call -> CallImage             [] n = Copy -> Image(CopyCode)
    [] n = Decimal -> Image(DecimalCode) [] OTHER -> Image(AnyCode(n))]
-----------------------------------------------------------------------------
Halted(n) == prog = n /\ status = "halt"
WordIn(i) == ins[i] + 256 * ins[i + 1]

\* Whatever the operands, dad() and the chain of add() and adc() give the same
\* word and the same carry, those of the sum: the comparisons of bytes that
\* cpu_8080.c derives the carry from are right with a carry in as well.
WordSum == Halted(Sum) =>
  LET s == WordIn(1) + WordIn(3)
      c == s \div 65536
  IN outs = << s % 256, AsWord(s) \div 256, 255 * c,
               s % 256, AsWord(s) \div 256, c >>

\* sub() and sbb() take a word from another with the right borrow, and dad()
\* undoes it.
WordDifference == Halted(Difference) =>
  LET d == WordIn(1) - WordIn(3)
  IN outs = << d % 256, AsWord(d) \div 256, One(d < 0), ins[1], ins[2] >>

\* A loop by dcr() and the zero flag runs as often as its count says (256 times
\* for 0).
LoopCount == Halted(Product) =>
  outs = << ((IF ins[1] = 0 THEN 256 ELSE ins[1]) * ins[2]) % 256 >>

\* After CMP the conditional calls and returns go by the order of the unsigned
\* bytes, and each returns behind its call.
OrderOfBytes == Halted(Compare) =>
  outs = (IF ins[2] = ins[1] THEN <<0>> ELSE << >>)
         \o (IF ins[2] < ins[1] THEN <<1>> ELSE <<2>>)

\* A subroutine that saves the register pairs returns with every register, the
\* flags and the stack as they were.
CallPreserves == Halted(Call) =>
  /\ outs[1] = AsByte(ins[1] + ins[2]) /\ outs[3] = outs[1]
  /\ outs[4] = outs[2]
  /\ outs[5] = ins[1]
  /\ sp = 65535

\* A word stored is found again, byte by byte and as a word: the low byte is at
\* the lower address for every instruction.
CopyIsFaithful == Halted(Copy) =>
  outs = << ins[1], ins[2], ins[2], ins[2], ins[1] >>

\* Two-digit decimal addition: the digits of d, and the sum that daa() gives.
IsDecimal(b) == b % 16 < 10 /\ b \div 16 < 10
Decimals(b) == 10 * (b \div 16) + (b % 16)
DecimalRight == outs = << LET s == (Decimals(ins[1]) + Decimals(ins[2])) % 100
                          IN 16 * (s \div 10) + (s % 10),
                          (Decimals(ins[1]) + Decimals(ins[2])) \div 100 >>
DecimalOperands == Halted(Decimal) /\ IsDecimal(ins[1]) /\ IsDecimal(ins[2])

\* What cpu_8080.c:390 calls DAA is the 8080's decimal adjust: after the addition
\* of two decimal numbers it gives their decimal sum and its carry.
DaaIsDecimal == DecimalOperands => DecimalRight

\* It does unless the upper digits add up to 9 and the lower ones to 10 .. 15,
\* where the lower digit's carry has yet to be added to the 9.  (From 16 on the
\* addition itself has carried it.)
DaaIsDecimalExceptNine ==
  DecimalOperands
  /\ ~ (ins[1] \div 16 + ins[2] \div 16 = 9 /\ (ins[1] % 16) + (ins[2] % 16) \in 10 .. 15)
    => DecimalRight

\* What the guests compute with words is right: sums and differences with their
\* carries and borrows, a product by a loop, and a word moved through memory.
WordArithmetic == WordSum /\ WordDifference /\ LoopCount /\ CopyIsFaithful

\* Conditional calls are taken by the order of the bytes, and calls leave
\* everything as it was.
CallsReturn == OrderOfBytes /\ CallPreserves

MCInBytes == {0, 1, 9, 128, 153, 255}
=============================================================================
