------------------------------ MODULE Cpu8080 ------------------------------
(***************************************************************************)
(* The 8080 of cpu_8080.c: cpu_8080_reset(), then cpu_8080_step() in the   *)
(* loop of boot() until it returns something else than 0.  One action is   *)
(* one instruction.  The switch over 256 opcodes is decoded by the fields  *)
(* of the opcode: xx yyy zzz.  Memory and ports are the callbacks of       *)
(* machine.c; the guest's input and output are kept as sequences.          *)
(***************************************************************************)
EXTENDS Alu8080, Sequences

CONSTANTS
  MemSize,   \* bytes of memory: 65536; higher addresses are mirrored
  Guests,    \* names of the programs that may be booted
  Programs,  \* for each, what boot() leaves in the memory
  InBytes,   \* what port input may return
  MaxIns     \* bound on the number of inputs

\* Addresses wrap where a mirror of the memory ends.
Mirrored == 65536 % MemSize = 0

ASSUME CpuAssumption ==
  /\ MemSize \in Nat \ {0} /\ Mirrored
  /\ Programs \in [Guests -> [0 .. MemSize - 1 -> Byte]]
  /\ InBytes \subseteq Byte
  /\ MaxIns \in Nat

VARIABLES
  r,       \* b, c, d, e, h, l and a, by their number in the opcode
  f,       \* the flag byte
  pc, sp,
  mem,
  status,  \* "run", or why the loop of boot() ended: "halt", "illegal"
  prog,    \* name of the program that was booted
  ins, outs   \* bytes read by IN and written by OUT

io == <<ins, outs>>
vars == <<r, f, pc, sp, mem, status, prog, io>>

A == 7   \* number of the accumulator
M == 6   \* as an operand: the memory at HL
Registers == 0 .. 5 \cup {A}

\* cpu_8080_reset(), after boot() has loaded the guest.
Init == /\ r = [n \in Registers |-> 0]
        /\ f = 0 /\ pc = 0 /\ sp = 65535
        /\ prog \in Guests /\ mem = Programs[prog]
        /\ status = "run"
        /\ ins = << >> /\ outs = << >>
-----------------------------------------------------------------------------
load_8(a) == mem[a % MemSize]
Stored(m, a, v) == [m EXCEPT ![a % MemSize] = v]

op == load_8(pc)
x == op \div 64
y == (op \div 8) % 8
z == op % 8
p == y \div 2
q == y % 2
Byte2 == load_8(pc + 1)
Word2 == Byte2 + 256 * load_8(pc + 2)

\* Register pairs: BC, DE, HL, SP.
Pair(n) == IF n = 3 THEN sp ELSE 256 * r[2 * n] + r[2 * n + 1]
HL == Pair(2)
WithPair(n, w) == [r EXCEPT ![2 * n] = w \div 256, ![2 * n + 1] = w % 256]
SetPair(n, w) == IF n = 3 THEN sp' = w /\ UNCHANGED r
                 ELSE r' = WithPair(n, w) /\ UNCHANGED sp

\* A register or the memory at HL, as source and as destination.
Operand(n) == IF n = M THEN load_8(HL) ELSE r[n]
SetOperand(n, v) == IF n = M THEN mem' = Stored(mem, HL, v) /\ UNCHANGED r
                    ELSE r' = [r EXCEPT ![n] = v] /\ UNCHANGED mem

Runs == status = "run"
Length(n) == pc' = AsWord(pc + n) /\ UNCHANGED <<status, prog>>
Quiet == UNCHANGED <<sp, io>>      \* no stack, no ports

\* Conditions: NZ, Z, NC, C, PO, PE, P, M.
Condition(n) == Bit(f, << Z, CY, P, S >>[1 + n \div 2]) = n % 2

\* The stack: the high byte at the higher address.
\* Mutant: the bytes in the other order.
PushedLowFirst(w) == Stored(Stored(mem, AsWord(sp - 1), w % 256),
                            AsWord(sp - 2), w \div 256)
Pushed(w) == Stored(Stored(mem, AsWord(sp - 1), w \div 256),
                    AsWord(sp - 2), w % 256)
Popped == load_8(sp) + 256 * load_8(sp + 1)
-----------------------------------------------------------------------------
(* Opcodes 00 to 3f.                                                        *)

Nop == /\ op \in {0, 243, 251}      \* NOP, DI, EI
       /\ Length(1) /\ Quiet /\ UNCHANGED <<r, f, mem>>
Lxi == /\ x = 0 /\ z = 1 /\ q = 0
       /\ SetPair(p, Word2)
       /\ Length(3) /\ UNCHANGED <<f, mem, io>>
Dad == /\ x = 0 /\ z = 1 /\ q = 1
       /\ LET sum == dad(f, HL, Pair(p))
          IN r' = WithPair(2, sum.val) /\ f' = sum.f
       /\ Length(1) /\ Quiet /\ UNCHANGED mem
\* STAX, LDAX by BC or DE.
Indirect == /\ x = 0 /\ z = 2 /\ p < 2
            /\ IF q = 0
               THEN mem' = Stored(mem, Pair(p), r[A]) /\ UNCHANGED r
               ELSE r' = [r EXCEPT ![A] = load_8(Pair(p))] /\ UNCHANGED mem
            /\ Length(1) /\ Quiet /\ UNCHANGED f
\* SHLD, LHLD, STA, LDA.
Direct ==
  /\ x = 0 /\ z = 2 /\ p >= 2
  /\ CASE y = 4 -> /\ mem' = Stored(Stored(mem, Word2, r[5]), Word2 + 1, r[4])
                   /\ UNCHANGED r
       [] y = 5 -> /\ r' = WithPair(2, load_8(Word2) + 256 * load_8(Word2 + 1))
                   /\ UNCHANGED mem
       [] y = 6 -> mem' = Stored(mem, Word2, r[A]) /\ UNCHANGED r
       [] y = 7 -> r' = [r EXCEPT ![A] = load_8(Word2)] /\ UNCHANGED mem
  /\ Length(3) /\ Quiet /\ UNCHANGED f
\* INX, DCX: no flags.
InxDcx == /\ x = 0 /\ z = 3
          /\ SetPair(p, AsWord(Pair(p) + 1 - 2 * q))
          /\ Length(1) /\ UNCHANGED <<f, mem, io>>
InrDcr == /\ x = 0 /\ z \in {4, 5}
          /\ LET res == IF z = 4 THEN inr(f, Operand(y)) ELSE dcr(f, Operand(y))
             IN SetOperand(y, res.val) /\ f' = res.f
          /\ Length(1) /\ Quiet
Mvi == /\ x = 0 /\ z = 6
       /\ SetOperand(y, Byte2)
       /\ Length(2) /\ Quiet /\ UNCHANGED f
\* RLC, RRC, RAL, RAR, DAA, CMA, STC, CMC.
Accumulator ==
  /\ x = 0 /\ z = 7
  /\ LET res == CASE y < 4 -> Rotate(y, r[A], f)
                  [] y = 4 -> daa(r[A], f)
                  [] y = 5 -> [val |-> 255 - r[A], f |-> f]
                  [] y = 6 -> [val |-> r[A], f |-> Put(f, CY, 1)]
                  [] y = 7 -> [val |-> r[A], f |-> Put(f, CY, 1 - Bit(f, CY))]
     IN r' = [r EXCEPT ![A] = res.val] /\ f' = res.f
  /\ Length(1) /\ Quiet /\ UNCHANGED mem
-----------------------------------------------------------------------------
(* Opcodes 40 to bf.                                                        *)

Mov == /\ x = 1 /\ op # 118
       /\ SetOperand(y, Operand(z))
       /\ Length(1) /\ Quiet /\ UNCHANGED f
\* HALT: the step returns 1 and boot() leaves its loop.
Halt == /\ op = 118
        /\ status' = "halt"
        /\ pc' = AsWord(pc + 1)
        /\ UNCHANGED <<r, f, sp, mem, prog, io>>
Arithmetic(v, length) ==
  /\ LET res == Operation(y, r[A], f, v)
     IN r' = [r EXCEPT ![A] = res.val] /\ f' = res.f
  /\ Length(length) /\ Quiet /\ UNCHANGED mem
AluRegister == x = 2 /\ Arithmetic(Operand(z), 1)
AluImmediate == x = 3 /\ z = 6 /\ Arithmetic(Byte2, 2)
-----------------------------------------------------------------------------
(* Opcodes c0 to ff.                                                        *)

Goto(w) == pc' = w /\ UNCHANGED <<r, f, status, prog, io>>
ret == /\ op = 201 \/ (x = 3 /\ z = 0)
       /\ IF op = 201 \/ Condition(y)
          THEN Goto(Popped) /\ sp' = AsWord(sp + 2)
          ELSE Goto(AsWord(pc + 1)) /\ UNCHANGED sp
       /\ UNCHANGED mem
jmp == /\ op = 195 \/ (x = 3 /\ z = 2)
       /\ Goto(IF op = 195 \/ Condition(y) THEN Word2 ELSE AsWord(pc + 3))
       /\ UNCHANGED <<sp, mem>>
\* The target is read before the return address is stored.
call == /\ op = 205 \/ (x = 3 /\ z = 4)
        /\ IF op = 205 \/ Condition(y)
           THEN /\ mem' = Pushed(AsWord(pc + 3)) /\ sp' = AsWord(sp - 2)
                /\ Goto(Word2)
           ELSE Goto(AsWord(pc + 3)) /\ UNCHANGED <<sp, mem>>
rst == /\ x = 3 /\ z = 7
       /\ mem' = Pushed(AsWord(pc + 1)) /\ sp' = AsWord(sp - 2)
       /\ Goto(8 * y)
\* PUSH; PUSH PSW sets bit 1 of the flags.
Push == /\ x = 3 /\ z = 5 /\ q = 0
        /\ mem' = Pushed(IF p = 3 THEN 256 * r[A] + Put(f, 1, 1) ELSE Pair(p))
        /\ sp' = AsWord(sp - 2)
        /\ Length(1) /\ UNCHANGED <<r, f, io>>
Pop == /\ x = 3 /\ z = 1 /\ q = 0
       /\ IF p = 3
          THEN f' = Popped % 256 /\ r' = [r EXCEPT ![A] = Popped \div 256]
          ELSE r' = WithPair(p, Popped) /\ UNCHANGED f
       /\ sp' = AsWord(sp + 2)
       /\ Length(1) /\ UNCHANGED <<mem, io>>
\* Ports: out() and in() of machine.c.
Out == /\ op = 211
       /\ outs' = Append(outs, r[A])
       /\ Length(2) /\ UNCHANGED <<r, f, sp, mem, ins>>
In(v) == /\ op = 219
         /\ Len(ins) < MaxIns
         /\ ins' = Append(ins, v)
         /\ r' = [r EXCEPT ![A] = v]
         /\ Length(2) /\ UNCHANGED <<f, sp, mem, outs>>
Xthl == /\ op = 227
        /\ mem' = Stored(Stored(mem, sp, r[5]), sp + 1, r[4])
        /\ r' = WithPair(2, Popped)
        /\ Length(1) /\ Quiet /\ UNCHANGED f
Pchl == op = 233 /\ Goto(HL) /\ UNCHANGED <<sp, mem>>
Xchg == /\ op = 235
        /\ r' = [r EXCEPT ![2] = r[4], ![3] = r[5], ![4] = r[2], ![5] = r[3]]
        /\ Length(1) /\ Quiet /\ UNCHANGED <<f, mem>>
Sphl == /\ op = 249
        /\ sp' = HL
        /\ Length(1) /\ UNCHANGED <<r, f, mem, io>>

\* The twelve opcodes without a case: boot() leaves its loop.
Illegal == /\ \/ x = 0 /\ z = 0 /\ y # 0
              \/ op \in {203, 217, 221, 237, 253}
           /\ status' = "illegal"
           /\ pc' = AsWord(pc + 1)
           /\ UNCHANGED <<r, f, sp, mem, prog, io>>

Step == /\ Runs
        /\ \/ Nop \/ Lxi \/ Dad \/ Indirect \/ Direct \/ InxDcx \/ InrDcr \/ Mvi
           \/ Accumulator \/ Mov \/ Halt \/ AluRegister \/ AluImmediate
           \/ ret \/ jmp \/ call \/ rst \/ Push \/ Pop \/ Out
           \/ Xthl \/ Pchl \/ Xchg \/ Sphl \/ Illegal
           \/ \E v \in InBytes : In(v)
Next == Step

Spec == Init /\ [][Next]_vars
-----------------------------------------------------------------------------
\* Registers stay bytes and pointers stay words, through every wrap.
TypeOK == /\ r \in [Registers -> Byte] /\ f \in Byte
          /\ pc \in Word /\ sp \in Word
          /\ mem \in [0 .. MemSize - 1 -> Byte] /\ prog \in Guests
          /\ status \in {"run", "halt", "illegal"}
          /\ ins \in Seq(InBytes) /\ outs \in Seq(Byte)
=============================================================================
