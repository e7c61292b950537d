------------------------------ MODULE Machine ------------------------------
(***************************************************************************)
(* The simulated MIPS processor: one instruction (machine/mipssim.cc), its *)
(* memory accesses through the page table (machine/translate.cc), and the  *)
(* way into the kernel and back (Machine::RaiseException, UpdatePC).       *)
(*                                                                         *)
(* A word has four bytes, as in the code, of ByteBits bits.  Words are     *)
(* unsigned numbers below 2^WordBits; Signed gives the int.  C's + - <<    *)
(* wrap, >> of an int copies its sign, as in the build (no -O).  A machine *)
(* state is a record, so that an instruction is a function of it.          *)
(***************************************************************************)
EXTENDS Integers, Sequences, FiniteSetsExt

CONSTANTS
    ByteBits,      \* 8 in the code
    PageSize,      \* bytes of a page
    NumPhysPages,  \* frames of mainMemory
    InitPageTable, \* the table the kernel installed: a sequence, vpn 0 first
    Instructions,  \* the instruction words a program may contain
    Values,        \* what the program's registers may hold when it is looked at
    MaxSteps       \* bound on the instructions executed

ASSUME MachineAssumption ==
    /\ ByteBits \in {2, 4, 8} /\ NumPhysPages \in Nat /\ MaxSteps \in Nat
    /\ PageSize \in Nat /\ PageSize > 0 /\ PageSize % 4 = 0
    /\ Values \subseteq 0..(2^(4 * ByteBits) - 1)
    /\ InitPageTable \in Seq([physicalPage : Nat, valid : BOOLEAN, readOnly : BOOLEAN,
                              use : BOOLEAN, dirty : BOOLEAN])

VARIABLES
    registers,     \* Machine::registers
    mainMemory,    \* bytes by physical address
    pageTable,     \* TranslationEntry of each virtual page
    exception,     \* what the last instruction raised
    stopped,       \* "no", or why the simulator died
    steps          \* instructions executed

machineVars == <<registers, mainMemory, pageTable, exception, stopped, steps>>

WordBits == 4 * ByteBits
HalfBits == 2 * ByteBits
Modulus  == 2^WordBits
SIGN_BIT == 2^(WordBits - 1)
Word     == 0..(Modulus - 1)
W(n)      == n % Modulus
Signed(x) == IF x < SIGN_BIT THEN x ELSE x - Modulus
Invert(x) == Modulus - 1 - x                        \* ~x
Ones(n)   == 2^n - 1                                \* a mask of n bits
SignExtend(x, bits) == IF x < 2^(bits - 1) THEN x ELSE W(x - 2^bits)
IndexToAddr(x) == W(x * 4)

(* The set of bits that are 1 in a word, and the word with such a set. *)
Bit           == 0..(WordBits - 1)
BitsOf(x)     == {k \in Bit : (x \div 2^k) % 2 = 1}
FromBits(S)   == Max({x \in Word : \A k \in Bit \ S : (x \div 2^k) % 2 = 0})
BitAnd(x, y)  == FromBits(BitsOf(x) \cap BitsOf(y))
BitOr(x, y)   == FromBits(BitsOf(x) \cup BitsOf(y))
BitXor(x, y)  == FromBits((BitsOf(x) \cup BitsOf(y)) \ (BitsOf(x) \cap BitsOf(y)))

(* Four general registers stand for 32; R31 is the last of them. *)
NumGPRegs == 4
GPReg     == 0..(NumGPRegs - 1)
R31          == 3
HiReg        == 4
LoReg        == 5
PCReg        == 6
NextPCReg    == 7
PrevPCReg    == 8
LoadReg      == 9
LoadValueReg == 10
BadVAddrReg  == 11
NumTotalRegs == 12

(* Registers have 5 bits in an instruction; BCOND has a code in rt instead. *)
ASSUME InstructionsAssumption ==
    \A raw \in Instructions :
        /\ raw.op \in 0..63 /\ raw.funct \in 0..63
        /\ raw.rs \in GPReg /\ raw.rd \in GPReg /\ (raw.op # 1 => raw.rt \in GPReg)
        /\ raw.sa \in Bit /\ raw.imm \in 0..(2^HalfBits - 1) /\ raw.index \in Nat

MemorySize == NumPhysPages * PageSize
SomeByte(a)  == (3 * a + 2) % 2^ByteBits           \* what the program was loaded with

State == [reg |-> registers, mem |-> mainMemory, pt |-> pageTable, exc |-> "NoException",
          stop |-> stopped]

(* AddrSpace::InitRegisters, and a program that has computed two values. *)
MachineInit ==
    /\ registers \in {[r \in 0..(NumTotalRegs - 1) |->
                         CASE r = 1 -> v [] r = 2 -> w [] r = NextPCReg -> 4 [] OTHER -> 0]
                       : v, w \in Values}
    /\ mainMemory = [a \in 0..(MemorySize - 1) |-> SomeByte(a)]
    /\ pageTable = InitPageTable
    /\ exception = "NoException"
    /\ stopped = "no"
    /\ steps = 0

-----------------------------------------------------------------------------
(* Memory.  The table is always the page table: no flavor of the kernel that *)
(* runs programs is built with a TLB.                                        *)

Entry(pt, addr) == pt[addr \div PageSize + 1]

Translate(pt, addr, size, writing) ==
    IF \/ addr % size # 0
       \/ addr \div PageSize >= Len(pt)                 THEN "AddressErrorException"
    ELSE IF ~Entry(pt, addr).valid                       THEN "PageFaultException"
    ELSE IF Entry(pt, addr).readOnly /\ writing          THEN "ReadOnlyException"
    ELSE IF Entry(pt, addr).physicalPage >= NumPhysPages THEN "BusErrorException"
    ELSE "NoException"

PhysAddr(pt, addr) == (Entry(pt, addr).physicalPage * PageSize) + (addr % PageSize)

(* Mistake: only a write counts as a use, and a write is not recorded. *)
TouchNoDirty(pt, addr, writing) == [pt EXCEPT ![addr \div PageSize + 1].use = TRUE]

(* The use and dirty bits that Translate sets when it succeeds. *)
Touch(pt, addr, writing) ==
    [pt EXCEPT ![addr \div PageSize + 1].use = TRUE,
               ![addr \div PageSize + 1].dirty = @ \/ writing]

(* Little endian.  ReadMem of one byte goes through a signed char. *)
ReadMem(s, addr, size) ==
    LET pa   == PhysAddr(s.pt, addr)
        B(j) == s.mem[pa + j] * 2^(ByteBits * j)
    IN  CASE size = 1 -> SignExtend(B(0), ByteBits)
          [] size = 2 -> B(0) + B(1)
          [] size = 4 -> B(0) + B(1) + B(2) + B(3)

WriteMem(s, addr, size, value) ==
    LET pa == PhysAddr(s.pt, addr)
    IN  [s EXCEPT !.pt = Touch(@, addr, TRUE),
                  !.mem = [a \in DOMAIN @ |-> IF a \in pa..(pa + size - 1)
                                              THEN (value \div 2^(ByteBits * (a - pa))) % 2^ByteBits
                                              ELSE @[a]]]

-----------------------------------------------------------------------------
(* The end of an instruction, and the way through the kernel. *)

DelayedLoad(reg, nextReg, nextValue) ==
    [reg EXCEPT ![reg[LoadReg]] = reg[LoadValueReg],
                ![LoadReg] = nextReg, ![LoadValueReg] = nextValue, ![0] = 0]

UpdatePC(reg) ==
    [reg EXCEPT ![PrevPCReg] = reg[PCReg], ![PCReg] = reg[NextPCReg],
                ![NextPCReg] = W(reg[NextPCReg] + 4)]

(* Mistake: a load still in progress is lost on the way into the kernel. *)
RaiseExceptionForgets(s, which, addr) ==
    [s EXCEPT !.exc = which,
              !.reg = UpdatePC([@ EXCEPT ![BadVAddrReg] = addr,
                                         ![LoadReg] = 0, ![LoadValueReg] = 0])]

(* ExceptionHandler does nothing for an exception that is no system call,    *)
(* and then moves on to the next instruction, as it does after a call.  What *)
(* a system call does, and the result it leaves in a register, is not here.  *)
RaiseException(s, which, addr) ==
    [s EXCEPT !.exc = which,
              !.reg = UpdatePC(DelayedLoad([@ EXCEPT ![BadVAddrReg] = addr], 0, 0))]

Complete(s, reg, nextLoadReg, nextLoadValue, pcAfter) ==
    LET r == DelayedLoad(reg, nextLoadReg, nextLoadValue)
    IN  [s EXCEPT !.reg = [r EXCEPT ![PrevPCReg] = r[PCReg], ![PCReg] = r[NextPCReg],
                                    ![NextPCReg] = pcAfter]]

Die(s, why) == [s EXCEPT !.stop = why]

-----------------------------------------------------------------------------
(* Decoding.  An instruction word is given by its fields: op (bits 31..26),  *)
(* rs, rt, rd, sa, funct, imm (the low half) and index (the low 26 bits).    *)

(* opTable: the codes of bits 31..26 that mean something.  48..51 and 56..59 *)
(* and the coprocessors 16..19 are OP_UNIMP, all the others OP_RES.          *)
opTable ==
    [o \in 0..63 |->
        CASE o <= 15 -> <<"SPECIAL", "BCOND", "J", "JAL", "BEQ", "BNE", "BLEZ", "BGTZ",
                          "ADDI", "ADDIU", "SLTI", "SLTIU", "ANDI", "ORI", "XORI", "LUI">>[o + 1]
          [] o \in 32..38 -> <<"LB", "LH", "LWL", "LW", "LBU", "LHU", "LWR">>[o - 31]
          [] o \in 40..43 -> <<"SB", "SH", "SWL", "SW">>[o - 39]
          [] o = 46 -> "SWR"
          [] o \in (16..19) \cup (48..51) \cup (56..59) -> "UNIMP"
          [] OTHER -> "RES"]

(* specialTable: the funct field of SPECIAL. *)
specialTable ==
    [f \in 0..63 |->
        CASE f <= 15 -> <<"SLL", "RES", "SRL", "SRA", "SLLV", "RES", "SRLV", "SRAV",
                          "JR", "JALR", "RES", "RES", "SYSCALL", "UNIMP", "RES", "RES">>[f + 1]
          [] f \in 16..19 -> <<"MFHI", "MTHI", "MFLO", "MTLO">>[f - 15]
          [] f \in 24..27 -> <<"MULT", "MULTU", "DIV", "DIVU">>[f - 23]
          [] f \in 32..39 -> <<"ADD", "ADDU", "SUB", "SUBU", "AND", "OR", "XOR", "NOR">>[f - 31]
          [] f \in 42..43 -> <<"SLT", "SLTU">>[f - 41]
          [] OTHER -> "RES"]

Decode(raw) ==
    LET code == opTable[raw.op] IN
    [rs |-> raw.rs, rt |-> raw.rt, rd |-> raw.rd,
     opCode |-> CASE code = "SPECIAL" -> specialTable[raw.funct]
                  [] code = "BCOND" -> (CASE raw.rt = 0  -> "BLTZ"   [] raw.rt = 1  -> "BGEZ"
                                          [] raw.rt = 16 -> "BLTZAL" [] raw.rt = 17 -> "BGEZAL"
                                          [] OTHER -> "UNIMP")
                  [] OTHER -> code,
     extra |-> CASE code = "SPECIAL" -> raw.sa
                 [] code \in {"J", "JAL"} -> raw.index
                 [] OTHER -> SignExtend(raw.imm, HalfBits)]

-----------------------------------------------------------------------------
(* Arithmetic. *)

(* (a ^ b) & SIGN_BIT *)
SignsDiffer(a, b) == (a >= SIGN_BIT) # (b >= SIGN_BIT)

(* ADD and ADDI: operands of one sign, and a sum of the other. *)
Overflows(a, b, sum) == ~SignsDiffer(a, b) /\ SignsDiffer(b, sum)

(* SUB: operands of different signs, and a difference of the other than a. *)
Underflows(a, b, diff) == SignsDiffer(a, b) /\ SignsDiffer(a, diff)

Flag(b) == IF b THEN 1 ELSE 0

ShiftLeft(x, n)  == W(x * 2^n)
ShiftArith(x, n) == W(Signed(x) \div 2^n)
ShiftLogic(x, n) == x \div 2^n

(* registers[rd], from a = registers[rs] and b = registers[rt]. *)
RdOps == {"ADD", "ADDU", "SUB", "SUBU", "AND", "OR", "XOR", "NOR", "SLT", "SLTU",
          "SLLV", "SRAV", "SRLV", "SLL", "SRA", "SRL"}
RdValue(op, a, b, sa) ==
    CASE op \in {"ADD", "ADDU"} -> W(a + b)
      [] op \in {"SUB", "SUBU"} -> W(a - b)
      [] op = "AND"  -> BitAnd(a, b)
      [] op = "OR"   -> BitOr(a, b)
      [] op = "XOR"  -> BitXor(a, b)
      [] op = "NOR"  -> Invert(BitOr(a, b))
      [] op = "SLT"  -> Flag(Signed(a) < Signed(b))
      [] op = "SLTU" -> Flag(a < b)
      [] op = "SLLV" -> ShiftLeft(b, a % WordBits)
      [] op = "SRAV" -> ShiftArith(b, a % WordBits)
      [] op = "SRLV" -> ShiftLogic(b, a % WordBits)
      [] op = "SLL"  -> ShiftLeft(b, sa)
      [] op = "SRA"  -> ShiftArith(b, sa)
      [] op = "SRL"  -> ShiftLogic(b, sa)

(* registers[rt], from a = registers[rs] and the immediate operand. *)
RtOps == {"ADDI", "ADDIU", "ANDI", "ORI", "XORI", "LUI", "SLTI", "SLTIU"}
RtValue(op, a, extra) ==
    LET low == extra % 2^HalfBits IN
    CASE op \in {"ADDI", "ADDIU"} -> W(a + extra)
      [] op = "ANDI"  -> BitAnd(a, low)
      [] op = "ORI"   -> BitOr(a, low)
      [] op = "XORI"  -> BitXor(a, low)
      [] op = "LUI"   -> ShiftLeft(extra, HalfBits)
      [] op = "SLTI"  -> Flag(Signed(a) < Signed(extra))
      [] op = "SLTIU" -> Flag(a < extra)

(* Mistake: the carry out of the low word is forgotten. *)
MultStepNoCarry(x) ==
    LET one == x.a % 2 = 1
    IN  [a   |-> x.a \div 2,
         bLo |-> ShiftLeft(x.bLo, 1),
         bHi |-> W(2 * x.bHi + Flag(x.bLo >= SIGN_BIT)),
         lo  |-> IF one THEN W(x.lo + x.bLo) ELSE x.lo,
         hi  |-> IF one THEN W(x.hi + x.bHi) ELSE x.hi]

(* The main loop of Mult: a's bits one at a time, b shifted into two words. *)
MultStep(x) ==
    LET lo == W(x.lo + x.bLo)
        hi == W(x.hi + Flag(lo < x.bLo) + x.bHi)
    IN  [a   |-> x.a \div 2,
         bLo |-> ShiftLeft(x.bLo, 1),
         bHi |-> W(2 * x.bHi + Flag(x.bLo >= SIGN_BIT)),
         lo  |-> IF x.a % 2 = 1 THEN lo ELSE x.lo,
         hi  |-> IF x.a % 2 = 1 THEN hi ELSE x.hi]

MultLoop(a, b) ==
    LET loop[n \in 0..WordBits] ==
            IF n = 0 THEN [a |-> a, bLo |-> b, bHi |-> 0, lo |-> 0, hi |-> 0]
                     ELSE MultStep(loop[n - 1])
    IN  loop[WordBits]

(* <<hi, lo>> *)
Mult(a, b, signedArith) ==
    LET Neg(x)   == signedArith /\ Signed(x) < 0
        Abs(x)   == IF Neg(x) THEN W(-x) ELSE x
        r  == MultLoop(Abs(a), Abs(b))
        lo == W(Invert(r.lo) + 1)
    IN  CASE a = 0 \/ b = 0 -> <<0, 0>>
          [] a # 0 /\ b # 0 /\ Neg(a) # Neg(b) -> <<W(Invert(r.hi) + Flag(lo = 0)), lo>>
          [] OTHER -> <<r.hi, r.lo>>

(* int division truncates towards zero; the remainder takes the sign of a. *)
Quotient(a, b) ==
    LET Abs(x) == IF x < 0 THEN -x ELSE x
        q == Abs(a) \div Abs(b)
    IN  IF (a < 0) = (b < 0) THEN q ELSE -q

(* <<hi, lo>>: remainder and quotient, both zero for a division by zero. *)
Div(a, b, signedArith) ==
    CASE b = 0 -> <<0, 0>>
      [] b # 0 /\ signedArith ->
           LET x == Signed(a) y == Signed(b) IN <<W(x - Quotient(x, y) * y), W(Quotient(x, y))>>
      [] OTHER -> <<a % b, a \div b>>

-----------------------------------------------------------------------------
(* OneInstruction, by groups of instructions.  r is registers, next is what  *)
(* follows the delay slot unless the instruction says otherwise.             *)

(* Mistake: the register is written before the overflow is noticed. *)
ArithmeticLate(s, i) ==
    LET r == s.reg
        a == r[i.rs]
        b == IF i.opCode \in RdOps THEN r[i.rt] ELSE i.extra
        v == IF i.opCode \in RdOps THEN RdValue(i.opCode, a, b, i.extra)
                                   ELSE RtValue(i.opCode, a, b)
        w == [r EXCEPT ![IF i.opCode \in RdOps THEN i.rd ELSE i.rt] = v]
    IN  IF \/ i.opCode \in {"ADD", "ADDI"} /\ Overflows(a, b, v)
           \/ i.opCode = "SUB" /\ Underflows(a, b, v)
        THEN RaiseException([s EXCEPT !.reg = w], "OverflowException", 0)
        ELSE Complete(s, w, 0, 0, W(r[NextPCReg] + 4))

Arithmetic(s, i) ==
    LET r == s.reg
        a == r[i.rs]
        b == IF i.opCode \in RdOps THEN r[i.rt] ELSE i.extra
        v == IF i.opCode \in RdOps THEN RdValue(i.opCode, a, b, i.extra)
                                   ELSE RtValue(i.opCode, a, b)
        target == IF i.opCode \in RdOps THEN i.rd ELSE i.rt
    IN  IF \/ i.opCode \in {"ADD", "ADDI"} /\ Overflows(a, b, v)
           \/ i.opCode = "SUB" /\ Underflows(a, b, v)
        THEN RaiseException(s, "OverflowException", 0)
        ELSE Complete(s, [r EXCEPT ![target] = v], 0, 0, W(r[NextPCReg] + 4))

(* The smallest int divided by -1 is undefined; on the host it traps. *)
HiLo(s, i) ==
    LET r  == s.reg
        a  == r[i.rs]
        b  == r[i.rt]
        hl == CASE i.opCode = "MULT"  -> Mult(a, b, TRUE)
                [] i.opCode = "MULTU" -> Mult(a, b, FALSE)
                [] i.opCode = "DIV"   -> Div(a, b, TRUE)
                [] i.opCode = "DIVU"  -> Div(a, b, FALSE)
                [] i.opCode = "MTHI"  -> <<a, r[LoReg]>>
                [] i.opCode = "MTLO"  -> <<r[HiReg], a>>
                [] OTHER              -> <<r[HiReg], r[LoReg]>>
        reg == CASE i.opCode = "MFHI" -> [r EXCEPT ![i.rd] = r[HiReg]]
                 [] i.opCode = "MFLO" -> [r EXCEPT ![i.rd] = r[LoReg]]
                 [] OTHER             -> [r EXCEPT ![HiReg] = hl[1], ![LoReg] = hl[2]]
    IN  IF i.opCode = "DIV" /\ a = SIGN_BIT /\ b = Modulus - 1
        THEN Die(s, "divideTrap")
        ELSE Complete(s, reg, 0, 0, W(r[NextPCReg] + 4))
HiLoOps == {"MULT", "MULTU", "DIV", "DIVU", "MTHI", "MTLO", "MFHI", "MFLO"}

BranchOps == {"BEQ", "BNE", "BLEZ", "BGTZ", "BLTZ", "BGEZ", "BLTZAL", "BGEZAL"}
Taken(op, a, b) ==
    CASE op = "BEQ" -> a = b
      [] op = "BNE" -> a # b
      [] op = "BGTZ" -> Signed(a) > 0
      [] op = "BLEZ" -> Signed(a) <= 0
      [] op \in {"BGEZ", "BGEZAL"} -> a < SIGN_BIT
      [] op \in {"BLTZ", "BLTZAL"} -> a >= SIGN_BIT

(* The return address is written before the register is tested. *)
Branch(s, i) ==
    LET r == IF i.opCode \in {"BLTZAL", "BGEZAL"}
             THEN [s.reg EXCEPT ![R31] = W(s.reg[NextPCReg] + 4)] ELSE s.reg
        b == IF i.opCode \in {"BEQ", "BNE"} THEN r[i.rt] ELSE 0
    IN  Complete(s, r, 0, 0, W(r[NextPCReg] + IF Taken(i.opCode, r[i.rs], b)
                                              THEN IndexToAddr(i.extra) ELSE 4))

(* J and JAL keep the upper two bits of pcAfter, where the code keeps four. *)
JumpOps == {"J", "JAL", "JR", "JALR"}
Jump(s, i) ==
    LET after == W(s.reg[NextPCReg] + 4)
        region == 2^(WordBits - 2)
        r == CASE i.opCode = "JAL"  -> [s.reg EXCEPT ![R31] = after]
               [] i.opCode = "JALR" -> [s.reg EXCEPT ![i.rd] = after]
               [] OTHER -> s.reg
    IN  Complete(s, r, 0, 0, IF i.opCode \in {"J", "JAL"}
                             THEN (after \div region) * region + (IndexToAddr(i.extra) % region)
                             ELSE r[i.rs])

AccessSize(op) == CASE op \in {"LB", "LBU", "SB"} -> 1 [] op \in {"LH", "LHU", "SH"} -> 2 [] OTHER -> 4

(* LWL and LWR are only defined for aligned addresses; the old value of the  *)
(* register is the one still to be loaded, if there is one.                  *)
Loaded(s, i, value) ==
    LET old == IF s.reg[LoadReg] = i.rt THEN s.reg[LoadValueReg] ELSE s.reg[i.rt] IN
    CASE i.opCode = "LBU" -> value % 2^ByteBits
      [] i.opCode = "LH"  -> SignExtend(value, HalfBits)
      [] i.opCode = "LWR" -> (old - (old % 2^ByteBits)) + value \div 2^(3 * ByteBits)
      [] OTHER -> value

LoadOps == {"LB", "LBU", "LH", "LHU", "LW", "LWL", "LWR"}
Load(s, i) ==
    LET tmp  == W(s.reg[i.rs] + i.extra)
        size == AccessSize(i.opCode)
        exc  == Translate(s.pt, tmp, size, FALSE)
    IN  IF i.opCode \in {"LWL", "LWR"} /\ tmp % 4 # 0 THEN Die(s, "ASSERT")
        ELSE IF exc # "NoException" THEN RaiseException(s, exc, tmp)
        ELSE Complete([s EXCEPT !.pt = Touch(@, tmp, FALSE)], s.reg, i.rt,
                      Loaded(s, i, ReadMem(s, tmp, size)), W(s.reg[NextPCReg] + 4))

(* SWL and SWR read the word first; SWR keeps its three low bytes. *)
StoreOps == {"SB", "SH", "SW", "SWL", "SWR"}
Store(s, i) ==
    LET tmp   == W(s.reg[i.rs] + i.extra)
        size  == AccessSize(i.opCode)
        reads == i.opCode \in {"SWL", "SWR"}
        readExc  == IF reads THEN Translate(s.pt, tmp, size, FALSE) ELSE "NoException"
        writeExc == Translate(s.pt, tmp, size, TRUE)
        rt    == s.reg[i.rt]
        value == IF i.opCode = "SWR"
                 THEN (ReadMem(s, tmp, 4) % 2^(3 * ByteBits)) + W(rt * 2^(3 * ByteBits))
                 ELSE rt
        s1    == IF reads THEN [s EXCEPT !.pt = Touch(@, tmp, FALSE)] ELSE s
    IN  IF reads /\ tmp % 4 # 0 THEN Die(s, "ASSERT")
        ELSE IF readExc # "NoException"  THEN RaiseException(s, readExc, tmp)
        ELSE IF writeExc # "NoException" THEN RaiseException(s1, writeExc, tmp)
        ELSE Complete(WriteMem(s1, tmp, size, value), s.reg, 0, 0, W(s.reg[NextPCReg] + 4))

Execute(s, i) ==
    CASE i.opCode \in RdOps \cup RtOps -> Arithmetic(s, i)
      [] i.opCode \in HiLoOps   -> HiLo(s, i)
      [] i.opCode \in BranchOps -> Branch(s, i)
      [] i.opCode \in JumpOps   -> Jump(s, i)
      [] i.opCode \in LoadOps   -> Load(s, i)
      [] i.opCode \in StoreOps  -> Store(s, i)
      [] i.opCode = "SYSCALL"   -> RaiseException(s, "SyscallException", 0)
      [] i.opCode \in {"RES", "UNIMP"} -> RaiseException(s, "IllegalInstrException", 0)
      [] OTHER -> Die(s, "ASSERT")

(* Fetching goes through the page table as well. *)
OneInstruction(s, raw) ==
    LET pc  == s.reg[PCReg]
        exc == Translate(s.pt, pc, 4, FALSE)
    IN  IF exc # "NoException" THEN RaiseException(s, exc, pc)
        ELSE Execute([s EXCEPT !.pt = Touch(@, pc, FALSE)], Decode(raw))

-----------------------------------------------------------------------------
Run(raw) ==
    /\ stopped = "no" /\ steps < MaxSteps
    /\ LET next == OneInstruction(State, raw)
       IN  /\ registers' = next.reg
           /\ mainMemory' = next.mem
           /\ pageTable' = next.pt
           /\ exception' = next.exc
           /\ stopped' = next.stop
    /\ steps' = steps + 1

MachineNext == \E raw \in Instructions : Run(raw)

MachineSpec == MachineInit /\ [][MachineNext]_machineVars

-----------------------------------------------------------------------------
(* Correctness. *)

(* Overflow is raised exactly when the sum or difference of two ints is no   *)
(* int; Mult leaves the exact double word in Hi and Lo, the smallest int     *)
(* included; division leaves quotient and remainder with the signs of C.     *)
ArithmeticExact ==
    LET a == registers[1]
        b == registers[2]
        x == Signed(a)
        y == Signed(b)
        Ints == -SIGN_BIT..(SIGN_BIT - 1)
        m == Mult(a, b, TRUE)
        u == Mult(a, b, FALSE)
        d == Div(a, b, TRUE)
        Abs(n) == IF n < 0 THEN -n ELSE n
    IN  /\ Overflows(a, b, W(a + b)) <=> x + y \notin Ints
        /\ Underflows(a, b, W(a - b)) <=> x - y \notin Ints
        /\ Signed(m[1]) * Modulus + m[2] = x * y
        /\ u[1] * Modulus + u[2] = a * b
        /\ y # 0 /\ ~(x = -SIGN_BIT /\ y = -1) =>
             /\ Signed(d[2]) * y + Signed(d[1]) = x
             /\ Abs(Signed(d[1])) < Abs(y) /\ Signed(d[1]) * x >= 0

(* The registers a program sees once the load in progress has arrived. *)
Visible(reg) ==
    [r \in 0..LoReg |-> IF r # 0 /\ r = reg[LoadReg] THEN reg[LoadValueReg] ELSE reg[r]]

Settled(s) ==
    [s EXCEPT !.reg = [r \in DOMAIN @ |-> CASE r <= LoReg -> Visible(@)[r]
                                            [] r \in {LoadReg, LoadValueReg} -> 0
                                            [] OTHER -> @[r]]]

(* The registers an instruction depends on or writes at once. *)
Uses(i) ==
    CASE i.opCode \in LoadOps -> {i.rs}
      [] i.opCode \in StoreOps \cup RtOps \cup {"BEQ", "BNE"} -> {i.rs, i.rt}
      [] i.opCode \in BranchOps \ {"BEQ", "BNE"} -> {i.rs, R31}
      [] i.opCode \in JumpOps -> {i.rs, i.rd, R31}
      [] i.opCode \in RdOps \cup HiLoOps -> {i.rs, i.rt, i.rd}
      [] OTHER -> {}

(* Load delays do not show in a program that keeps the rules of the R2000:   *)
(* an instruction in the slot behind a load that does not use the loaded     *)
(* register has the same effect on memory, registers and the program         *)
(* counters as it would have had the load been immediate.  It holds across   *)
(* exceptions, system calls, and further loads to the same register.         *)
LoadDelayHidden ==
    stopped = "no" /\ registers[LoadReg] # 0 =>
      \A raw \in Instructions :
        registers[LoadReg] \notin Uses(Decode(raw)) =>
            LET n == OneInstruction(State, raw)
                m == OneInstruction(Settled(State), raw)
            IN  /\ Visible(n.reg) = Visible(m.reg)
                /\ \A r \in {PCReg, NextPCReg, PrevPCReg, BadVAddrReg} : n.reg[r] = m.reg[r]
                /\ n.mem = m.mem /\ n.exc = m.exc /\ n.stop = m.stop

(* Exceptions are precise: an instruction that raises one has changed        *)
(* neither memory nor the registers a program sees, and no page became       *)
(* dirty; after a system call, execution goes on where a taken branch before *)
(* it leads.                                                                 *)
FaultsPrecise ==
    [][exception' # "NoException" =>
         /\ mainMemory' = mainMemory
         /\ Visible(registers') = Visible(registers)
         /\ \A p \in DOMAIN pageTable : pageTable'[p].dirty = pageTable[p].dirty
         /\ exception' = "SyscallException" =>
               registers'[PCReg] = registers[NextPCReg]]_machineVars

(* mipssim.cc: "This allows us to re-start the instruction execution from    *)
(* the beginning": an instruction that raised an exception, and is no system *)
(* call, is the next one to be run.  The code does not keep it:              *)
(* ExceptionHandler moves the PC past any instruction.                       *)
FaultRestarts ==
    [][exception' \notin {"NoException", "SyscallException"} =>
         registers'[PCReg] = registers[PCReg] /\ registers'[NextPCReg] = registers[NextPCReg]]_machineVars

(* Memory protection: a frame whose contents changed is mapped by a page     *)
(* that is marked dirty and that is not read-only; other frames keep what    *)
(* the kernel loaded.                                                        *)
CleanFramesUnchanged ==
    \A a \in DOMAIN mainMemory :
        mainMemory[a] # SomeByte(a) =>
            \E p \in DOMAIN pageTable : /\ pageTable[p].valid /\ pageTable[p].dirty
                                        /\ ~pageTable[p].readOnly
                                        /\ pageTable[p].physicalPage = a \div PageSize
=============================================================================
