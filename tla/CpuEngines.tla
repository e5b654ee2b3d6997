----------------------------- MODULE CpuEngines -----------------------------
(***************************************************************************)
(* One instruction of the 6502 on both engines: the historical one of      *)
(* opcodes.c and addressing.c, which executes it in one block and pads the *)
(* clock to the number of cycles its table gives, and the micro-sequenced  *)
(* one of microseq.c, which builds a plan of micro-operations and emits    *)
(* one bus access per cycle.  Both run from the same registers and memory. *)
(*                                                                         *)
(* Bytes are 8 bits wide and addresses 16.  Memory is given by the bytes   *)
(* that differ from a fixed pattern.  Interrupts are in CpuInterrupts.     *)
(***************************************************************************)
EXTENDS Integers, Sequences, TLC, Bitwise

CONSTANTS
    Settings,   \* the registers and operand bytes to start from, and the opcodes to run
    AluBytes    \* the operands of the arithmetic that is compared with numbers

VARIABLES
    old,    \* the historical engine: registers, memory, bus accesses, clock
    new,    \* the micro-sequenced engine, in the middle of its plan
    ms      \* the state of the plan
cpuVars == <<old, new, ms>>

-----------------------------------------------------------------------------
(* opcode_table: names, addressing modes, base cycles; row h is opcodes $h0 to $hF. *)

opcode_name ==
  <<
    "BRK", "ORA", "JAM", "SLO", "NOP", "ORA", "ASL", "SLO", "PHP", "ORA", "ASL", "ANC", "NOP", "ORA", "ASL", "SLO",
    "BPL", "ORA", "JAM", "SLO", "NOP", "ORA", "ASL", "SLO", "CLC", "ORA", "NOP", "SLO", "NOP", "ORA", "ASL", "SLO",
    "JSR", "AND", "JAM", "RLA", "BIT", "AND", "ROL", "RLA", "PLP", "AND", "ROL", "ANC", "BIT", "AND", "ROL", "RLA",
    "BMI", "AND", "JAM", "RLA", "NOP", "AND", "ROL", "RLA", "SEC", "AND", "NOP", "RLA", "NOP", "AND", "ROL", "RLA",
    "RTI", "EOR", "JAM", "SRE", "NOP", "EOR", "LSR", "SRE", "PHA", "EOR", "LSR", "ALR", "JMP", "EOR", "LSR", "SRE",
    "BVC", "EOR", "JAM", "SRE", "NOP", "EOR", "LSR", "SRE", "CLI", "EOR", "NOP", "SRE", "NOP", "EOR", "LSR", "SRE",
    "RTS", "ADC", "JAM", "RRA", "NOP", "ADC", "ROR", "RRA", "PLA", "ADC", "ROR", "ARR", "JMP", "ADC", "ROR", "RRA",
    "BVS", "ADC", "JAM", "RRA", "NOP", "ADC", "ROR", "RRA", "SEI", "ADC", "NOP", "RRA", "NOP", "ADC", "ROR", "RRA",
    "NOP", "STA", "NOP", "SAX", "STY", "STA", "STX", "SAX", "DEY", "NOP", "TXA", "ANE", "STY", "STA", "STX", "SAX",
    "BCC", "STA", "JAM", "SHA", "STY", "STA", "STX", "SAX", "TYA", "STA", "TXS", "TAS", "SHY", "STA", "SHX", "SHA",
    "LDY", "LDA", "LDX", "LAX", "LDY", "LDA", "LDX", "LAX", "TAY", "LDA", "TAX", "LXA", "LDY", "LDA", "LDX", "LAX",
    "BCS", "LDA", "JAM", "LAX", "LDY", "LDA", "LDX", "LAX", "CLV", "LDA", "TSX", "LAS", "LDY", "LDA", "LDX", "LAX",
    "CPY", "CMP", "NOP", "DCP", "CPY", "CMP", "DEC", "DCP", "INY", "CMP", "DEX", "SBX", "CPY", "CMP", "DEC", "DCP",
    "BNE", "CMP", "JAM", "DCP", "NOP", "CMP", "DEC", "DCP", "CLD", "CMP", "NOP", "DCP", "NOP", "CMP", "DEC", "DCP",
    "CPX", "SBC", "NOP", "ISC", "CPX", "SBC", "INC", "ISC", "INX", "SBC", "NOP", "SBC", "CPX", "SBC", "INC", "ISC",
    "BEQ", "SBC", "JAM", "ISC", "NOP", "SBC", "INC", "ISC", "SED", "SBC", "NOP", "ISC", "NOP", "SBC", "INC", "ISC"
  >>
opcode_mode ==
  <<
    "imp", "izx", "imp", "izx", "zp", "zp", "zp", "zp", "imp", "imm", "acc", "imm", "abs", "abs", "abs", "abs",
    "rel", "izy", "imp", "izy", "zpx", "zpx", "zpx", "zpx", "imp", "aby", "imp", "aby", "abx", "abx", "abx", "abx",
    "abs", "izx", "imp", "izx", "zp", "zp", "zp", "zp", "imp", "imm", "acc", "imm", "abs", "abs", "abs", "abs",
    "rel", "izy", "imp", "izy", "zpx", "zpx", "zpx", "zpx", "imp", "aby", "imp", "aby", "abx", "abx", "abx", "abx",
    "imp", "izx", "imp", "izx", "zp", "zp", "zp", "zp", "imp", "imm", "acc", "imm", "abs", "abs", "abs", "abs",
    "rel", "izy", "imp", "izy", "zpx", "zpx", "zpx", "zpx", "imp", "aby", "imp", "aby", "abx", "abx", "abx", "abx",
    "imp", "izx", "imp", "izx", "zp", "zp", "zp", "zp", "imp", "imm", "acc", "imm", "ind", "abs", "abs", "abs",
    "rel", "izy", "imp", "izy", "zpx", "zpx", "zpx", "zpx", "imp", "aby", "imp", "aby", "abx", "abx", "abx", "abx",
    "imm", "izx", "imm", "izx", "zp", "zp", "zp", "zp", "imp", "imm", "imp", "imm", "abs", "abs", "abs", "abs",
    "rel", "izy", "imp", "izy", "zpx", "zpx", "zpy", "zpy", "imp", "aby", "imp", "aby", "abx", "abx", "aby", "aby",
    "imm", "izx", "imm", "izx", "zp", "zp", "zp", "zp", "imp", "imm", "imp", "imm", "abs", "abs", "abs", "abs",
    "rel", "izy", "imp", "izy", "zpx", "zpx", "zpy", "zpy", "imp", "aby", "imp", "aby", "abx", "abx", "aby", "aby",
    "imm", "izx", "imm", "izx", "zp", "zp", "zp", "zp", "imp", "imm", "imp", "imm", "abs", "abs", "abs", "abs",
    "rel", "izy", "imp", "izy", "zpx", "zpx", "zpx", "zpx", "imp", "aby", "imp", "aby", "abx", "abx", "abx", "abx",
    "imm", "izx", "imm", "izx", "zp", "zp", "zp", "zp", "imp", "imm", "imp", "imm", "abs", "abs", "abs", "abs",
    "rel", "izy", "imp", "izy", "zpx", "zpx", "zpx", "zpx", "imp", "aby", "imp", "aby", "abx", "abx", "abx", "abx"
  >>
opcode_cycles ==
  <<
    7, 6, 2, 8, 3, 3, 5, 5, 3, 2, 2, 2, 4, 4, 6, 6,
    2, 5, 2, 8, 4, 4, 6, 6, 2, 4, 2, 7, 4, 4, 7, 7,
    6, 6, 2, 8, 3, 3, 5, 5, 4, 2, 2, 2, 4, 4, 6, 6,
    2, 5, 2, 8, 4, 4, 6, 6, 2, 4, 2, 7, 4, 4, 7, 7,
    6, 6, 2, 8, 3, 3, 5, 5, 3, 2, 2, 2, 3, 4, 6, 6,
    2, 5, 2, 8, 4, 4, 6, 6, 2, 4, 2, 7, 4, 4, 7, 7,
    6, 6, 2, 8, 3, 3, 5, 5, 4, 2, 2, 2, 5, 4, 6, 6,
    2, 5, 2, 8, 4, 4, 6, 6, 2, 4, 2, 7, 4, 4, 7, 7,
    2, 6, 2, 6, 3, 3, 3, 3, 2, 2, 2, 2, 4, 4, 4, 4,
    2, 6, 2, 6, 4, 4, 4, 4, 2, 5, 2, 5, 5, 5, 5, 5,
    2, 6, 2, 6, 3, 3, 3, 3, 2, 2, 2, 2, 4, 4, 4, 4,
    2, 5, 2, 5, 4, 4, 4, 4, 2, 4, 2, 4, 4, 4, 4, 4,
    2, 6, 2, 8, 3, 3, 5, 5, 2, 2, 2, 2, 4, 4, 6, 6,
    2, 5, 2, 8, 4, 4, 6, 6, 2, 4, 2, 7, 4, 4, 7, 7,
    2, 6, 2, 8, 3, 3, 5, 5, 2, 2, 2, 2, 4, 4, 6, 6,
    2, 5, 2, 8, 4, 4, 6, 6, 2, 4, 2, 7, 4, 4, 7, 7
  >>

NameOf(op) == opcode_name[op + 1]
ModeOf(op) == opcode_mode[op + 1]

-----------------------------------------------------------------------------
(* Bytes, addresses, memory, flags.                                        *)

Byte(n) == n % 256
Word(hi, lo) == 256 * hi + lo
W16(n) == n % 65536
Page(a) == a \div 256
Bit(n, v) == (v \div 2^n) % 2 = 1

\* What memory holds where nothing was put.
Pattern(a) == Byte(7 * a + 3 * Page(a) + 5)
Val(k, a) == IF a \in DOMAIN k.mem THEN k.mem[a] ELSE Pattern(a)

\* cpu_mem_read, cpu_mem_write: one access on the bus, one cycle.
Read(k, a) == [k EXCEPT !.bus = Append(@, <<"r", a>>)]
Write(k, a, v) == [k EXCEPT !.bus = Append(@, <<"w", a, v>>), !.mem = (a :> v) @@ @]
RECURSIVE Reads(_, _)
Reads(k, s) == IF s = <<>> THEN k ELSE Reads(Read(k, Head(s)), Tail(s))

\* P is the set of its flags, bit 4 and bit 5 apart, which are only on the stack.
FlagBit == [C |-> 1, Z |-> 2, I |-> 4, D |-> 8, V |-> 64, N |-> 128]
FromByte(v) == {f \in DOMAIN FlagBit : (v \div FlagBit[f]) % 2 = 1}
ToByte(p, brk) ==
    LET w(f) == IF f \in p THEN FlagBit[f] ELSE 0
    IN w("C") + w("Z") + w("I") + w("D") + w("V") + w("N") + 32 + (IF brk THEN 16 ELSE 0)
cpu_set_flag(p, f, on) == IF on THEN p \cup {f} ELSE p \ {f}
cpu_update_nz(p, v) == cpu_set_flag(cpu_set_flag(p, "Z", v = 0), "N", v >= 128)
CarryIn(p) == IF "C" \in p THEN 1 ELSE 0

-----------------------------------------------------------------------------
(* The arithmetic both engines share; the result is [v, p].                *)

Overflows(a, b, r) == Bit(7, a) = Bit(7, b) /\ Bit(7, a) # Bit(7, r)

\* NMOS decimal mode: Z from the binary sum, N and V between the two corrections.
AdcDecimal(a, v, p) ==
    LET lo0 == (a % 16) + (v % 16) + CarryIn(p)
        lo == IF lo0 > 9 THEN lo0 + 6 ELSE lo0
        mid == 16 * (a \div 16 + v \div 16) + (IF lo0 > 9 THEN 16 ELSE 0)
        hi == IF mid > 144 THEN mid + 96 ELSE mid
        q == cpu_set_flag(cpu_set_flag(p, "Z", Byte(a + v + CarryIn(p)) = 0), "N", Bit(7, mid))
    IN [v |-> 16 * ((hi \div 16) % 16) + (lo % 16),
        p |-> cpu_set_flag(cpu_set_flag(q, "V", Overflows(a, v, mid)), "C", hi > 255)]
cpu_op_adc(a, v, p) ==
    LET s == a + v + CarryIn(p)
    IN IF "D" \in p THEN AdcDecimal(a, v, p)
       ELSE [v |-> Byte(s), p |-> cpu_set_flag(cpu_set_flag(cpu_update_nz(p, Byte(s)), "C", s > 255),
                                               "V", Overflows(a, v, Byte(s)))]

\* Every flag comes from the binary subtraction; only the value is adjusted.
cpu_op_sbc(a, v, p) ==
    LET bin == a - v - 1 + CarryIn(p)
        lo0 == (a % 16) - (v % 16) - 1 + CarryIn(p)
        lo == IF lo0 < 0 THEN lo0 - 6 ELSE lo0
        hi == 16 * (a \div 16 - v \div 16) - (IF lo0 < 0 THEN 16 ELSE 0)
        sum == hi + (lo % 16)
        q == cpu_set_flag(cpu_set_flag(cpu_update_nz(p, Byte(bin)), "C", bin >= 0),
                          "V", Bit(7, a) # Bit(7, v) /\ Bit(7, a) # Bit(7, Byte(bin)))
    IN [v |-> IF "D" \notin p THEN Byte(bin) ELSE IF sum < 0 THEN Byte(sum - 96) ELSE Byte(sum), p |-> q]

cpu_op_cmp(reg, v, p) == cpu_set_flag(cpu_update_nz(p, Byte(reg - v)), "C", reg >= v)

\* cpu_rmw_apply: the shift or step, then for the combined forms the fold into A.
Shift(name, v, p) ==
    CASE name \in {"ASL", "SLO"} -> [v |-> Byte(2 * v), c |-> Bit(7, v)]
      [] name \in {"ROL", "RLA"} -> [v |-> Byte(2 * v) + CarryIn(p), c |-> Bit(7, v)]
      [] name \in {"LSR", "SRE"} -> [v |-> v \div 2, c |-> Bit(0, v)]
      [] name \in {"ROR", "RRA"} -> [v |-> v \div 2 + 128 * CarryIn(p), c |-> Bit(0, v)]
      [] name \in {"INC", "ISC"} -> [v |-> Byte(v + 1), c |-> "C" \in p]
      [] OTHER -> [v |-> Byte(v - 1), c |-> "C" \in p]
cpu_rmw_apply(k, name, v) ==
    LET s == Shift(name, v, k.p)
        p == cpu_set_flag(k.p, "C", s.c)
        fold == CASE name = "SLO" -> k.a | s.v
                  [] name = "RLA" -> k.a & s.v
                  [] name = "SRE" -> k.a ^^ s.v
                  [] OTHER -> 0
        sum == IF name = "RRA" THEN cpu_op_adc(k.a, s.v, p) ELSE cpu_op_sbc(k.a, s.v, p)
    IN [v |-> s.v,
        k |-> CASE name \in {"SLO", "RLA", "SRE"} -> [k EXCEPT !.a = fold, !.p = cpu_update_nz(p, fold)]
                [] name \in {"RRA", "ISC"} -> [k EXCEPT !.a = sum.v, !.p = sum.p]
                [] name = "DCP" -> [k EXCEPT !.p = cpu_op_cmp(k.a, s.v, p)]
                [] OTHER -> [k EXCEPT !.p = cpu_update_nz(p, s.v)]]

\* SHA, SHX, SHY, TAS: the value takes the high byte of the base, and after a page
\* crossing it is the page that is written to.
cpu_sh_unstable(base, addr, reg) ==
    LET v == reg & Byte(Page(base) + 1)
    IN [v |-> v, to |-> IF Page(base) # Page(addr) THEN Word(v, Byte(addr)) ELSE addr]

\* The effect of an operand that was read.
ArrDecimal(t, r) ==
    LET lo == IF (t % 16) + (t % 2) > 5 THEN 16 * (r \div 16) + ((r + 6) % 16) ELSE r
    IN IF 16 * (t \div 16) + 16 * ((t \div 16) % 2) > 80
       THEN [v |-> Byte(lo + 96), c |-> TRUE] ELSE [v |-> lo, c |-> FALSE]
Arr(k, v) ==
    LET t == k.a & v
        r == t \div 2 + 128 * CarryIn(k.p)
        p == cpu_set_flag(cpu_update_nz(k.p, r), "V", Bit(6, r ^^ t))
        d == IF "D" \in k.p THEN ArrDecimal(t, r) ELSE [v |-> r, c |-> Bit(7, t)]
    IN [k EXCEPT !.a = d.v, !.p = cpu_set_flag(p, "C", d.c)]
SetA(k, v) == [k EXCEPT !.a = v, !.p = cpu_update_nz(k.p, v)]
SetX(k, v) == [k EXCEPT !.x = v, !.p = cpu_update_nz(k.p, v)]
SetY(k, v) == [k EXCEPT !.y = v, !.p = cpu_update_nz(k.p, v)]
Sum(k, r) == [k EXCEPT !.a = r.v, !.p = r.p]
Fold(k, name, v) ==
    CASE name = "ORA" -> SetA(k, k.a | v)
      [] name = "AND" -> SetA(k, k.a & v)
      [] name = "EOR" -> SetA(k, k.a ^^ v)
      [] name = "ADC" -> Sum(k, cpu_op_adc(k.a, v, k.p))
      [] name = "SBC" -> Sum(k, cpu_op_sbc(k.a, v, k.p))
      [] name = "CMP" -> [k EXCEPT !.p = cpu_op_cmp(k.a, v, @)]
      [] name = "CPX" -> [k EXCEPT !.p = cpu_op_cmp(k.x, v, @)]
      [] name = "CPY" -> [k EXCEPT !.p = cpu_op_cmp(k.y, v, @)]
      [] name = "LDA" -> SetA(k, v)
      [] name = "LDX" -> SetX(k, v)
      [] name = "LDY" -> SetY(k, v)
      [] name = "BIT" -> [k EXCEPT !.p = cpu_set_flag(cpu_set_flag(cpu_set_flag(@, "Z", (k.a & v) = 0),
                                                                   "V", Bit(6, v)), "N", Bit(7, v))]
      [] name = "LAX" -> [SetA(k, v) EXCEPT !.x = v]
      [] OTHER -> k
FoldIllegal(k, name, v) ==
    CASE name = "ANC" -> LET r == k.a & v IN [SetA(k, r) EXCEPT !.p = cpu_set_flag(@, "C", Bit(7, r))]
      [] name = "ALR" -> LET t == k.a & v
                         IN [SetA(k, t \div 2) EXCEPT !.p = cpu_set_flag(@, "C", Bit(0, t))]
      [] name = "ARR" -> Arr(k, v)
      [] name = "ANE" -> SetA(k, (k.a | 238) & k.x & v)
      [] name = "LXA" -> LET r == (k.a | 238) & v IN [SetA(k, r) EXCEPT !.x = r]
      [] name = "SBX" -> LET t == k.a & k.x
                         IN [SetX(k, Byte(t - v)) EXCEPT !.p = cpu_set_flag(@, "C", t >= v)]
      [] name = "LAS" -> LET r == v & k.sp IN [SetA(k, r) EXCEPT !.x = r, !.sp = r]
      [] OTHER -> Fold(k, name, v)

\* The implied instructions: a register or a flag.
Implied(k, name) ==
    CASE name = "CLC" -> [k EXCEPT !.p = @ \ {"C"}]  [] name = "SEC" -> [k EXCEPT !.p = @ \cup {"C"}]
      [] name = "CLI" -> [k EXCEPT !.p = @ \ {"I"}]  [] name = "SEI" -> [k EXCEPT !.p = @ \cup {"I"}]
      [] name = "CLD" -> [k EXCEPT !.p = @ \ {"D"}]  [] name = "SED" -> [k EXCEPT !.p = @ \cup {"D"}]
      [] name = "CLV" -> [k EXCEPT !.p = @ \ {"V"}]
      [] name = "TAX" -> SetX(k, k.a)                [] name = "TXA" -> SetA(k, k.x)
      [] name = "TAY" -> SetY(k, k.a)                [] name = "TYA" -> SetA(k, k.y)
      [] name = "TSX" -> SetX(k, k.sp)               [] name = "TXS" -> [k EXCEPT !.sp = k.x]
      [] name = "INX" -> SetX(k, Byte(k.x + 1))      [] name = "DEX" -> SetX(k, Byte(k.x - 1))
      [] name = "INY" -> SetY(k, Byte(k.y + 1))      [] name = "DEY" -> SetY(k, Byte(k.y - 1))
      [] OTHER -> k
Accumulator(k, name) == LET s == cpu_rmw_apply(k, name, k.a) IN [s.k EXCEPT !.a = s.v]

BranchTaken(p, name) ==
    CASE name = "BPL" -> "N" \notin p  [] name = "BMI" -> "N" \in p
      [] name = "BVC" -> "V" \notin p  [] name = "BVS" -> "V" \in p
      [] name = "BCC" -> "C" \notin p  [] name = "BCS" -> "C" \in p
      [] name = "BNE" -> "Z" \notin p  [] OTHER -> "Z" \in p
Signed(v) == IF v > 127 THEN v - 256 ELSE v

Stores == {"STA", "STX", "STY", "SAX"}
Unstable == {"SHA", "SHX", "SHY", "TAS"}
Modifies == {"ASL", "LSR", "ROL", "ROR", "INC", "DEC", "SLO", "RLA", "SRE", "RRA", "DCP", "ISC"}
Branches == {"BPL", "BMI", "BVC", "BVS", "BCC", "BCS", "BNE", "BEQ"}
StoreValue(k, name) ==
    CASE name = "STX" \/ name = "SHX" -> k.x
      [] name = "STY" \/ name = "SHY" -> k.y
      [] name = "STA" -> k.a
      [] OTHER -> k.a & k.x

-----------------------------------------------------------------------------
(* The historical engine.                                                  *)

\* addressing.c, with PC on the byte after the opcode: the reads it makes, the address
\* before and after indexing, the bytes it takes.
SamePage(a) == Word(Page(a), Byte(a + 1))
Addressing(k, mode) ==
    LET lo == Val(k, k.pc)
        word == Word(Val(k, W16(k.pc + 1)), lo)
        At(rs, b, a, n) == [reads |-> rs, base |-> b, addr |-> W16(a), size |-> n]
        two == <<k.pc, W16(k.pc + 1)>>
        Through(z) == Word(Val(k, Byte(z + 1)), Val(k, z))
        zx == Byte(lo + k.x)
    IN CASE mode = "imm" -> At(<<>>, k.pc, k.pc, 1)
         [] mode = "zp"  -> At(<<k.pc>>, lo, lo, 1)
         [] mode = "zpx" -> At(<<k.pc>>, zx, zx, 1)
         [] mode = "zpy" -> At(<<k.pc>>, Byte(lo + k.y), Byte(lo + k.y), 1)
         [] mode = "abs" -> At(two, word, word, 2)
         [] mode = "abx" -> At(two, word, word + k.x, 2)
         [] mode = "aby" -> At(two, word, word + k.y, 2)
         [] mode = "izx" -> At(<<k.pc, zx, Byte(zx + 1)>>, Through(zx), Through(zx), 1)
         [] mode = "izy" -> At(<<k.pc, lo, Byte(lo + 1)>>, Through(lo), Through(lo) + k.y, 1)
         [] mode = "ind" -> At(two \o <<word, SamePage(word)>>, word,
                               Word(Val(k, SamePage(word)), Val(k, word)), 2)
         [] mode = "rel" -> At(<<k.pc>>, W16(k.pc + 1), k.pc + 1 + Signed(lo), 1)
         [] OTHER -> At(<<>>, k.pc, k.pc, 0)
Crossed(t) == Page(t.base) # Page(t.addr)

cpu_push(k, v) == [Write(k, 256 + k.sp, v) EXCEPT !.sp = Byte(@ - 1)]
cpu_pull(k) == [Read(k, 256 + Byte(k.sp + 1)) EXCEPT !.sp = Byte(@ + 1)]
Top(k) == Val(k, 256 + k.sp)
cpu_push_word(k, w) == cpu_push(cpu_push(k, Page(w)), Byte(w))
PullWord(k) == LET l == cpu_pull(k) h == cpu_pull(l) IN [h EXCEPT !.pc = Word(Top(h), Top(l))]

\* The operand is reached, PC is past it.
Reached(k, t) == [Reads(k, t.reads) EXCEPT !.pc = W16(@ + t.size)]
OpRead(k, t, name) == FoldIllegal(Read(Reached(k, t), t.addr), name, Val(k, t.addr))
OpWrite(k, t, name) == Write(Reached(k, t), t.addr, StoreValue(k, name))
op_sh_store(k, t, name) ==
    LET s == cpu_sh_unstable(t.base, t.addr, StoreValue(k, name))
        j == IF name = "TAS" THEN [k EXCEPT !.sp = k.a & k.x] ELSE k
    IN Write(Reached(j, t), s.to, s.v)
op_rmw_mem(k, t, name) ==
    LET r == Write(Read(Reached(k, t), t.addr), t.addr, Val(k, t.addr))
        s == cpu_rmw_apply(r, name, Val(k, t.addr))
    IN Write(s.k, t.addr, s.v)
do_branch(k, t, name) ==
    LET r == Reached(k, t) IN IF BranchTaken(k.p, name) THEN [r EXCEPT !.pc = t.addr] ELSE r

\* JSR reads the high byte of its address after the pushes; BRK skips a byte.
Subroutine(k, name) ==
    CASE name = "JSR" ->
            LET j == cpu_push_word([Read(k, k.pc) EXCEPT !.pc = W16(@ + 1)], W16(k.pc + 1))
            IN [Read(j, j.pc) EXCEPT !.pc = Word(Val(j, j.pc), Val(k, k.pc))]
      [] name = "RTS" -> [PullWord(k) EXCEPT !.pc = W16(@ + 1)]
      [] name = "RTI" -> LET j == cpu_pull(k) IN PullWord([j EXCEPT !.p = FromByte(Top(j))])
      [] name = "BRK" ->
            LET j == cpu_push(cpu_push_word(k, W16(k.pc + 1)), ToByte(k.p, TRUE))
            IN [Reads(j, <<65534, 65535>>) EXCEPT !.p = @ \cup {"I"},
                                                  !.pc = Word(Val(j, 65535), Val(j, 65534))]
Stack(k, name) ==
    CASE name = "PHA" -> cpu_push(k, k.a)
      [] name = "PHP" -> cpu_push(k, ToByte(k.p, TRUE))
      [] name = "PLA" -> LET j == cpu_pull(k) IN SetA(j, Top(j))
      [] name = "PLP" -> LET j == cpu_pull(k) IN [j EXCEPT !.p = FromByte(Top(j))]

\* cpu_execute_opcode: the instruction, then its cycles: reads that cross a page and
\* branches pay more than the table says.
cpu_execute_opcode(k, op) ==
    LET name == NameOf(op)
        mode == ModeOf(op)
        t == Addressing(k, mode)
        isRead == mode \notin {"imp", "acc", "rel"} /\ name \notin Stores \cup Unstable \cup Modifies \cup {"JMP", "JSR"}
        done == CASE name = "JAM" -> [k EXCEPT !.halted = TRUE]
                  [] name \in Branches -> do_branch(k, t, name)
                  [] name = "JMP" -> [Reached(k, t) EXCEPT !.pc = t.addr]
                  [] name \in {"JSR", "RTS", "RTI", "BRK"} -> Subroutine(k, name)
                  [] name \in {"PHA", "PHP", "PLA", "PLP"} -> Stack(k, name)
                  [] name \in Stores -> OpWrite(k, t, name)
                  [] name \in Unstable -> op_sh_store(k, t, name)
                  [] mode = "acc" -> Accumulator(k, name)
                  [] name \in Modifies -> op_rmw_mem(k, t, name)
                  [] isRead -> OpRead(k, t, name)
                  [] OTHER -> Implied(k, name)
        extra == IF name \in Branches /\ BranchTaken(k.p, name) THEN IF Crossed(t) THEN 2 ELSE 1
                 ELSE IF isRead /\ Crossed(t) /\ mode \in {"abx", "aby", "izy"} THEN 1 ELSE 0
            total == opcode_cycles[op + 1] + extra
    IN [done EXCEPT !.cycles = IF Len(done.bus) > total THEN Len(done.bus) ELSE total]

\* cpu_step: the fetch, then the instruction in one block.
cpu_step(k) ==
    cpu_execute_opcode([Read(k, k.pc) EXCEPT !.pc = W16(@ + 1)], Val(k, k.pc))

-----------------------------------------------------------------------------
(* The micro-sequenced engine.                                             *)

\* ms_build_table: the shape of the sequence.
Class(op) ==
    LET name == NameOf(op)
    IN CASE name \in {"BRK", "JSR", "RTS", "RTI", "PHA", "PHP", "PLA", "PLP", "JAM"} -> name
         [] name = "JMP" -> IF ModeOf(op) = "ind" THEN "JMP_IND" ELSE "JMP"
         [] name \in Branches -> "BRANCH"
         [] name \in Stores -> "WRITE"
         [] name \in Unstable -> "WRITE_UNSTABLE"
         [] name \in Modifies /\ ModeOf(op) # "acc" -> "RMW"
         [] ModeOf(op) \in {"imp", "acc"} -> "IMPLIED"
         [] OTHER -> "READ"

\* Writes and RMW always pay the dummy cycle of the indexing, reads on a crossing.
plan_addressing(mode, always) ==
    LET fix == IF always THEN "DUMMY_UNFIXED" ELSE "READ_FIXUP"
    IN CASE mode = "zp" -> <<"FETCH_LO">>
         [] mode \in {"zpx", "zpy"} -> <<"FETCH_LO", "ZP_INDEX">>
         [] mode = "abs" -> <<"FETCH_LO", "FETCH_HI">>
         [] mode \in {"abx", "aby"} -> <<"FETCH_LO", "FETCH_HI", fix>>
         [] mode = "izx" -> <<"FETCH_LO", "ZP_INDEX", "PTR_LO", "PTR_HI">>
         [] mode = "izy" -> <<"FETCH_LO", "PTR_LO", "PTR_HI", fix>>
         [] OTHER -> <<>>
ms_build_plan(op) ==
    LET mode == ModeOf(op)
        cls == Class(op)
    IN CASE cls = "READ" -> IF mode = "imm" THEN <<"IMM">> ELSE plan_addressing(mode, FALSE) \o <<"READ_DATA">>
         [] cls \in {"WRITE", "WRITE_UNSTABLE"} -> plan_addressing(mode, TRUE) \o <<"WRITE_DATA">>
         [] cls = "RMW" -> plan_addressing(mode, TRUE) \o <<"READ_DATA", "RMW_ORIG", "RMW_NEW">>
         [] cls = "BRANCH" -> <<"FETCH_LO", "BRANCH_TAKEN", "BRANCH_PAGE">>
         [] cls = "JMP" -> <<"FETCH_LO", "JMP_HI">>
         [] cls = "JMP_IND" -> <<"FETCH_LO", "FETCH_HI", "JMP_IND_LO", "JMP_IND_HI">>
         [] cls = "JSR" -> <<"FETCH_LO", "STACK_DUMMY", "PUSH_PCH", "PUSH_PCL", "JMP_HI">>
         [] cls = "RTS" -> <<"DUMMY_PC", "STACK_DUMMY", "PULL_PCL", "PULL_PCH", "RTS_FIXUP">>
         [] cls = "RTI" -> <<"DUMMY_PC", "STACK_DUMMY", "PULL_P", "PULL_PCL", "PULL_PCH">>
         [] cls = "PHA" -> <<"DUMMY_PC", "PUSH_A">>
         [] cls = "PHP" -> <<"DUMMY_PC", "PUSH_P_BRK">>
         [] cls = "PLA" -> <<"DUMMY_PC", "STACK_DUMMY", "PULL_A">>
         [] cls = "PLP" -> <<"DUMMY_PC", "STACK_DUMMY", "PULL_P">>
         [] cls = "BRK" -> <<"BRK_SIGN", "PUSH_PCH", "PUSH_PCL", "PUSH_P_BRK", "VEC_LO", "VEC_HI">>
         [] cls = "JAM" -> <<"JAM">>
         [] OTHER -> <<"IMPLIED">>

\* The index register of the mode.
Index(k, mode) ==
    CASE mode \in {"abx", "zpx", "izx"} -> k.x
      [] mode \in {"aby", "zpy", "izy"} -> k.y
      [] OTHER -> 0
ms_apply_index(m, k) ==
    LET a == W16(m.addr + Index(k, ModeOf(m.op)))
    IN [m EXCEPT !.base = m.addr, !.addr = a, !.crossed = Page(m.addr) # Page(a)]
ms_unfixed(m) == Word(Page(m.base), Byte(m.addr))

\* One micro-operation: the engine and the plan after it.
To(k, m) == [k |-> k, m |-> m]
NextPc(k) == [Read(k, k.pc) EXCEPT !.pc = W16(@ + 1)]
Fetch(k, m, mop) ==
    LET v == Val(k, k.pc)
    IN CASE mop = "FETCH_LO" -> To(NextPc(k), [m EXCEPT !.ptr = v, !.adl = v, !.addr = v, !.base = v])
         [] mop = "FETCH_HI" -> To(NextPc(k), ms_apply_index([m EXCEPT !.addr = Word(v, m.adl)], k))
         [] mop = "IMM" -> To(FoldIllegal(NextPc(k), NameOf(m.op), v), m)
         [] mop = "JMP_HI" -> To([NextPc(k) EXCEPT !.pc = Word(v, m.adl)], m)
         [] mop = "BRK_SIGN" -> To(NextPc(k), m)
         [] mop = "DUMMY_PC" -> To(Read(k, k.pc), m)
         [] mop = "RTS_FIXUP" -> To(NextPc(k), m)
         [] mop = "IMPLIED" -> To(IF ModeOf(m.op) = "acc" THEN Accumulator(Read(k, k.pc), NameOf(m.op))
                                  ELSE Implied(Read(k, k.pc), NameOf(m.op)), m)
Pointer(k, m, mop) ==
    CASE mop = "ZP_INDEX" ->
            LET p == Byte(m.ptr + Index(k, ModeOf(m.op)))
            IN To(Read(k, m.ptr), [m EXCEPT !.ptr = p, !.addr = p, !.base = p, !.crossed = FALSE])
      [] mop = "PTR_LO" -> To(Read(k, m.ptr), [m EXCEPT !.adl = Val(k, m.ptr)])
      [] mop = "PTR_HI" ->
            LET j == [m EXCEPT !.addr = Word(Val(k, Byte(m.ptr + 1)), m.adl)]
            IN To(Read(k, Byte(m.ptr + 1)),
                  IF ModeOf(m.op) = "izy" THEN ms_apply_index(j, k)
                  ELSE [j EXCEPT !.base = j.addr, !.crossed = FALSE])
      [] mop \in {"DUMMY_UNFIXED", "READ_FIXUP"} -> To(Read(k, ms_unfixed(m)), m)
      [] mop = "JMP_IND_LO" -> To(Read(k, m.addr), [m EXCEPT !.data = Val(k, m.addr)])
      [] mop = "JMP_IND_HI" ->
            To([Read(k, SamePage(m.addr)) EXCEPT !.pc = Word(Val(k, SamePage(m.addr)), m.data)], m)
Data(k, m, mop) ==
    LET name == NameOf(m.op)
        v == Val(k, m.addr)
        r == cpu_rmw_apply(k, name, m.data)
        j == IF name = "TAS" THEN [k EXCEPT !.sp = k.a & k.x] ELSE k
        s == cpu_sh_unstable(m.base, m.addr, StoreValue(k, name))
    IN CASE mop = "READ_DATA" -> To(IF Class(m.op) = "READ" THEN FoldIllegal(Read(k, m.addr), name, v)
                                    ELSE Read(k, m.addr), [m EXCEPT !.data = v])
         [] mop = "WRITE_DATA" -> To(IF name \in Unstable THEN Write(j, s.to, s.v)
                                     ELSE Write(k, m.addr, StoreValue(k, name)), m)
         [] mop = "RMW_ORIG" -> To(Write(k, m.addr, m.data), m)
         [] mop = "RMW_NEW" -> To(Write(r.k, m.addr, r.v), [m EXCEPT !.data = r.v])
StackOp(k, m, mop) ==
    LET up == cpu_pull(k)
    IN CASE mop = "STACK_DUMMY" -> To(Read(k, 256 + k.sp), m)
         [] mop = "PUSH_PCH" -> To(cpu_push(k, Page(k.pc)), m)
         [] mop = "PUSH_PCL" -> To(cpu_push(k, Byte(k.pc)), m)
         [] mop = "PUSH_A" -> To(cpu_push(k, k.a), m)
         [] mop = "PUSH_P_BRK" -> To([cpu_push(k, ToByte(k.p, TRUE)) EXCEPT
                                        !.p = IF m.op = 0 THEN @ \cup {"I"} ELSE @], m)
         [] mop = "PULL_A" -> To(SetA(up, Top(up)), m)
         [] mop = "PULL_P" -> To([up EXCEPT !.p = FromByte(Top(up))], m)
         [] mop = "PULL_PCL" -> To(up, [m EXCEPT !.adl = Top(up)])
         [] mop = "PULL_PCH" -> To([up EXCEPT !.pc = Word(Top(up), m.adl)], m)
         [] mop = "VEC_LO" -> To(Read(k, 65534), [m EXCEPT !.adl = Val(k, 65534)])
         [] mop = "VEC_HI" -> To([Read(k, 65535) EXCEPT !.pc = Word(Val(k, 65535), m.adl)], m)

\* The branch: the low byte of the target first, then the page.
Branch(k, m, mop) ==
    LET target == W16(k.pc + Signed(m.ptr))
    IN IF mop = "BRANCH_TAKEN"
       THEN To([Read(k, k.pc) EXCEPT !.pc = Word(Page(k.pc), Byte(target))],
               [m EXCEPT !.crossed = Page(k.pc) # Page(target), !.base = k.pc, !.addr = target])
       ELSE To([Read(k, k.pc) EXCEPT !.pc = m.addr], m)

Micro(k, m, mop) ==
    CASE mop \in {"FETCH_LO", "FETCH_HI", "IMM", "JMP_HI", "BRK_SIGN", "DUMMY_PC", "RTS_FIXUP", "IMPLIED"} -> Fetch(k, m, mop)
      [] mop \in {"ZP_INDEX", "PTR_LO", "PTR_HI", "DUMMY_UNFIXED", "READ_FIXUP", "JMP_IND_LO", "JMP_IND_HI"} -> Pointer(k, m, mop)
      [] mop \in {"READ_DATA", "WRITE_DATA", "RMW_ORIG", "RMW_NEW"} -> Data(k, m, mop)
      [] mop \in {"BRANCH_TAKEN", "BRANCH_PAGE"} -> Branch(k, m, mop)
      [] mop = "JAM" -> To([k EXCEPT !.halted = TRUE], m)
      [] OTHER -> StackOp(k, m, mop)

MutEnds(k, m, mop) == m.i = Len(m.plan)
\* A branch that is not taken, or stays in its page, ends on this cycle.
Ends(k, m, mop) ==
    \/ m.i = Len(m.plan)
    \/ mop = "FETCH_LO" /\ Class(m.op) = "BRANCH" /\ ~BranchTaken(k.p, NameOf(m.op))
    \/ mop = "BRANCH_TAKEN" /\ ~m.crossed

\* cpu_cycle: the fetch of the opcode and the plan, then one micro-operation per call;
\* the fix-up of a read that stays in its page takes no cycle.
NoPlan == [op |-> 0, plan |-> <<>>, i |-> 0, ptr |-> 0, adl |-> 0, addr |-> 0, base |-> 0,
           crossed |-> FALSE, data |-> 0, calls |-> 0, done |-> FALSE]
FirstCycle ==
    LET op == Val(new, new.pc)
    IN /\ new' = NextPc(new)
       /\ ms' = [NoPlan EXCEPT !.op = op, !.plan = ms_build_plan(op), !.i = 1, !.calls = 1]
NextCycle ==
    LET skip == ms.plan[ms.i] = "READ_FIXUP" /\ ~ms.crossed
        m == IF skip THEN [ms EXCEPT !.i = @ + 1] ELSE ms
        mop == m.plan[m.i]
    IN \E u \in {Micro(new, m, mop)} :
        LET end == Ends(u.k, u.m, mop)
        IN /\ new' = u.k
           /\ ms' = [u.m EXCEPT !.i = @ + 1, !.calls = @ + 1, !.done = end]
cpu_cycle ==
    /\ ~ms.done
    /\ IF ms.plan = <<>> THEN FirstCycle ELSE NextCycle
    /\ UNCHANGED old

-----------------------------------------------------------------------------
\* An opcode and two operand bytes at PC; both engines start alike.
Start(s, op) ==
    [a |-> s.a, x |-> s.x, y |-> s.y, sp |-> s.sp, p |-> s.p, pc |-> s.pc, halted |-> FALSE,
     mem |-> (s.pc :> op) @@ (W16(s.pc + 1) :> s.lo) @@ (W16(s.pc + 2) :> s.hi),
     bus |-> <<>>, cycles |-> 0]
CpuInit ==
    /\ \E s \in Settings : \E op \in s.ops : old = cpu_step(Start(s, op)) /\ new = Start(s, op)
    /\ ms = NoPlan

\* The bus accesses of s are among those of t, in order.
RECURSIVE Within(_, _)
Within(s, t) ==
    IF s = <<>> THEN TRUE
    ELSE IF t = <<>> THEN FALSE
    ELSE IF Head(s) = Head(t) THEN Within(Tail(s), Tail(t)) ELSE Within(s, Tail(t))

\* microseq.h: "Both engines share the same semantics ... They differ only in
\* scheduling".  Once the instruction has ended, the registers, the flags, memory and
\* the clock are the same, whatever opcode, mode, page crossing or wrap; the accesses
\* of the historical engine are those of the other without its dummies, in order; and
\* each call of cpu_cycle was one cycle of the bus.  (A JAM stops the clock one cycle
\* earlier.)
EnginesAgree ==
    ms.done =>
        /\ [new EXCEPT !.bus = <<>>, !.cycles = 0] = [old EXCEPT !.bus = <<>>, !.cycles = 0]
        /\ Within(old.bus, new.bus)
        /\ ~new.halted => ms.calls = Len(new.bus) /\ Len(new.bus) = old.cycles

\* The arithmetic of ADC and SBC is that of numbers: in binary mode the carry and the
\* result make the 9-bit sum and V says that the signed sum does not fit; in decimal
\* mode, for operands that are decimal digits, the result and the carry make the sum
\* of two-digit numbers.  (Checked where an ADC #, $69, is about to run.)
Decimal(v) == 10 * (v \div 16) + (v % 16)
IsDecimal(v) == v % 16 < 10 /\ v \div 16 < 10
ArithmeticIsExact ==
    ms = NoPlan /\ Val(new, new.pc) = 105 => \A v \in AluBytes, c \in BOOLEAN :
        LET a == new.a
            one == IF c THEN 1 ELSE 0
            pb == IF c THEN {"C"} ELSE {}
            add == cpu_op_adc(a, v, pb)
            sub == cpu_op_sbc(a, v, pb)
            addD == cpu_op_adc(a, v, pb \cup {"D"})
            subD == cpu_op_sbc(a, v, pb \cup {"D"})
            signed == Signed(a) + Signed(v) + one
            diff == Signed(a) - Signed(v) - 1 + one
        IN /\ add.v + 256 * CarryIn(add.p) = a + v + one
           /\ sub.v - 256 * (1 - CarryIn(sub.p)) = a - v - 1 + one
           /\ ("V" \in add.p) = (signed \notin -128 .. 127) /\ ("V" \in sub.p) = (diff \notin -128 .. 127)
           /\ IsDecimal(a) /\ IsDecimal(v) =>
                /\ Decimal(addD.v) + 100 * CarryIn(addD.p) = Decimal(a) + Decimal(v) + one
                /\ Decimal(subD.v) - 100 * (1 - CarryIn(subD.p)) = Decimal(a) - Decimal(v) - 1 + one
=============================================================================
