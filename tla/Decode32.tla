------------------------------ MODULE Decode32 ------------------------------
(***************************************************************************)
(* decode_insn32 (src/inc/arch/riscv/trans_rv32.h), generated from         *)
(* insn32.decode: which trans_ function a 32-bit instruction word is given *)
(* to. A word is its six fields [op, rd, f3, rs1, rs2, f7]. The functions  *)
(* that only end the program (__NOT_IMPLEMENTED_EXIT__), all those of the  *)
(* vector extension among them, are all "stub"; "none" is a word that      *)
(* nothing matches, or that lq or sq refuses. The op of a word whose bits  *)
(* 1..0 are not 3 is that of a compressed instruction and is never seen.   *)
(***************************************************************************)
LOCAL INSTANCE Integers
LOCAL INSTANCE Sequences

\* A row has one entry for each value of f3; the last one stands for the rest.
Pick(row, w) == IF w.f3 < Len(row) THEN row[w.f3 + 1] ELSE "none"
StubIf(condition) == IF condition THEN "stub" ELSE "none"

-----------------------------------------------------------------------------
\* Loads, stores and fences.
Op03(w) == Pick(<< "lb", "lh", "lw", "ld", "lbu", "lhu", "lwu", "stub" >>, w)
Op23(w) == Pick(<< "sb", "sh", "sw", "sd" >>, w)

\* nf, mew, mop and vm in f7, lumop in rs2. Faults-only-first is for loads, a
\* whole register is stored, and a mask accessed, with the width of a byte.
VectorMemory(w, load) ==
  LET nf == w.f7 \div 16
      mew == (w.f7 \div 8) % 2
      mop == (w.f7 \div 2) % 4
      vm == w.f7 % 2
      whole == vm = 1 /\ nf \in {0, 1, 3, 7} /\ w.rs2 = 8
      mask == vm = 1 /\ nf = 0 /\ w.rs2 = 11 /\ w.f3 = 0
  IN  StubIf(mew = 0 /\ (mop # 0 \/ w.rs2 = 0 \/ (whole /\ (load \/ w.f3 = 0)) \/ mask \/ (load /\ w.rs2 = 16)))
Op07(w) == IF w.f3 \in {0, 5, 6, 7} THEN VectorMemory(w, TRUE) ELSE Pick(<< "none", "stub", "flw", "fld" >>, w)
Op27(w) == IF w.f3 \in {0, 5, 6, 7} THEN VectorMemory(w, FALSE) ELSE Pick(<< "none", "stub", "fsw", "fsd" >>, w)

Op0F(w) ==
  CASE w.f3 = 0 -> IF w.f7 = 0 /\ w.rs2 = 16 /\ w.rs1 = 0 /\ w.rd = 0 THEN "pause" ELSE "fence"
    [] w.f3 = 1 -> "fence_i"
    [] w.f3 = 2 -> StubIf(w.rd = 0 /\ w.f7 = 0 /\ w.rs2 \in {0, 1, 2, 4})
    [] OTHER -> "none"

-----------------------------------------------------------------------------
\* Immediate operations; bits 31..27 select a shift, bit 26 is in its shamt.
LeftShifts(w) ==
  CASE w.f7 \div 4 = 0  -> "slli"
    [] w.f7 \div 4 = 1  -> StubIf(w.f7 = 4 /\ w.rs2 = 15)
    [] w.f7 \div 4 = 2  -> StubIf(w.f7 = 8 /\ w.rs2 <= 9)
    [] w.f7 \div 4 = 5  -> "bseti"
    [] w.f7 \div 4 = 6  -> StubIf(w.f7 = 24 /\ (w.rs2 = 0 \/ w.rs2 >= 16))
    [] w.f7 \div 4 = 9  -> "bclri"
    [] w.f7 = 48 /\ w.rs2 <= 5 -> << "clz", "ctz", "stub", "none", "sext_b", "sext_h" >>[w.rs2 + 1]
    [] w.f7 \div 4 = 13 -> "binvi"
    [] OTHER -> "none"

RightShifts(w) ==
  CASE w.f7 \div 4 = 0  -> "srli"
    [] w.f7 \div 4 = 1  -> StubIf(w.f7 = 4 /\ w.rs2 = 15)
    [] w.f7 = 20 /\ w.rs2 = 7 -> "orc_b"
    [] w.f7 \div 4 = 8  -> "srai"
    [] w.f7 \div 4 = 9  -> "bexti"
    [] w.f7 \div 4 = 12 -> "rori"
    [] w.f7 = 52 /\ w.rs2 = 7 -> "brev8"
    [] w.f7 = 52 /\ w.rs2 = 24 -> "rev8_32"
    [] w.f7 = 53 /\ w.rs2 = 24 -> "rev8_64"
    [] OTHER -> "none"

Op13(w) ==
  CASE w.f3 = 1 -> LeftShifts(w)
    [] w.f3 = 5 -> RightShifts(w)
    [] OTHER -> Pick(<< "addi", "none", "slti", "sltiu", "xori", "none", "ori", "andi" >>, w)

Op1B(w) ==
  CASE w.f3 = 0 -> "addiw"
    [] w.f3 = 1 /\ w.f7 = 0 -> "slliw"
    [] w.f3 = 1 /\ w.f7 \div 4 = 1 -> "slli_uw"
    [] w.f3 = 1 /\ w.f7 = 48 /\ w.rs2 <= 2 -> << "clzw", "ctzw", "stub" >>[w.rs2 + 1]
    [] w.f3 = 5 /\ w.f7 = 0 -> "srliw"
    [] w.f3 = 5 /\ w.f7 = 32 -> "sraiw"
    [] w.f3 = 5 /\ w.f7 = 48 -> "roriw"
    [] OTHER -> "none"

Op17(w) == IF w.rd = 0 THEN "stub" ELSE "auipc"

-----------------------------------------------------------------------------
\* The atomic operations, by bits 31..27; .b, .h and .q are stubs.
Sized(w, word, double) == Pick(<< "stub", "stub", word, double >>, w)
WordOrDouble(w, word, double) == Pick(<< "none", "none", word, double >>, w)
AmoLow(w) ==
  CASE w.f7 \div 4 = 0 -> Sized(w, "amoadd_w", "amoadd_d")
    [] w.f7 \div 4 = 1 -> Sized(w, "amoswap_w", "amoswap_d")
    [] w.f7 \div 4 = 2 -> IF w.rs2 = 0 THEN WordOrDouble(w, "lr_w", "lr_d") ELSE "none"
    [] w.f7 \div 4 = 3 -> WordOrDouble(w, "sc_w", "sc_d")
    [] w.f7 \div 4 = 4 -> Sized(w, "amoxor_w", "amoxor_d")
    [] w.f7 \div 4 = 5 -> StubIf(w.f3 <= 4)
    [] w.f7 \div 4 = 8 -> Sized(w, "amoor_w", "amoor_d")
    [] OTHER -> "none"
AmoHigh(w) ==
  CASE w.f7 \div 4 = 9  -> WordOrDouble(w, "stub", "stub")
    [] w.f7 \div 4 = 12 -> Sized(w, "amoand_w", "amoand_d")
    [] w.f7 \div 4 = 16 -> Sized(w, "amomin_w", "amomin_d")
    [] w.f7 \div 4 = 20 -> Sized(w, "amomax_w", "amomax_d")
    [] w.f7 \div 4 = 24 -> Sized(w, "amominu_w", "amominu_d")
    [] w.f7 \div 4 = 28 -> Sized(w, "amomaxu_w", "amomaxu_d")
    [] OTHER -> "none"
Op2F(w) == IF w.f7 < 36 THEN AmoLow(w) ELSE AmoHigh(w)

\* Register operations, by the five low bits of f7 first.
Base33(w) ==
  CASE w.f7 = 0  -> Pick(<< "add", "sll", "slt", "sltu", "xor", "srl", "or", "and" >>, w)
    [] w.f7 = 32 -> Pick(<< "sub", "none", "none", "none", "xnor", "sra", "orn", "andn" >>, w)
    [] OTHER -> "none"
Multiply33(w) ==
  IF w.f7 = 1 THEN Pick(<< "mul", "mulh", "stub", "mulhu", "div", "divu", "rem", "remu" >>, w) ELSE "none"
\* Fault for the mutation run: the pattern of pack is tried before that of zext.h.
Pack33First(w) ==
  CASE w.f7 = 36 -> Pick(<< "none", "bclr", "none", "none", "none", "bext" >>, w)
    [] w.f7 = 4  -> Pick(<< "none", "none", "none", "none", "pack", "none", "none", "packh" >>, w)
    [] OTHER -> "none"
Pack33(w) ==
  CASE w.f7 = 36 -> Pick(<< "none", "bclr", "none", "none", "none", "bext" >>, w)
    [] w.f7 = 4  -> Pick(<< "none", "none", "none", "none", IF w.rs2 = 0 THEN "stub" ELSE "pack", "none", "none", "packh" >>, w)
    [] OTHER -> "none"
MinMax33(w) ==
  IF w.f7 = 5 THEN Pick(<< "none", "stub", "stub", "stub", "min", "minu", "max", "maxu" >>, w) ELSE "none"
Hash33(w) == StubIf((w.f7 = 7 /\ w.f3 \in {5, 7}) \/ (w.f7 \in {40, 41, 42, 43, 46, 47} /\ w.f3 = 0))
Rotate33(w) ==
  CASE w.f7 = 48 -> Pick(<< "none", "rol", "none", "none", "none", "ror" >>, w)
    [] w.f7 = 16 -> Pick(<< "none", "none", "sh1add", "none", "sh2add", "none", "sh3add" >>, w)
    [] OTHER -> "none"
Crypto33(w) ==
  CASE w.f7 = 20 /\ w.f3 \in {1, 2, 4} -> Pick(<< "none", "bset", "stub", "none", "stub" >>, w)
    [] w.f7 = 52 /\ w.f3 = 1 -> "binv"
    [] OTHER -> StubIf(w.f3 = 0 /\ (w.f7 % 32 \in {17, 19, 21, 23, 24, 26} \/ w.f7 \in {25, 27, 29, 31, 63}))
Op33(w) ==
  LET low == w.f7 % 32 IN
  CASE low = 0 -> Base33(w)    [] low = 1 -> Multiply33(w)    [] low = 4 -> Pack33(w)    [] low = 5 -> MinMax33(w)
    [] low \in 7 .. 15 -> Hash33(w)    [] low = 16 -> Rotate33(w)    [] OTHER -> Crypto33(w)

Op3B(w) ==
  CASE w.f7 = 0  -> Pick(<< "addw", "sllw", "none", "none", "none", "srlw" >>, w)
    [] w.f7 = 1  -> Pick(<< "mulw", "none", "none", "none", "divw", "divuw", "remw", "remuw" >>, w)
    [] w.f7 = 4  -> Pick(<< "add_uw", "none", "none", "none", IF w.rs2 = 0 THEN "zext_h_64" ELSE "packw" >>, w)
    [] w.f7 = 16 -> Pick(<< "none", "none", "sh1add_uw", "none", "sh2add_uw", "none", "sh3add_uw" >>, w)
    [] w.f7 = 32 -> Pick(<< "subw", "none", "none", "none", "none", "sraw" >>, w)
    [] w.f7 = 48 -> Pick(<< "none", "rolw", "none", "none", "none", "rorw" >>, w)
    [] OTHER -> "none"

-----------------------------------------------------------------------------
\* Floating point, by the format: single, double, half.
Fma(w) == IF w.f7 % 4 = 1 /\ w.op = 67 THEN "fmadd_d" ELSE StubIf(w.f7 % 4 < 3)
Arithmetic53(w) ==
  CASE w.f7 \in {0, 4, 8, 12} -> << "fadd_s", "fsub_s", "fmul_s", "fdiv_s" >>[w.f7 \div 4 + 1]
    [] w.f7 \in {1, 5, 9, 13} -> << "fadd_d", "fsub_d", "fmul_d", "fdiv_d" >>[w.f7 \div 4 + 1]
    [] OTHER -> StubIf(w.f7 % 4 = 2)
SignMinMax53(w) ==
  CASE w.f7 = 16 -> Pick(<< "fsgnj_s", "fsgnjn_s", "fsgnjx_s" >>, w)
    [] w.f7 = 17 -> Pick(<< "fsgnj_d", "fsgnjn_d", "fsgnjx_d" >>, w)
    [] w.f7 = 18 -> StubIf(w.f3 <= 2)
    [] w.f7 = 21 /\ w.f3 = 0 -> "fmin_d"
    [] OTHER -> StubIf(w.f7 \in 20 .. 22 /\ w.f3 <= 3)
Convert53(w) ==
  CASE w.f7 = 32 /\ w.rs2 = 1 -> "fcvt_s_d"
    [] w.f7 = 33 /\ w.rs2 = 0 -> "fcvt_d_s"
    [] w.f7 = 32 -> StubIf(w.rs2 \in {2, 4, 5, 6})
    [] w.f7 = 33 -> StubIf(w.rs2 \in {2, 4, 5})
    [] w.f7 = 34 -> StubIf(w.rs2 \in {0, 1, 4, 5, 8})
    [] OTHER -> StubIf(w.f7 \in 44 .. 46 /\ w.rs2 = 0)
Compare53(w) ==
  CASE w.f7 = 80 -> Pick(<< "fle_s", "flt_s", "stub", "none", "stub", "stub" >>, w)
    [] w.f7 = 81 -> Pick(<< "fle_d", "flt_d", "feq_d", "none", "stub", "stub" >>, w)
    [] w.f7 = 82 -> StubIf(w.f3 \in {0, 1, 2, 4, 5})
    [] OTHER -> StubIf(w.f7 = 89 /\ w.f3 = 0)
ToInteger53(w) ==
  CASE w.f7 = 96 /\ w.rs2 <= 3 -> << "fcvt_w_s", "stub", "fcvt_l_s", "fcvt_lu_s" >>[w.rs2 + 1]
    [] w.f7 = 97 /\ w.rs2 <= 3 -> << "fcvt_w_d", "fcvt_wu_d", "fcvt_l_d", "fcvt_lu_d" >>[w.rs2 + 1]
    [] w.f7 = 97 -> StubIf(w.rs2 = 8 /\ w.f3 = 1)
    [] OTHER -> StubIf(w.f7 = 98 /\ w.rs2 <= 3)
FromInteger53(w) ==
  CASE w.f7 = 104 /\ w.rs2 <= 3 -> << "fcvt_s_w", "fcvt_s_wu", "fcvt_s_l", "fcvt_s_lu" >>[w.rs2 + 1]
    [] w.f7 = 105 /\ w.rs2 <= 3 -> << "fcvt_d_w", "fcvt_d_wu", "fcvt_d_l", "fcvt_d_lu" >>[w.rs2 + 1]
    [] OTHER -> StubIf(w.f7 = 106 /\ w.rs2 <= 3)
Move53(w) ==
  CASE w.rs2 = 0 /\ w.f7 = 112 -> Pick(<< "fmv_x_w", "stub" >>, w)
    [] w.rs2 = 0 /\ w.f7 = 113 -> Pick(<< "fmv_x_d", "stub" >>, w)
    [] w.rs2 = 1 /\ w.f7 = 113 -> StubIf(w.f3 = 0)
    [] w.rs2 = 0 /\ w.f7 = 114 -> StubIf(w.f3 <= 1)
    [] w.rs2 = 0 /\ w.f7 = 120 /\ w.f3 = 0 -> "fmv_w_x"
    [] w.rs2 = 0 /\ w.f7 = 121 /\ w.f3 = 0 -> "fmv_d_x"
    [] OTHER -> StubIf(w.f7 \in 120 .. 122 /\ w.rs2 <= 1 /\ w.f3 = 0)
Op53(w) ==
  CASE w.f7 < 16 -> Arithmetic53(w)    [] w.f7 \in 16 .. 31 -> SignMinMax53(w)    [] w.f7 \in 32 .. 79 -> Convert53(w)
    [] w.f7 \in 80 .. 95 -> Compare53(w)    [] w.f7 \in 96 .. 103 -> ToInteger53(w)
    [] w.f7 \in 104 .. 111 -> FromInteger53(w)    [] OTHER -> Move53(w)

-----------------------------------------------------------------------------
\* Vector arithmetic, by f3 and bit 31; funct6 and vm make up f7.
F6(w) == w.f7 \div 2
Vm(w) == w.f7 % 2
\* funct6 16 and 18 are masked, 23 is a merge or, unmasked, a move.
WithCarry(w) == (F6(w) \in {16, 18} /\ Vm(w) = 0) \/ (F6(w) = 23 /\ (Vm(w) = 0 \/ w.rs2 = 0))
OpIVV0(w) == F6(w) \in {0, 1, 2, 14, 17} \cup (4 .. 7) \cup (9 .. 12) \cup (19 .. 21) \cup (24 .. 29) \/ WithCarry(w)
OpIVV1(w) == F6(w) \in (32 .. 35) \cup {37, 53} \cup (39 .. 49)
OpFVV0(w) ==
  \/ F6(w) \in (0 .. 10) \cup {24, 25, 27, 28}
  \/ F6(w) = 16 /\ Vm(w) = 1 /\ w.rs1 = 0
  \/ F6(w) = 18 /\ w.rs1 \in (0 .. 3) \cup (6 .. 23) \cup {29}
  \/ F6(w) = 19 /\ w.rs1 \in {0, 4, 5, 16}
OpFVV1(w) == F6(w) \in {32, 36, 54, 56} \cup (40 .. 52) \cup (59 .. 63)
OpMVV0(w) ==
  \/ F6(w) \in (0 .. 13) \cup (23 .. 31)
  \/ F6(w) = 16 /\ (w.rs1 \in {16, 17} \/ (w.rs1 = 0 /\ Vm(w) = 1))
  \/ F6(w) = 18 /\ w.rs1 \in (2 .. 10) \cup (12 .. 14)
  \/ F6(w) = 20 /\ (w.rs1 \in {1, 2, 3, 16} \/ (w.rs1 = 17 /\ w.rs2 = 0))
OpMVV1(w) == F6(w) \in (32 .. 39) \cup {41, 43, 45, 63} \cup (47 .. 56) \cup (58 .. 61)
OpIVI0(w) ==
  \/ F6(w) \in {0, 3, 14, 15, 17, 20, 21, 24, 25} \cup (9 .. 12) \cup (28 .. 31)
  \/ F6(w) # 18 /\ WithCarry(w)
OpIVI1(w) == F6(w) \in {32, 33, 37, 53} \cup (40 .. 47) \/ (F6(w) = 39 /\ Vm(w) = 1 /\ w.rs1 \in {0, 1, 3, 7})
OpIVX0(w) == F6(w) \in (0 .. 7) \cup {14, 15, 17} \cup (9 .. 12) \cup (19 .. 21) \cup (24 .. 31) \/ WithCarry(w)
OpIVX1(w) == F6(w) \in (32 .. 35) \cup {37, 53} \cup (39 .. 47)
OpFVF0(w) ==
  \/ F6(w) \in {0, 2, 4, 6, 14, 15, 24, 25, 31} \cup (8 .. 10) \cup (27 .. 29)
  \/ F6(w) = 16 /\ Vm(w) = 1 /\ w.rs2 = 0
  \/ F6(w) = 23 /\ WithCarry(w)
OpFVF1(w) == F6(w) \in {32, 33, 36, 50, 52, 54, 56} \cup (39 .. 48) \cup (59 .. 63)
OpMVX0(w) == F6(w) \in 8 .. 15 \/ (F6(w) = 16 /\ Vm(w) = 1 /\ w.rs2 = 0)
OpMVX1(w) == F6(w) \in (32 .. 39) \cup {41, 43, 45} \cup (47 .. 56) \cup (58 .. 63)
VectorConfig(w) == w.f7 < 64 \/ w.f7 = 64 \/ w.f7 >= 96
Op57(w) ==
  StubIf(CASE w.f3 = 0 -> IF w.f7 < 64 THEN OpIVV0(w) ELSE OpIVV1(w)
           [] w.f3 = 1 -> IF w.f7 < 64 THEN OpFVV0(w) ELSE OpFVV1(w)
           [] w.f3 = 2 -> IF w.f7 < 64 THEN OpMVV0(w) ELSE OpMVV1(w)
           [] w.f3 = 3 -> IF w.f7 < 64 THEN OpIVI0(w) ELSE OpIVI1(w)
           [] w.f3 = 4 -> IF w.f7 < 64 THEN OpIVX0(w) ELSE OpIVX1(w)
           [] w.f3 = 5 -> IF w.f7 < 64 THEN OpFVF0(w) ELSE OpFVF1(w)
           [] w.f3 = 6 -> IF w.f7 < 64 THEN OpMVX0(w) ELSE OpMVX1(w)
           [] w.f3 = 7 -> VectorConfig(w))
\* Vector cryptography, all unmasked and with f3 = 2.
Op77(w) ==
  StubIf(/\ w.f3 = 2
         /\ \/ w.f7 \in {65, 67, 69, 85, 87, 89, 91, 93, 95}
            \/ w.f7 = 81 /\ w.rs1 \in {0, 1, 2, 3, 16, 17}
            \/ w.f7 = 83 /\ w.rs1 \in {0, 1, 2, 3, 7, 16})

-----------------------------------------------------------------------------
\* Control transfer and system instructions.
Op63(w) == Pick(<< "beq", "bne", "none", "none", "blt", "bge", "bltu", "bgeu" >>, w)
Op67(w) == Pick(<< "jalr" >>, w)
Privileged(w) ==
  IF w.rd # 0 THEN "none"
  ELSE CASE w.f7 = 0 /\ w.rs1 = 0 /\ w.rs2 \in {0, 1} -> << "ecall", "ebreak" >>[w.rs2 + 1]
         [] w.f7 = 0 /\ w.rs1 = 0 -> StubIf(w.rs2 \in {2, 13, 29})
         [] w.f7 = 8 /\ w.rs1 = 0 /\ w.rs2 = 2 -> "sret"
         [] w.f7 = 8 /\ w.rs1 = 0 /\ w.rs2 = 5 -> "wfi"
         [] w.f7 = 8 -> StubIf(w.rs2 = 4)
         [] w.f7 = 9 -> "sfence_vma"
         [] w.f7 = 24 /\ w.rs1 = 0 /\ w.rs2 = 2 -> "mret"
         [] OTHER -> StubIf(w.f7 \in {11, 17, 19, 49, 51} \/ (w.f7 = 12 /\ w.rs1 = 0 /\ w.rs2 \in {0, 1}))
\* Hypervisor loads and stores, then the may-be-operations.
Hypervisor(w) ==
  StubIf(\/ (w.f7 \in {48, 50, 52} /\ w.rs2 \in {0, 1}) \/ (w.f7 \in {50, 52} /\ w.rs2 = 3) \/ (w.f7 = 54 /\ w.rs2 = 0)
         \/ w.f7 \in {49, 51, 53, 55} /\ w.rd = 0
         \/ w.f7 \div 64 = 1 /\ (w.f7 \div 8) % 4 = 0 /\ (w.f7 % 2 = 1 \/ w.rs2 >= 28))
Csrs(w) == Pick(<< "none", "csrrw", "csrrs", "csrrc", "none", "csrrwi", "csrrsi", "csrrci" >>, w)
Op73(w) == CASE w.f3 = 0 -> Privileged(w) [] w.f3 = 4 -> Hypervisor(w) [] OTHER -> Csrs(w)

\* RV128.
Op5B(w) == StubIf(w.f3 = 0 \/ (w.f3 \in {1, 5} /\ w.f7 \div 2 = 0) \/ (w.f3 = 5 /\ w.f7 \div 2 = 16))
Op7B(w) == StubIf((w.f7 = 0 /\ w.f3 \in {0, 1, 5}) \/ (w.f7 = 1 /\ w.f3 \in {0, 4, 5, 6, 7}) \/ (w.f7 = 32 /\ w.f3 \in {0, 5}))

Opcodes == {3, 7, 15, 19, 23, 27, 35, 39, 47, 51, 55, 59, 67, 71, 75, 79, 83, 87, 91, 99, 103, 111, 115, 119, 123}
DecodeInsn32(w) ==
  CASE w.op = 3 -> Op03(w)     [] w.op = 7 -> Op07(w)      [] w.op = 15 -> Op0F(w)    [] w.op = 19 -> Op13(w)
    [] w.op = 23 -> Op17(w)    [] w.op = 27 -> Op1B(w)     [] w.op = 35 -> Op23(w)    [] w.op = 39 -> Op27(w)
    [] w.op = 47 -> Op2F(w)    [] w.op = 51 -> Op33(w)     [] w.op = 55 -> "lui"      [] w.op = 59 -> Op3B(w)
    [] w.op \in {67, 71, 75, 79} -> Fma(w)                 [] w.op = 83 -> Op53(w)    [] w.op = 87 -> Op57(w)
    [] w.op = 91 -> Op5B(w)    [] w.op = 99 -> Op63(w)     [] w.op = 103 -> Op67(w)   [] w.op = 111 -> "jal"
    [] w.op = 115 -> Op73(w)   [] w.op = 119 -> Op77(w)    [] w.op = 123 -> Op7B(w)   [] OTHER -> "none"

-----------------------------------------------------------------------------
\* The decode_insn32_extract_ functions of the integer formats.
Signed(v, bits) == IF v >= 2 ^ (bits - 1) THEN v - 2 ^ bits ELSE v
ExtractR(w) == [rd |-> w.rd, rs1 |-> w.rs1, rs2 |-> w.rs2]
ExtractI(w) == [rd |-> w.rd, rs1 |-> w.rs1, imm |-> Signed(w.f7 * 32 + w.rs2, 12)]
ExtractS(w) == [rs1 |-> w.rs1, rs2 |-> w.rs2, imm |-> Signed(w.f7, 7) * 32 + w.rd]
ExtractB(w) ==
  [rs1 |-> w.rs1, rs2 |-> w.rs2,
   imm |-> 2 * (w.rd \div 2 + 16 * (w.f7 % 64) + 1024 * (w.rd % 2) - 2048 * (w.f7 \div 64))]
\* In pages: ex_shift_12 is left out.
ExtractU(w) == [rd |-> w.rd, imm |-> Signed(w.f7 * 8192 + w.rs2 * 256 + w.rs1 * 8 + w.f3, 20)]
ExtractJ(w) ==
  [rd |-> w.rd,
   imm |-> 2 * ((w.f7 % 64) * 16 + w.rs2 \div 2 + 1024 * (w.rs2 % 2) + 2048 * (w.rs1 * 8 + w.f3) - 524288 * (w.f7 \div 64))]
ExtractSh(w) == [rd |-> w.rd, rs1 |-> w.rs1, shamt |-> (w.f7 % 4) * 32 + w.rs2]
ExtractSh5(w) == [rd |-> w.rd, rs1 |-> w.rs1, shamt |-> w.rs2]
ExtractCsr(w) == [rd |-> w.rd, rs1 |-> w.rs1, csr |-> w.f7 * 32 + w.rs2]
ExtractAtomic(w) == [rd |-> w.rd, rs1 |-> w.rs1, rs2 |-> w.rs2, aq |-> (w.f7 \div 2) % 2, rl |-> w.f7 % 2]
\* The extract call before the trans_ function of an integer operation.
Operands(w) ==
  CASE w.op \in {3, 7, 103} \/ (w.op = 19 /\ w.f3 \notin {1, 5}) \/ (w.op = 27 /\ w.f3 = 0) -> ExtractI(w)
    [] w.op = 19 /\ w.f3 \in {1, 5} -> ExtractSh(w)
    [] w.op = 27 /\ w.f3 # 0 -> ExtractSh5(w)
    [] w.op \in {35, 39} -> ExtractS(w)
    [] w.op = 99 -> ExtractB(w)
    [] w.op \in {23, 55} -> ExtractU(w)
    [] w.op = 111 -> ExtractJ(w)
    [] w.op = 47 -> ExtractAtomic(w)
    [] w.op = 115 -> IF w.f3 = 0 THEN << >> ELSE ExtractCsr(w)
    [] OTHER -> ExtractR(w)
=============================================================================
