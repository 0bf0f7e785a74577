------------------------------ MODULE Decode16 ------------------------------
(***************************************************************************)
(* decode_insn16 (src/inc/arch/riscv/trans_rv16.h), generated from         *)
(* insn16.decode: which trans_ function a compressed instruction is given  *)
(* to, and with which operands. The functions are those of the 32-bit      *)
(* instructions; c_fld and c_fsd call fld and fsd. The rest end the        *)
(* program, what is meant to be illegal too ("stub"), and a word that lq   *)
(* or sq refuses goes to the next pattern. A word is a number below 2^16.  *)
(***************************************************************************)
LOCAL INSTANCE Integers

\* extract32
Bits(w, lo, n) == (w \div 2 ^ lo) % 2 ^ n
Bit(w, b) == Bits(w, b, 1)

\* The registers of the three-bit fields (ex_rvc_register) and the full ones.
RvcRegister(n) == n + 8
Low3(w) == RvcRegister(Bits(w, 2, 3))
Mid3(w) == RvcRegister(Bits(w, 7, 3))
Low5(w) == Bits(w, 2, 5)
Mid5(w) == Bits(w, 7, 5)

To(trans, args) == [trans |-> trans, args |-> args]
Stub == [trans |-> "stub"]
NoMatch == [trans |-> "none"]

-----------------------------------------------------------------------------
\* The extract functions; the most significant bit of a signed one is bit 12.
C_addi16sp(w) ==
  [rd |-> 2, rs1 |-> 2,
   imm |-> 16 * (Bit(w, 6) + 2 * Bit(w, 2) + 4 * Bit(w, 5) + 8 * Bits(w, 3, 2) - 32 * Bit(w, 12))]
C_addi4spn(w) ==
  [rd |-> Low3(w), rs1 |-> 2, imm |-> 4 * (Bit(w, 6) + 2 * Bit(w, 5) + 4 * Bits(w, 11, 2) + 16 * Bits(w, 7, 4))]
\* ci and its like: six bits with a sign.
SixBits(w) == Low5(w) - 32 * Bit(w, 12)
C_andi(w) == [rd |-> Mid3(w), rs1 |-> Mid3(w), imm |-> SixBits(w)]
C_li(w)   == [rd |-> Mid5(w), rs1 |-> 0, imm |-> SixBits(w)]
C_lui(w)  == [rd |-> Mid5(w), imm |-> SixBits(w)]
Ci(w)     == [rd |-> Mid5(w), rs1 |-> Mid5(w), imm |-> SixBits(w)]
C_jalr(w, rd) == [rd |-> rd, rs1 |-> Mid5(w), imm |-> 0]
C_mv(w)   == [rd |-> Mid5(w), rs1 |-> Low5(w), imm |-> 0]
C_shift(w)  == [rd |-> Mid3(w), rs1 |-> Mid3(w), shamt |-> Low5(w) + 32 * Bit(w, 12)]
C_shift2(w) == [rd |-> Mid5(w), rs1 |-> Mid5(w), shamt |-> Low5(w) + 32 * Bit(w, 12)]
C_ldsp(w) == [rd |-> Mid5(w), rs1 |-> 2, imm |-> 8 * (Bits(w, 5, 2) + 4 * Bit(w, 12) + 8 * Bits(w, 2, 3))]
C_lwsp(w) == [rd |-> Mid5(w), rs1 |-> 2, imm |-> 4 * (Bits(w, 4, 3) + 8 * Bit(w, 12) + 16 * Bits(w, 2, 2))]
C_sdsp(w) == [rs1 |-> 2, rs2 |-> Low5(w), imm |-> 8 * (Bits(w, 10, 3) + 8 * Bits(w, 7, 3))]
C_swsp(w) == [rs1 |-> 2, rs2 |-> Low5(w), imm |-> 4 * (Bits(w, 9, 4) + 16 * Bits(w, 7, 2))]
Cl_d(w) == [rd |-> Low3(w), rs1 |-> Mid3(w), imm |-> 8 * (Bits(w, 10, 3) + 8 * Bits(w, 5, 2))]
\* Fault for the mutation run: bits 5 and 6 change places.
Cl_wSwapped(w) == [rd |-> Low3(w), rs1 |-> Mid3(w), imm |-> 4 * (Bit(w, 5) + 2 * Bits(w, 10, 3) + 16 * Bit(w, 6))]
Cl_w(w) == [rd |-> Low3(w), rs1 |-> Mid3(w), imm |-> 4 * (Bit(w, 6) + 2 * Bits(w, 10, 3) + 16 * Bit(w, 5))]
Cs_d(w) == [rs1 |-> Mid3(w), rs2 |-> Low3(w), imm |-> 8 * (Bits(w, 10, 3) + 8 * Bits(w, 5, 2))]
Cs_w(w) == [rs1 |-> Mid3(w), rs2 |-> Low3(w), imm |-> 4 * (Bit(w, 6) + 2 * Bits(w, 10, 3) + 16 * Bit(w, 5))]
Cb_z(w) ==
  [rs1 |-> Mid3(w), rs2 |-> 0,
   imm |-> 2 * (Bits(w, 3, 2) + 4 * Bits(w, 10, 2) + 16 * Bit(w, 2) + 32 * Bits(w, 5, 2) - 128 * Bit(w, 12))]
Cj(w, rd) ==
  [rd |-> rd,
   imm |-> 2 * (Bits(w, 3, 3) + 8 * Bit(w, 11) + 16 * Bit(w, 2) + 32 * Bit(w, 7) + 64 * Bit(w, 6) + 128 * Bits(w, 9, 2)
                + 512 * Bit(w, 8) - 1024 * Bit(w, 12))]
Cr(w)   == [rd |-> Mid5(w), rs1 |-> Mid5(w), rs2 |-> Low5(w)]
Cs_2(w) == [rd |-> Mid3(w), rs1 |-> Mid3(w), rs2 |-> Low3(w)]

-----------------------------------------------------------------------------
\* The cases of insn & 0xe003: the quadrant in bits 1..0, then bits 15..13.
\* Zcb, in what would be the reserved encodings of quadrant 0.
Zcb(w) == IF Bits(w, 10, 3) \in 0 .. 2 \/ (Bits(w, 10, 3) = 3 /\ Bit(w, 6) = 0) THEN Stub ELSE NoMatch
Quadrant0(w) ==
  LET f3 == Bits(w, 13, 3) IN
  CASE f3 = 0 -> IF Bits(w, 5, 8) = 0 THEN Stub ELSE To("addi", C_addi4spn(w))
    [] f3 = 1 -> To("fld", Cl_d(w))
    [] f3 = 2 -> To("lw", Cl_w(w))
    [] f3 = 3 -> To("ld", Cl_d(w))
    [] f3 = 4 -> Zcb(w)
    [] f3 = 5 -> To("fsd", Cs_d(w))
    [] f3 = 6 -> To("sw", Cs_w(w))
    [] f3 = 7 -> To("sd", Cs_d(w))

\* With a zero immediate: Zcmop, the shadow stack or, reserved, illegal.
AddiLui(w) ==
  IF SixBits(w) = 0 THEN Stub
  ELSE IF Mid5(w) = 2 THEN To("addi", C_addi16sp(w)) ELSE To("lui", C_lui(w))
RegisterPair(w) ==
  LET op == 4 * Bit(w, 12) + Bits(w, 5, 2) IN
  CASE op <= 5 -> To(<< "sub", "xor", "or", "and", "subw", "addw" >>[op + 1], Cs_2(w))
    [] op = 6  -> Stub
    [] op = 7  -> IF Bits(w, 2, 3) <= 5 THEN Stub ELSE NoMatch
Arithmetic(w) ==
  LET op == Bits(w, 10, 2) IN
  CASE op = 0 -> To("srli", C_shift(w))
    [] op = 1 -> To("srai", C_shift(w))
    [] op = 2 -> To("andi", C_andi(w))
    [] op = 3 -> RegisterPair(w)
Quadrant1(w) ==
  LET f3 == Bits(w, 13, 3) IN
  CASE f3 = 0 -> To("addi", Ci(w))
    [] f3 = 1 -> IF Mid5(w) = 0 THEN Stub ELSE To("addiw", Ci(w))
    [] f3 = 2 -> To("addi", C_li(w))
    [] f3 = 3 -> AddiLui(w)
    [] f3 = 4 -> Arithmetic(w)
    [] f3 = 5 -> To("jal", Cj(w, 0))
    [] f3 = 6 -> To("beq", Cb_z(w))
    [] f3 = 7 -> To("bne", Cb_z(w))

JumpMove(w) ==
  IF Low5(w) = 0
    THEN IF Mid5(w) # 0 THEN To("jalr", C_jalr(w, Bit(w, 12)))
         ELSE IF Bit(w, 12) = 1 THEN To("ebreak", << >>) ELSE Stub
    ELSE IF Bit(w, 12) = 1 THEN To("add", Cr(w)) ELSE To("addi", C_mv(w))
Quadrant2(w) ==
  LET f3 == Bits(w, 13, 3) IN
  CASE f3 = 0 -> To("slli", C_shift2(w))
    [] f3 = 1 -> To("fld", C_ldsp(w))
    [] f3 = 2 -> IF Mid5(w) = 0 THEN Stub ELSE To("lw", C_lwsp(w))
    [] f3 = 3 -> IF Mid5(w) = 0 THEN Stub ELSE To("ld", C_ldsp(w))
    [] f3 = 4 -> JumpMove(w)
    [] f3 = 5 -> To("fsd", C_sdsp(w))
    [] f3 = 6 -> To("sw", C_swsp(w))
    [] f3 = 7 -> To("sd", C_sdsp(w))

DecodeInsn16(w) ==
  CASE w % 4 = 0 -> Quadrant0(w) [] w % 4 = 1 -> Quadrant1(w) [] w % 4 = 2 -> Quadrant2(w)
=============================================================================
