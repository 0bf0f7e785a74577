----------------------------- MODULE Encodings -----------------------------
(***************************************************************************)
(* The instruction set manual's listings, by extension: the encoding of    *)
(* every instruction that interpreter.cpp implements, and the places of    *)
(* the immediate bits in a compressed one. It is the reference for the     *)
(* decoders and shares nothing with them.                                  *)
(***************************************************************************)
EXTENDS Records
LOCAL INSTANCE Integers
LOCAL INSTANCE Sequences

AnyField == [f3 |-> 0 .. 7, f7 |-> 0 .. 127, rs2 |-> 0 .. 31, rs1 |-> 0 .. 31, rd |-> 0 .. 31]
Encoding(trans, op, fixed) == [trans |-> trans, op |-> op] ++ fixed ++ AnyField

\* A listing is a record from mnemonics to what tells them apart.
ByF3(op, list) == {Encoding(n, op, [f3 |-> {list[n]}]) : n \in DOMAIN list}
ByF7F3(op, list) == {Encoding(n, op, [f7 |-> {list[n][1]}, f3 |-> {list[n][2]}]) : n \in DOMAIN list}
ByF7F3Rs2(op, list) ==
  {Encoding(n, op, [f7 |-> {list[n][1]}, f3 |-> {list[n][2]}, rs2 |-> {list[n][3]}]) : n \in DOMAIN list}
ByF7(list) == {Encoding(n, 83, [f7 |-> {list[n]}]) : n \in DOMAIN list}
ByF7Rs2(list) == {Encoding(n, 83, [f7 |-> {list[n][1]}, rs2 |-> {list[n][2]}]) : n \in DOMAIN list}
\* Bits 31..27 and f3; seven bits of shift amount, or the aq and rl bits.
ByF5F3(op, list) ==
  {Encoding(n, op, [f7 |-> 4 * list[n][1] .. 4 * list[n][1] + 3, f3 |-> {list[n][2]}]) : n \in DOMAIN list}
System(list) ==
  {Encoding(n, 115, [f7 |-> {list[n][1]}, rs2 |-> {list[n][2]}, f3 |-> {0}, rs1 |-> {0}, rd |-> {0}]) : n \in DOMAIN list}

Transfers ==
  {Encoding("jal", 111, << >>)} \cup ByF3(103, [jalr |-> 0])
  \cup ByF3(99, [beq |-> 0, bne |-> 1, blt |-> 4, bge |-> 5, bltu |-> 6, bgeu |-> 7])
Accesses ==
  ByF3(3, [lb |-> 0, lh |-> 1, lw |-> 2, ld |-> 3, lbu |-> 4, lhu |-> 5, lwu |-> 6])
  \cup ByF3(35, [sb |-> 0, sh |-> 1, sw |-> 2, sd |-> 3])
Constants == {Encoding("lui", 55, << >>), Encoding("auipc", 23, [rd |-> 1 .. 31])}
Immediates ==
  ByF3(19, [addi |-> 0, slti |-> 2, sltiu |-> 3, xori |-> 4, ori |-> 6, andi |-> 7]) \cup ByF3(27, [addiw |-> 0])
  \cup ByF5F3(19, [slli |-> << 0, 1 >>, srli |-> << 0, 5 >>, srai |-> << 8, 5 >>])
  \cup ByF7F3(27, [slliw |-> << 0, 1 >>, srliw |-> << 0, 5 >>, sraiw |-> << 32, 5 >>])
Registers ==
  ByF7F3(51, [add |-> << 0, 0 >>, sub |-> << 32, 0 >>, sll |-> << 0, 1 >>, slt |-> << 0, 2 >>, sltu |-> << 0, 3 >>,
              xor |-> << 0, 4 >>, srl |-> << 0, 5 >>, sra |-> << 32, 5 >>, or |-> << 0, 6 >>, and |-> << 0, 7 >>])
  \cup ByF7F3(59, [addw |-> << 0, 0 >>, subw |-> << 32, 0 >>, sllw |-> << 0, 1 >>, srlw |-> << 0, 5 >>, sraw |-> << 32, 5 >>])
FencesAndCsrs ==
  {Encoding("pause", 15, [f3 |-> {0}, f7 |-> {0}, rs2 |-> {16}, rs1 |-> {0}, rd |-> {0}])}
  \cup ByF3(15, [fence |-> 0, fence_i |-> 1])
  \cup ByF3(115, [csrrw |-> 1, csrrs |-> 2, csrrc |-> 3, csrrwi |-> 5, csrrsi |-> 6, csrrci |-> 7])
SystemCalls ==
  System([ecall |-> << 0, 0 >>, ebreak |-> << 0, 1 >>, sret |-> << 8, 2 >>, mret |-> << 24, 2 >>, wfi |-> << 8, 5 >>])
  \cup {Encoding("sfence_vma", 115, [f3 |-> {0}, f7 |-> {9}, rd |-> {0}])}
Rv64I == Transfers \cup Accesses \cup Constants \cup Immediates \cup Registers \cup FencesAndCsrs \cup SystemCalls

Rv64M ==
  ByF7F3(51, [mul |-> << 1, 0 >>, mulh |-> << 1, 1 >>, mulhu |-> << 1, 3 >>, div |-> << 1, 4 >>, divu |-> << 1, 5 >>,
              rem |-> << 1, 6 >>, remu |-> << 1, 7 >>])
  \cup ByF7F3(59, [mulw |-> << 1, 0 >>, divw |-> << 1, 4 >>, divuw |-> << 1, 5 >>, remw |-> << 1, 6 >>, remuw |-> << 1, 7 >>])

Rv64A ==
  ByF5F3(47, [sc_w |-> << 3, 2 >>, amoswap_w |-> << 1, 2 >>, amoadd_w |-> << 0, 2 >>, amoxor_w |-> << 4, 2 >>,
              amoand_w |-> << 12, 2 >>, amoor_w |-> << 8, 2 >>, amomin_w |-> << 16, 2 >>, amomax_w |-> << 20, 2 >>,
              amominu_w |-> << 24, 2 >>, amomaxu_w |-> << 28, 2 >>,
              sc_d |-> << 3, 3 >>, amoswap_d |-> << 1, 3 >>, amoadd_d |-> << 0, 3 >>, amoxor_d |-> << 4, 3 >>,
              amoand_d |-> << 12, 3 >>, amoor_d |-> << 8, 3 >>, amomin_d |-> << 16, 3 >>, amomax_d |-> << 20, 3 >>,
              amominu_d |-> << 24, 3 >>, amomaxu_d |-> << 28, 3 >>])
  \cup {[e EXCEPT !.rs2 = {0}] : e \in ByF5F3(47, [lr_w |-> << 2, 2 >>, lr_d |-> << 2, 3 >>])}

FpAccesses == ByF3(7, [flw |-> 2, fld |-> 3]) \cup ByF3(39, [fsw |-> 2, fsd |-> 3])
FpArithmetics ==
  {Encoding("fmadd_d", 67, [f7 |-> {4 * i + 1 : i \in 0 .. 31}])}
  \cup ByF7([fadd_s |-> 0, fsub_s |-> 4, fmul_s |-> 8, fdiv_s |-> 12, fadd_d |-> 1, fsub_d |-> 5, fmul_d |-> 9, fdiv_d |-> 13])
FpSignsAndCompares ==
  ByF7F3(83, [fsgnj_s |-> << 16, 0 >>, fsgnjn_s |-> << 16, 1 >>, fsgnjx_s |-> << 16, 2 >>,
              fsgnj_d |-> << 17, 0 >>, fsgnjn_d |-> << 17, 1 >>, fsgnjx_d |-> << 17, 2 >>, fmin_d |-> << 21, 0 >>,
              fle_s |-> << 80, 0 >>, flt_s |-> << 80, 1 >>, fle_d |-> << 81, 0 >>, flt_d |-> << 81, 1 >>, feq_d |-> << 81, 2 >>])
FpConversions ==
  ByF7F3Rs2(83, [fmv_x_w |-> << 112, 0, 0 >>, fmv_w_x |-> << 120, 0, 0 >>, fmv_x_d |-> << 113, 0, 0 >>, fmv_d_x |-> << 121, 0, 0 >>])
  \cup ByF7Rs2([fcvt_s_d |-> << 32, 1 >>, fcvt_d_s |-> << 33, 0 >>,
                fcvt_w_s |-> << 96, 0 >>, fcvt_l_s |-> << 96, 2 >>, fcvt_lu_s |-> << 96, 3 >>,
                fcvt_w_d |-> << 97, 0 >>, fcvt_wu_d |-> << 97, 1 >>, fcvt_l_d |-> << 97, 2 >>, fcvt_lu_d |-> << 97, 3 >>,
                fcvt_s_w |-> << 104, 0 >>, fcvt_s_wu |-> << 104, 1 >>, fcvt_s_l |-> << 104, 2 >>, fcvt_s_lu |-> << 104, 3 >>,
                fcvt_d_w |-> << 105, 0 >>, fcvt_d_wu |-> << 105, 1 >>, fcvt_d_l |-> << 105, 2 >>, fcvt_d_lu |-> << 105, 3 >>])
Rv64FD == FpAccesses \cup FpArithmetics \cup FpSignsAndCompares \cup FpConversions

\* Zba, Zbb, Zbs and Zbkb. Of pack and packw rs2 = 0 is zext.h.
BitRegisters ==
  ByF7F3(51, [sh1add |-> << 16, 2 >>, sh2add |-> << 16, 4 >>, sh3add |-> << 16, 6 >>, andn |-> << 32, 7 >>, orn |-> << 32, 6 >>,
              xnor |-> << 32, 4 >>, max |-> << 5, 6 >>, maxu |-> << 5, 7 >>, min |-> << 5, 4 >>, minu |-> << 5, 5 >>,
              rol |-> << 48, 1 >>, ror |-> << 48, 5 >>, bclr |-> << 36, 1 >>, bext |-> << 36, 5 >>, binv |-> << 52, 1 >>,
              bset |-> << 20, 1 >>, packh |-> << 4, 7 >>])
  \cup ByF7F3(59, [add_uw |-> << 4, 0 >>, sh1add_uw |-> << 16, 2 >>, sh2add_uw |-> << 16, 4 >>, sh3add_uw |-> << 16, 6 >>,
                   rolw |-> << 48, 1 >>, rorw |-> << 48, 5 >>])
Packs ==
  {[e EXCEPT !.rs2 = 1 .. 31] : e \in ByF7F3(51, [pack |-> << 4, 4 >>]) \cup ByF7F3(59, [packw |-> << 4, 4 >>])}
  \cup ByF7F3Rs2(59, [zext_h_64 |-> << 4, 4, 0 >>])
BitImmediates ==
  ByF5F3(27, [slli_uw |-> << 1, 1 >>]) \cup ByF7F3(27, [roriw |-> << 48, 5 >>])
  \cup ByF5F3(19, [bclri |-> << 9, 1 >>, bexti |-> << 9, 5 >>, binvi |-> << 13, 1 >>, bseti |-> << 5, 1 >>, rori |-> << 12, 5 >>])
CountsAndSwaps ==
  ByF7F3Rs2(19, [clz |-> << 48, 1, 0 >>, ctz |-> << 48, 1, 1 >>, sext_b |-> << 48, 1, 4 >>, sext_h |-> << 48, 1, 5 >>,
                 orc_b |-> << 20, 5, 7 >>, brev8 |-> << 52, 5, 7 >>, rev8_32 |-> << 52, 5, 24 >>, rev8_64 |-> << 53, 5, 24 >>])
  \cup ByF7F3Rs2(27, [clzw |-> << 48, 1, 0 >>, ctzw |-> << 48, 1, 1 >>])
Rv64B == BitRegisters \cup Packs \cup BitImmediates \cup CountsAndSwaps

Listing == Rv64I \cup Rv64M \cup Rv64A \cup Rv64FD \cup Rv64B
EncodingOf == [n \in {e.trans : e \in Listing} |-> CHOOSE e \in Listing : e.trans = n]

\* The instructions of the listing that a word is.
Matches(e, w) == w.op = e.op /\ w.f3 \in e.f3 /\ w.f7 \in e.f7 /\ w.rs2 \in e.rs2 /\ w.rs1 \in e.rs1 /\ w.rd \in e.rd

-----------------------------------------------------------------------------
\* The word of an instruction with these operands.
Least(S) == CHOOSE n \in S : \A m \in S : n <= m
Encode(trans, args) ==
  LET e == EncodingOf[trans]
      fixed == [op |-> e.op, f3 |-> Least(e.f3), f7 |-> Least(e.f7), rs2 |-> Least(e.rs2), rs1 |-> Least(e.rs1), rd |-> Least(e.rd)]
      imm == IF "imm" \in DOMAIN args THEN args.imm ELSE 0
      bits(lo, n) == (imm \div 2 ^ lo) % 2 ^ n
      placed ==
        CASE e.op \in {3, 7, 103} \/ (e.op \in {19, 27} /\ "imm" \in DOMAIN args) -> [f7 |-> bits(5, 7), rs2 |-> bits(0, 5)]
          [] e.op \in {35, 39} -> [f7 |-> bits(5, 7), rd |-> bits(0, 5)]
          [] e.op = 99 -> [f7 |-> 64 * bits(12, 1) + bits(5, 6), rd |-> 2 * bits(1, 4) + bits(11, 1)]
          [] e.op = 55 -> [f7 |-> bits(13, 7), rs2 |-> bits(8, 5), rs1 |-> bits(3, 5), f3 |-> bits(0, 3)]
          [] e.op = 111 -> [f7 |-> 64 * bits(20, 1) + bits(5, 6), rs2 |-> 2 * bits(1, 4) + bits(11, 1),
                            rs1 |-> bits(15, 5), f3 |-> bits(12, 3)]
          [] "shamt" \in DOMAIN args -> [f7 |-> fixed.f7 + args.shamt \div 32, rs2 |-> args.shamt % 32]
          [] OTHER -> << >>
  IN  placed ++ args ++ fixed

\* The bit of the immediate that each of the bits 12 .. 2 of a compressed
\* instruction holds, or -1, by quadrant and f3.
Double == << 5, 4, 3, -1, -1, -1, 7, 6, -1, -1, -1 >>
Word   == << 5, 4, 3, -1, -1, -1, 2, 6, -1, -1, -1 >>
Six    == << 5, -1, -1, -1, -1, -1, 4, 3, 2, 1, 0 >>
Branch == << 8, 4, 3, -1, -1, -1, 7, 6, 2, 1, 5 >>
Adjust == << 9, -1, -1, -1, -1, -1, 4, 6, 8, 7, 5 >>   \* addi16sp, which is lui of sp
ImmediateBits ==
  << << << 5, 4, 9, 8, 7, 6, 2, 3, -1, -1, -1 >>, Double, Word, Double, << >>, Double, Word, Double >>,
     << Six, Six, Six, Six, << >>, << 11, 4, 9, 8, 10, 6, 7, 3, 2, 1, 5 >>, Branch, Branch >>,
     << Six, << 5, -1, -1, -1, -1, -1, 4, 3, 8, 7, 6 >>, << 5, -1, -1, -1, -1, -1, 4, 3, 2, 7, 6 >>,
        << 5, -1, -1, -1, -1, -1, 4, 3, 8, 7, 6 >>, << >>, << 5, 4, 3, 8, 7, 6, -1, -1, -1, -1, -1 >>,
        << 5, 4, 3, 2, 7, 6, -1, -1, -1, -1, -1 >>, << 5, 4, 3, 8, 7, 6, -1, -1, -1, -1, -1 >> >> >>
LayoutOf(w) ==
  IF w % 4 = 1 /\ (w \div 8192) = 3 /\ (w \div 128) % 32 = 2 THEN Adjust ELSE ImmediateBits[(w % 4) + 1][(w \div 8192) + 1]
\* The top bit of an immediate of quadrant 1 is its sign.
Immediate(w) ==
  LET layout == LayoutOf(w)
      value[i \in 0 .. 11] ==
        IF i = 0 THEN 0
        ELSE value[i - 1] + (IF layout[i] = -1 THEN 0
                             ELSE (IF i = 1 /\ w % 4 = 1 THEN -1 ELSE 1) * ((w \div 2 ^ (13 - i)) % 2) * 2 ^ layout[i])
  IN  value[11]
=============================================================================
