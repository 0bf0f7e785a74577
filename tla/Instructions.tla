---------------------------- MODULE Instructions ----------------------------
(***************************************************************************)
(* interpreter.cpp: what each trans_ function leaves in the DecodeInfo.    *)
(* ID, EXE, WB and updateEnv know an instruction by that record alone. The *)
(* records are pooled: decode clears no more than the destination masks    *)
(* and the exception, so a field that a trans_ function does not write is  *)
(* that of an earlier instruction. A field is modelled by what it was      *)
(* written as. The handlers that are not listed end the program            *)
(* (__NOT_IMPLEMENTED_EXIT__); lq and sq match nothing.                    *)
(***************************************************************************)

EXTENDS Records

VARIABLES
  inst,   \* the trans_ function that ran last, or "none"
  fields  \* its DecodeInfo: field -> what it was last written as

instVars == << inst, fields >>

\* The handlers in the order of the file, by the InstType they set.
WordAndAdd == [INT |-> {"slli_uw", "addi", "addiw", "addw", "subw", "slliw", "sllw", "srliw", "srlw", "sraiw", "sraw", "add", "sub"}]
BitManip == [INT |-> {"add_uw", "orn", "xnor", "andn", "bclr", "bclri", "bext", "bexti", "binv", "binvi", "brev8", "bset", "bseti"}]
MinMaxRotate ==
  [INT |-> {"max", "maxu", "min", "minu", "orc_b", "pack", "packh", "packw", "rev8_32", "rev8_64", "rol", "rolw",
            "ror", "rori", "roriw", "rorw"}]
AmoAddToMax ==
  [AMO |-> {"amoadd_w", "amoadd_d", "amoand_w", "amoand_d", "amoor_w", "amoor_d", "amoxor_w", "amoxor_d", "amomax_w", "amomax_d"}]
AmoMaxuToSwap == [AMO |-> {"amomaxu_w", "amomaxu_d", "amomin_w", "amomin_d", "amominu_w", "amominu_d", "amoswap_w", "amoswap_d"}]
Logic == [INT |-> {"and", "andi", "or", "ori", "xor", "xori", "auipc"}]
Branches == [COND |-> {"beq", "bne", "blt", "bltu", "bge", "bgeu"}]
LeadingZeros == [INT |-> {"clz", "clzw"}]
CsrAccess == [CSRWR |-> {"csrrc", "csrrci", "csrrs", "csrrsi", "csrrw", "csrrwi"}]
TrailingZeros == [INT |-> {"ctz", "ctzw"}]
ToFloat == [FMISC_SIMPLE |-> {"fcvt_d_l", "fcvt_d_lu", "fcvt_d_s", "fcvt_d_w", "fcvt_d_wu"}]
FromFloat ==
  [FMISC_SIMPLE  |-> {"fcvt_s_d", "fcvt_s_l", "fcvt_s_lu", "fcvt_s_w", "fcvt_s_wu"},
   FMISC_COMPLEX |-> {"fcvt_l_d", "fcvt_l_s", "fcvt_lu_d", "fcvt_lu_s", "fcvt_w_d", "fcvt_wu_d", "fcvt_w_s"}]
FpArithmetic == [FADD |-> {"fadd_d", "fadd_s", "fsub_d", "fsub_s"}, FMUL |-> {"fmul_d", "fmul_s"}, FDIV |-> {"fdiv_d", "fdiv_s"}]
Fences == [FENCE |-> {"fence"}, IFENCE |-> {"fence_i"}]
FpCompare == [FMISC_SIMPLE |-> {"feq_d", "fle_d", "fle_s", "flt_d", "flt_s"}, FMA |-> {"fmadd_d"}]
FpMinMove == [FMISC_SIMPLE |-> {"fmin_d", "fmv_d_x", "fmv_w_x", "fmv_x_d", "fmv_x_w"}]
FpAccess == [LOAD |-> {"flw", "fld"}, STORE |-> {"fsw", "fsd"}]
FpSign == [FMISC_SIMPLE |-> {"fsgnj_d", "fsgnjn_d", "fsgnjn_s", "fsgnj_s", "fsgnjx_s", "fsgnjx_d"}]
Loads == [LOAD |-> {"lb", "lbu", "lh", "lhu", "lw", "lwu", "ld"}]
LoadReserved == [LR |-> {"lr_w", "lr_d"}]
StoreConditional == [SC |-> {"sc_w", "sc_d"}]
Multiply == [INT |-> {"lui"}, MULT |-> {"mul", "mulh", "mulhu", "mulw"},
             DIV |-> {"div", "divu", "rem", "remu", "divw", "divuw", "remw", "remuw"}]
Stores == [STORE |-> {"sb", "sh", "sw", "sd"}]
ExtendAndShiftAdd ==
  [INT |-> {"sext_b", "sext_h", "sh1add", "sh1add_uw", "sh2add", "sh2add_uw", "sh3add", "sh3add_uw"}]
ShiftAndCompare == [INT |-> {"sll", "slli", "sra", "srai", "srl", "srli", "slt", "slti", "sltu", "sltiu"}]
Hints == [INT |-> {"pause", "wfi"}]
ZextH == [INT |-> {"zext_h_64"}]

\* Regions of like effect, as pairs <<handler, type>>.
Typed(regions) == UNION {UNION {{<< h, t >> : h \in r[t]} : t \in DOMAIN r} : r \in regions}
Integer == Typed({WordAndAdd, BitManip, MinMaxRotate, Logic, LeadingZeros, TrailingZeros, Multiply, ExtendAndShiftAdd,
                  ShiftAndCompare, ZextH})
Floating == Typed({ToFloat, FromFloat, FpArithmetic, FpCompare, FpMinMove, FpSign})
Amos == Typed({AmoAddToMax, AmoMaxuToSwap})
-----------------------------------------------------------------------------
\* dst0, dst1 and dst2 stand for a slot with a mask: its index and its data.
Fields == {"type", "exc_data", "data1", "data2", "idx2", "dst0", "dst1", "dst2"}

Leaves(t) == [type |-> t, exception |-> "none"]
SetGpr == [dst0 |-> "result"]   \* SET_GPR_64, SET_GPR_32, SET_FPR_64
FpuOff == [exception |-> "illegal"]   \* REQUIRE_FPU returns at once

\* Fault for the mutation run: the address stays in a local variable.
AddressForgotten == << >>
\* get_address and the line after it; then ld_* and st_*, or their fault.
Address == [exc_data |-> "vaddr"]
LoadOk  == [idx2 |-> "size"]
StoreOk == [idx2 |-> "size", data2 |-> "paddr"]
AccessFault == [exception |-> "access"]

LoadEffects(t)  == {Address ++ SetGpr ++ LoadOk ++ Leaves(t), AccessFault ++ Address ++ SetGpr ++ Leaves(t)}
StoreEffects(t) == {Address ++ StoreOk ++ [data1 |-> "value"] ++ Leaves(t), AccessFault ++ Address ++ [data1 |-> "value"] ++ Leaves(t)}
AmoEffects(t) == {SetGpr ++ e : e \in StoreEffects(t)}
\* flw, fld, fsw and fsd keep the address to themselves.
FpLoadEffects(t)  == {FpuOff, SetGpr ++ LoadOk ++ Leaves(t), AccessFault ++ SetGpr ++ Leaves(t)}
FpStoreEffects(t) == {StoreOk ++ [data1 |-> "value"] ++ Leaves(t), AccessFault ++ [data1 |-> "value"] ++ Leaves(t)}

\* The third slot is that of load_res; its index replaces the size of ld_*.
LrEffects(t) ==
  LET slots == [dst0 |-> "result", dst1 |-> "register", data1 |-> "register", dst2 |-> "register", data2 |-> "register",
                idx2 |-> "offset"]
  IN  {Address ++ slots ++ Leaves(t), AccessFault ++ Address ++ slots ++ Leaves(t)}
\* A store that fails on its reservation may not have read memory at all.
ScEffects(t) ==
  LET slots(r) == Address ++ [dst0 |-> r, dst1 |-> "register", data1 |-> "register"] IN
  {slots("zero") ++ [idx2 |-> "size", data2 |-> "value"] ++ Leaves(t), slots("one") ++ Leaves(t),
   slots("one") ++ LoadOk ++ Leaves(t), AccessFault ++ slots("one") ++ Leaves(t), AccessFault ++ slots("zero") ++ [data2 |-> "value"] ++ Leaves(t)}

\* csrr/csrrw: riscv_csrrw_check; the CSR functions refuse without the
\* instruction in exc_data (fflags, frm, fcsr, misa, an odd pmpcfg).
CsrEffects(t) ==
  LET rd == SetGpr ++ Leaves(t)
      register == [dst1 |-> "register", data1 |-> "register"]
      dirty == [dst2 |-> "register", data2 |-> "register", idx2 |-> "offset"]
  IN  {rd, register ++ rd, register ++ dirty ++ rd,
       [exc_data |-> "inst", exception |-> "illegal"] ++ Leaves(t), [exception |-> "illegal"] ++ rd}

JumpEffects(types) == {SetGpr ++ [data2 |-> "target"] ++ Leaves(t) : t \in types}
\* With rs1 = 0 and rd no link register jalr sets no type.
JalrTypes == {"IND_PUSH", "POP_PUSH", "IND_CALL", "POP", "INDIRECT"}
JalrEffects == JumpEffects(JalrTypes) \cup {SetGpr ++ [data2 |-> "target", exception |-> "none"]}

ReturnEffects(t) == {[exception |-> "return"] ++ Leaves(t), [exception |-> "illegal", exc_data |-> "inst"] ++ Leaves(t)}
CallEffects(t) == {[exception |-> "call", exc_data |-> x] ++ Leaves(t) : x \in {"inst", "pc"}}

\* Every handler with what one run of it may write.
Handlers ==
  {<< p[1], {SetGpr ++ Leaves(p[2])} >> : p \in Integer}
  \cup {<< p[1], {FpuOff, SetGpr ++ Leaves(p[2])} >> : p \in Floating}
  \cup {<< p[1], {[data1 |-> "taken", data2 |-> "target"] ++ Leaves(p[2])} >> : p \in Typed({Branches})}
  \cup {<< p[1], LoadEffects(p[2]) >> : p \in Typed({Loads})}
  \cup {<< p[1], StoreEffects(p[2]) >> : p \in Typed({Stores})}
  \cup {<< p[1], AmoEffects(p[2]) >> : p \in Amos}
  \cup {<< p[1], IF p[2] = "LOAD" THEN FpLoadEffects(p[2]) ELSE FpStoreEffects(p[2]) >> : p \in Typed({FpAccess})}
  \cup {<< p[1], LrEffects(p[2]) >> : p \in Typed({LoadReserved})}
  \cup {<< p[1], ScEffects(p[2]) >> : p \in Typed({StoreConditional})}
  \cup {<< p[1], CsrEffects(p[2]) >> : p \in Typed({CsrAccess})}
  \cup {<< p[1], {Leaves(p[2])} >> : p \in Typed({Fences, Hints})}
  \cup {<< "jal", JumpEffects({"DIRECT", "PUSH"}) >>, << "jalr", JalrEffects >>,
        << "sret", ReturnEffects("SRET") >>, << "mret", ReturnEffects("MRET") >>,
        << "ebreak", CallEffects("CSRWR") >>, << "ecall", CallEffects("CSRWR") >>,
        << "sfence_vma", {[data1 |-> "value", data2 |-> "value"] ++ Leaves("SFENCE")} >>,
        << "no_match", {[exception |-> "none"]} >>}
Implemented == {p[1] : p \in Handlers} \ {"no_match"}

-----------------------------------------------------------------------------
\* decode into a record of the pool: the masks and the exception are cleared.
Cleared == [dst0 |-> "unset", dst1 |-> "unset", dst2 |-> "unset", exception |-> "none"]
Stale == [f \in Fields \cup {"exception"} |-> "stale"]
\* A pending interrupt then takes the place of its exception.
Interpret(h, effect) ==
  /\ inst = "none" /\ inst' = h
  /\ \E e \in {effect, [exception |-> "interrupt"] ++ effect} : fields' = e ++ Cleared ++ Stale

\* preId: the fetch address does not translate, nothing is decoded or cleared.
HandleException ==
  /\ inst = "none" /\ inst' = "fetch_fault"
  /\ fields' = [exc_data |-> "vaddr", exception |-> "access"] ++ Stale

\* The record goes back to the pool as it is.
Recycle == inst # "none" /\ inst' = "none" /\ UNCHANGED fields

InstInit == inst = "none" /\ fields = Stale
InstNext == Recycle \/ HandleException \/ \E p \in Handlers : \E e \in p[2] : Interpret(p[1], e)
InstSpec == InstInit /\ [][InstNext]_instVars

-----------------------------------------------------------------------------
\* Who reads a field, and as what.
Is(value, names) == [f \in names |-> value]
Jumps == JalrTypes \cup {"DIRECT", "PUSH"}
Types == {p[2] : p \in Integer \cup Floating \cup Amos
                       \cup Typed({Branches, CsrAccess, Fences, Hints, Loads, Stores, FpAccess, LoadReserved, StoreConditional})}
         \cup Jumps \cup {"SRET", "MRET", "SFENCE"}

\* PipePredictor::predict, which follows the type before it is known whether
\* the instruction faults.
PredictReads == IF inst # "fetch_fault" /\ fields.type \in {"COND", "DIRECT", "PUSH"} THEN Is("target", {"data2"}) ELSE << >>

\* The switch over the type in EXE; a SC that failed stores nothing.
Stored == fields.type \in {"STORE", "AMO"} \/ (fields.type = "SC" /\ fields.dst0 = "zero")
ExeReads ==
  IF Stored \/ fields.type \in {"LOAD", "LR"} THEN [exc_data |-> "vaddr", idx2 |-> "size"]
  ELSE IF fields.type = "COND" THEN [data1 |-> "taken"] ELSE << >>

\* RiscvArch::updateEnv without an exception: the store, then the next pc.
CommitReads ==
  IF fields.type = "SC" /\ Stored THEN [exc_data |-> "vaddr", idx2 |-> "size", data2 |-> "value"]
  ELSE IF Stored THEN [data2 |-> "paddr", idx2 |-> "size", data1 |-> "value"]
  ELSE IF fields.type = "COND" THEN [data1 |-> "taken", data2 |-> "target"]
  ELSE IF fields.type \in Jumps THEN Is("target", {"data2"}) ELSE << >>

\* With one it reads tval, if the exception has one.
TrapReads ==
  CASE fields.exception = "illegal" -> Is("inst", {"exc_data"})
    [] fields.exception = "access"  -> Is("vaddr", {"exc_data"})
    [] OTHER -> << >>

Misread(reads) == {f \in DOMAIN reads : fields[f] # reads[f]}
Misreads ==
  Misread(PredictReads)
  \cup (IF fields.exception = "none" THEN Misread(ExeReads) \cup Misread(CommitReads) ELSE Misread(TrapReads))
  \cup (IF inst # "fetch_fault" /\ fields.type \notin Types THEN {"type"} ELSE {})

\* What the code does misread: flw, fld, fsw and fsd keep their address, lr
\* its size; csrr and the refusal of an FP instruction give no tval; the latter,
\* jalr of x0 without a link and an unknown instruction leave the type.
Handled(region) == {p[1] : p \in Typed({region})}
FpHandlers == {p[1] : p \in Floating} \cup Handled(FpAccess)
KnownMisread(f) ==
  CASE f = "exc_data" -> inst \in Handled(FpAccess) \/ (fields.exception = "illegal" /\ inst \in FpHandlers \cup Handled(CsrAccess))
    [] f = "idx2" -> inst \in Handled(LoadReserved)
    [] f = "type" -> inst \in {"jalr", "no_match"} \/ (fields.exception # "none" /\ inst \in FpHandlers)
    [] OTHER -> FALSE

(* Whatever instruction had the record before, the stages and updateEnv read no
   field of a DecodeInfo that this instruction did not write, and read it as what
   it was written as, but for the misreads named above (struct DecodeInfo and its
   use by predict, EXE and updateEnv against the trans_ functions). *)
NoStaleField == inst # "none" => \A f \in Misreads : KnownMisread(f)
=============================================================================
