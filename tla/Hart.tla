-------------------------------- MODULE Hart --------------------------------
(***************************************************************************)
(* RiscvArch (src/src/arch/riscv/riscvarch.cpp): privilege, traps, the     *)
(* CSRs that steer them and the cached MMU state. An instruction is        *)
(* decoded, which runs it into a DecodeInfo and chooses the interrupt, and *)
(* updateEnv commits the DecodeInfo when ID hands it to EXE; a redirect    *)
(* discards it instead and the instruction is decoded again. A register is *)
(* the set of its bits that are 1, so that a write with a mask is          *)
(* (old \ mask) \cup (data \cap mask). General registers, tvec, cause and  *)
(* tval are data: the pc after a jump or at a handler is any pc.           *)
(***************************************************************************)
EXTENDS Integers

CONSTANTS
  SInts, MInts,   \* the S_MODE_ and M_MODE_INTERRUPTS in use: bit numbers
  PcBits,         \* the bits of a pc
  CsrInsts,       \* the CSR instructions of the program: [csr, how, bits]
  MaxWrites       \* bound: CSR writes in a behaviour

ASSUME IntsAssumption == SInts \subseteq Nat /\ MInts \subseteq Nat /\ SInts \cap MInts = {}
ASSUME BoundAssumption == MaxWrites \in Nat
ASSUME CsrInstsAssumption ==
  CsrInsts \subseteq [csr: {"mstatus", "sstatus", "mideleg", "medeleg", "mie", "sie", "mip", "sip", "satp", "sepc", "mepc"},
                     how: {"w", "s", "c"}, bits: SUBSET Nat]

VARIABLES
  priv,     \* ArchState::priv
  pc,       \* PipelineCPU::pc; the next instruction to commit is there
  csr,      \* the CSRs of ArchState
  mmu,      \* ifetch_mmu_state and data_mmu_state
  info,     \* the DecodeInfo of the decoded instruction, or NoInfo
  writes,   \* CSR writes so far
  frame     \* history: what the last trap to S and to M interrupted, until
            \* xRET takes it or software writes over it

hartVars == << priv, pc, csr, mmu, info, writes, frame >>

U == 0
S == 1
M == 3
Ints == SInts \cup MInts
Pcs == SUBSET PcBits

\* The bits of mstatus that the code tests or sets; VS0 is the bit over SPP.
SIE == 1
MIE == 3
SPIE == 5
MPIE == 7
SPP == 8
VS0 == 9
MPP0 == 11
MPP1 == 12
FS0 == 13
FS1 == 14
MPRV == 17
MStatusMask == {SIE, MIE, SPIE, MPIE, SPP, MPP0, MPP1, MPRV, FS0, FS1}
SStatusMask == {SIE, SPIE, SPP, FS0, FS1}
MStatusBits == MStatusMask \cup {VS0}

\* The exceptions updateEnv does not exit on; DELEGABLE_EXCPS has them all.
EXC_II == 2
EXC_BP == 3
EXC_LAM == 4
EXC_SAM == 6
EXC_ECU == 8
EXC_IPF == 12
EXC_LPF == 13
EXC_SPF == 15
Misaligned == {EXC_LAM, EXC_SAM}
PageFaults == {EXC_LPF, EXC_SPF}
Traps == Misaligned \cup PageFaults \cup {EXC_II, EXC_BP, EXC_IPF} \cup {EXC_ECU + p : p \in {U, S, M}}
EXC_SRET == 20
EXC_MRET == 21
EXC_NONE == 31

SatpBits == {60, 63}
CsrBits == [mstatus |-> MStatusBits, mie |-> Ints, mip |-> Ints, mideleg |-> Ints, medeleg |-> Traps,
            satp |-> SatpBits, sepc |-> PcBits, mepc |-> PcBits]

NoInfo  == [exception |-> -1]
NoWrite == [reg |-> "none", mask |-> {}, data |-> {}]
NoFrame == [pc |-> {}, priv |-> -1, ie |-> FALSE]

-----------------------------------------------------------------------------
\* The two-bit field with bits lo and hi, and the bits of priv shifted there.
Field(bits, lo, hi) == (IF lo \in bits THEN 1 ELSE 0) + (IF hi \in bits THEN 2 ELSE 0)
\* Fault for the mutation run: the low bit of priv is that of a boolean.
ShiftedOdd(p, lo, hi) == (IF p = 1 THEN {lo} ELSE {}) \cup (IF p >= 2 THEN {hi} ELSE {})
Shifted(p, lo, hi)  == (IF p % 2 = 1 THEN {lo} ELSE {}) \cup (IF p >= 2 THEN {hi} ELSE {})
Spp(c) == Field(c.mstatus, SPP, VS0)
Mpp(c) == Field(c.mstatus, MPP0, MPP1)
Moved(bits, from, to) == IF from \in bits THEN {to} ELSE {}

\* updateMMUState
UpdateMMUState(p, c) ==
  LET on == 63 \in c.satp /\ 60 \notin c.satp IN
  [ifetch |-> on /\ p # M,
   data   |-> on /\ (IF MPRV \in c.mstatus THEN Mpp(c) ELSE p) # M]

-----------------------------------------------------------------------------
\* The CSR functions: the register a CSR names and the bits software may write.
\* sie and sip are windows on mie and mip; sstatus is one on mstatus.
Reg(name) == CASE name = "sstatus" -> "mstatus" [] name = "sie" -> "mie" [] name = "sip" -> "mip" [] OTHER -> name
WriteMask(name, c) ==
  CASE name = "mstatus" -> MStatusMask   [] name = "sstatus" -> SStatusMask
    [] name = "mideleg" -> SInts         [] name = "medeleg" -> Traps
    [] name = "mie" -> Ints              [] name = "sie" -> c.mideleg \cap SInts
    [] name = "mip" -> SInts             [] name = "sip" -> c.mideleg \cap SInts
    [] name = "satp" -> {63}             [] OTHER -> PcBits

\* What csrrw ("w"), csrrs ("s") and csrrc ("c") make of an old value.
Merge(old, how, bits) == CASE how = "w" -> bits [] how = "s" -> old \cup bits [] how = "c" -> old \ bits

\* riscv_csrrw: the slot of the DecodeInfo. The rmw_ functions leave the rest
\* of the register alone until updateEnv; the others read it now and write it
\* whole then. write_satp ignores a mode that is neither 0 nor 8.
CsrWrite(i, c) ==
  LET reg  == Reg(i.csr)
      mask == WriteMask(i.csr, c)
      old  == IF i.csr = "sstatus" THEN c[reg] \cap SStatusMask ELSE c[reg]
      new  == Merge(old, i.how, i.bits)
  IN  IF reg \in {"mie", "mip", "mideleg"}
        THEN [reg  |-> reg, mask |-> IF i.how = "w" THEN mask ELSE mask \cap i.bits,
              data |-> CASE i.how = "w" -> i.bits [] i.how = "s" -> Ints [] i.how = "c" -> {}]
      ELSE IF reg = "satp" /\ 60 \in new THEN NoWrite
      ELSE [reg |-> reg, mask |-> mask, data |-> new]

\* Precondition on the program: it does not write the reserved 2 to MPP. The
\* code would store it, and a later MRET enter mode 2.
LegalMpp(w) == w.reg = "mstatus" => ~(MPP1 \in w.data \cap w.mask /\ MPP0 \notin w.data)

-----------------------------------------------------------------------------
Plain(e) == [exception |-> e, irq |-> FALSE, write |-> NoWrite]

\* RiscvArch::decode: what interpreter() left in the DecodeInfo, unless an
\* interrupt is enabled and pending. The highest number wins, and whether it is
\* delegated is not looked at yet.
IrqEnable == \/ priv <= S /\ SIE \in csr.mstatus
             \/ priv = M /\ MIE \in csr.mstatus
             \/ priv = U
Pending == csr.mip \cap csr.mie
Highest(n) == n \in Pending /\ \A m \in Pending : m <= n
Decoded(x) ==
  /\ info = NoInfo
  /\ IF IrqEnable /\ Pending # {}
       THEN \E n \in Pending : Highest(n) /\ info' = [exception |-> n, irq |-> TRUE, write |-> NoWrite]
       ELSE info' = x
  /\ UNCHANGED << priv, pc, mmu, writes, frame >>

\* An instruction that only touches data, also one that no pattern matches.
DecodePlain == Decoded(Plain(EXC_NONE)) /\ UNCHANGED csr
DecodeCsr(i) ==
  LET w == CsrWrite(i, csr) IN
  /\ writes < MaxWrites /\ LegalMpp(w)
  /\ Decoded([exception |-> EXC_NONE, irq |-> FALSE, write |-> w])
  /\ UNCHANGED csr
\* csrrw_check, a CSR of an odd pmpcfg, misa.
DecodeIllegal == Decoded(Plain(EXC_II)) /\ UNCHANGED csr
DecodeSret == Decoded(Plain(IF priv >= S THEN EXC_SRET ELSE EXC_II)) /\ UNCHANGED csr
DecodeMret == Decoded(Plain(IF priv >= M THEN EXC_MRET ELSE EXC_II)) /\ UNCHANGED csr
DecodeEcall == Decoded(Plain(EXC_ECU + priv)) /\ UNCHANGED csr
DecodeEbreak == Decoded(Plain(EXC_BP)) /\ UNCHANGED csr
\* ld_*, st_*
DecodeAccessFault ==
  /\ \E e \in Misaligned \cup (IF mmu.data THEN PageFaults ELSE {}) : Decoded(Plain(e))
  /\ UNCHANGED csr
\* REQUIRE_FPU marks FS dirty in the state itself, before the commit.
DecodeFp ==
  LET on == {FS0, FS1} \cap csr.mstatus # {} IN
  /\ Decoded(Plain(IF on THEN EXC_NONE ELSE EXC_II))
  /\ csr' = IF on THEN [csr EXCEPT !.mstatus = @ \cup {FS0, FS1}] ELSE csr
\* PipelineCPU::preId: translateAddr fails and handleException takes its place.
FetchFault ==
  /\ info = NoInfo /\ mmu.ifetch
  /\ info' = Plain(EXC_IPF)
  /\ UNCHANGED << priv, pc, csr, mmu, writes, frame >>

\* A redirect empties ID: the instruction at pc will be decoded again.
Discard == info # NoInfo /\ info' = NoInfo /\ UNCHANGED << priv, pc, csr, mmu, writes, frame >>

\* irqListener replaces mip, whatever software wrote in it.
IrqListener(irq) == csr' = [csr EXCEPT !.mip = irq] /\ UNCHANGED << priv, pc, mmu, info, writes, frame >>

-----------------------------------------------------------------------------
\* Fault for the mutation run: only a change of privilege updates the MMU state.
CommitsStale(p, c) ==
  /\ info # NoInfo /\ info' = NoInfo
  /\ priv' = p /\ csr' = c
  /\ mmu' = IF p # priv THEN UpdateMMUState(p, c) ELSE mmu
\* updateEnv, one action per way through it.
Commits(p, c) ==
  /\ info # NoInfo /\ info' = NoInfo
  /\ priv' = p /\ csr' = c
  /\ mmu' = UpdateMMUState(p, c)

\* Fault for the mutation run: the bits that a trap to M clears are those of S.
TrapToMForgets(c) ==
  [c EXCEPT !.mepc = pc,
            !.mstatus = (@ \ {SPP, SPIE, SIE, MPP0, MPP1, MPIE, MIE})
                        \cup Shifted(priv, MPP0, MPP1) \cup Moved(@, MIE, MPIE)]

TrapToS(c) ==
  [c EXCEPT !.sepc = pc,
            !.mstatus = (@ \ {SPP, SPIE, SIE}) \cup Shifted(priv, SPP, VS0) \cup Moved(@, SIE, SPIE)]
TrapToM(c) ==
  [c EXCEPT !.mepc = pc,
            !.mstatus = (@ \ {MPP0, MPP1, MPIE, MIE}) \cup Shifted(priv, MPP0, MPP1)
                        \cup Moved(@, MIE, MPIE)]

Edeleg == /\ info.exception \in IF info.irq THEN csr.mideleg ELSE csr.medeleg
          /\ priv # M

UpdateTrap ==
  /\ info # NoInfo /\ (info.irq \/ info.exception \in Traps)
  /\ IF Edeleg
       THEN /\ Commits(S, TrapToS(csr))
            /\ frame' = [frame EXCEPT !["S"] = [pc |-> pc, priv |-> priv, ie |-> SIE \in csr.mstatus]]
       ELSE /\ Commits(M, TrapToM(csr))
            /\ frame' = [frame EXCEPT !["M"] = [pc |-> pc, priv |-> priv, ie |-> MIE \in csr.mstatus]]
  /\ pc' \in Pcs
  /\ UNCHANGED writes

UpdateSret ==
  /\ info # NoInfo /\ ~info.irq /\ info.exception = EXC_SRET
  /\ Commits(Spp(csr), [csr EXCEPT !.mstatus = (@ \ {SPP, SIE, MPRV}) \cup Moved(@, SPIE, SIE) \cup {SPIE}])
  /\ pc' = csr.sepc
  /\ frame' = [frame EXCEPT !["S"] = NoFrame]
  /\ UNCHANGED writes

UpdateMret ==
  /\ info # NoInfo /\ ~info.irq /\ info.exception = EXC_MRET
  /\ LET p == Mpp(csr) IN
     Commits(p, [csr EXCEPT !.mstatus = (@ \ ({MPP0, MPP1, MIE} \cup (IF p # M THEN {MPRV} ELSE {})))
                                        \cup Moved(@, MPIE, MIE) \cup {MPIE}])
  /\ pc' = csr.mepc
  /\ frame' = [frame EXCEPT !["M"] = NoFrame]
  /\ UNCHANGED writes

Written(w) == IF w = NoWrite THEN csr ELSE [csr EXCEPT ![w.reg] = (@ \ w.mask) \cup (w.data \cap w.mask)]
\* The bits of mstatus that belong to a level's frame.
FrameBits == [S |-> {SPP, VS0, SPIE}, M |-> {MPP0, MPP1, MPIE}]
Epc(c, l) == IF l = "S" THEN c.sepc ELSE c.mepc
UpdateNone ==
  /\ info # NoInfo /\ ~info.irq /\ info.exception = EXC_NONE
  /\ LET c == Written(info.write) IN
     /\ Commits(priv, c)
     /\ frame' = [l \in {"S", "M"} |->
                   IF Epc(c, l) = Epc(csr, l) /\ c.mstatus \cap FrameBits[l] = csr.mstatus \cap FrameBits[l]
                     THEN frame[l] ELSE NoFrame]
  /\ writes' = IF info.write = NoWrite THEN writes ELSE writes + 1
  /\ pc' \in Pcs

\* afterLoad and initConfig (configs/pipeline/arch.cfg): all zero but priv.
HartInit ==
  /\ priv = M /\ pc = {}
  /\ csr = [r \in DOMAIN CsrBits |-> {}]
  /\ mmu = [ifetch |-> FALSE, data |-> FALSE]
  /\ info = NoInfo /\ writes = 0
  /\ frame = [l \in {"S", "M"} |-> NoFrame]

HartDecode ==
  \/ DecodePlain \/ DecodeIllegal \/ DecodeSret \/ DecodeMret \/ DecodeEcall \/ DecodeEbreak
  \/ DecodeAccessFault \/ DecodeFp \/ FetchFault
  \/ \E i \in CsrInsts : DecodeCsr(i)

HartNext ==
  \/ HartDecode \/ Discard
  \/ \E irq \in SUBSET Ints : IrqListener(irq)
  \/ UpdateTrap \/ UpdateSret \/ UpdateMret \/ UpdateNone

HartSpec == HartInit /\ [][HartNext]_hartVars

-----------------------------------------------------------------------------
CsrType == [mstatus: SUBSET MStatusMask, mie: SUBSET Ints, mip: SUBSET Ints, mideleg: SUBSET Ints, medeleg: SUBSET Traps,
            satp: SUBSET {63}, sepc: Pcs, mepc: Pcs]

HartTypeOK ==
  /\ priv \in {U, S, M} /\ pc \in Pcs /\ csr \in CsrType
  /\ Mpp(csr) # 2
  /\ mmu \in [ifetch: BOOLEAN, data: BOOLEAN]
  /\ info # NoInfo => info.irq \in BOOLEAN /\ info.exception \in Ints \cup Traps \cup {EXC_SRET, EXC_MRET, EXC_NONE}
  /\ writes \in 0 .. MaxWrites
  /\ frame \in [{"S", "M"} -> {NoFrame} \cup [pc: Pcs, priv: {U, S, M}, ie: BOOLEAN]]

(* The MMU state that updateEnv caches, and that every translation reads, is
   always that of satp, priv and mstatus, though decode writes mstatus too
   (updateMMUState at each way out of updateEnv). *)
MmuStateFresh == mmu = UpdateMMUState(priv, csr)

(* SRET and MRET bring back the pc, the privilege and the interrupt enable that
   the last trap to their level interrupted, whatever traps and returns of the
   other level, discarded decodes and CSR writes of other bits lie between. *)
TrapReturns ==
  [][/\ UpdateSret /\ frame["S"] # NoFrame =>
          << pc', priv', SIE \in csr'.mstatus >> = << frame["S"].pc, frame["S"].priv, frame["S"].ie >>
     /\ UpdateMret /\ frame["M"] # NoFrame =>
          << pc', priv', MIE \in csr'.mstatus >> = << frame["M"].pc, frame["M"].priv, frame["M"].ie >>]_hartVars
=============================================================================
