----------------------------- MODULE HartProofs -----------------------------
(***************************************************************************)
(* Proofs about Hart for every set of interrupts, every pc and every       *)
(* program of CSR instructions: the type invariant with the privileges     *)
(* that a return may enter, the freshness of the cached MMU state, and     *)
(* that SRET and MRET return to what their trap interrupted. About         *)
(* Instructions, for any sequence of handlers: no stage reads a field of   *)
(* the pooled record that the instruction did not write. And about         *)
(* Decoder: what a run checks with two registers holds with all of them.   *)
(*                                                                         *)
(* A decoded write waits in info until updateEnv commits it, so the types  *)
(* need WriteOK of it. A return reads csr, long after the trap: FramesHeld *)
(* says that csr still holds the frame. A record of Instructions is all    *)
(* rewritten or stale after each handler: Readable says what every one of  *)
(* them leaves, and a step needs nothing of the record before it.          *)
(***************************************************************************)
EXTENDS Hart, Instructions, Decoder, TLAPS

WriteOK(w) ==
  \/ w = NoWrite
  \/ w.reg = "mstatus" /\ w.mask \in {MStatusMask, SStatusMask} /\ LegalMpp(w)
  \/ w.reg \in {"mie", "mip", "mideleg"} /\ w.mask \subseteq Ints
  \/ w.reg = "medeleg" /\ w.mask \subseteq Traps
  \/ w.reg = "satp" /\ w.mask \subseteq {63}
  \/ w.reg \in {"sepc", "mepc"} /\ w.mask \subseteq PcBits

HeldS(c, f) == f # NoFrame => c.sepc = f.pc /\ Spp(c) = f.priv /\ (SPIE \in c.mstatus) = f.ie
HeldM(c, f) == f # NoFrame => c.mepc = f.pc /\ Mpp(c) = f.priv /\ (MPIE \in c.mstatus) = f.ie
FramesHeld == HeldS(csr, frame["S"]) /\ HeldM(csr, frame["M"])

InfoOK ==
  info # NoInfo =>
    /\ WriteOK(info.write)
    /\ info.write # NoWrite => writes < MaxWrites

HartInv == HartTypeOK /\ MmuStateFresh /\ FramesHeld /\ InfoOK

\* What decode, a discard and an interrupt line leave of the CSRs.
SameFrames(d, c) ==
  /\ d.satp = c.satp /\ d.sepc = c.sepc /\ d.mepc = c.mepc
  /\ \A b \in {SPIE, MPIE, SPP, VS0, MPP0, MPP1, MPRV} : b \in d.mstatus <=> b \in c.mstatus

-----------------------------------------------------------------------------
(* The two-bit fields of mstatus.                                          *)

(* updateEnv reads SPP and MPP by shift and mask.                          *)
LEMMA FieldAgrees ==
  ASSUME NEW a, NEW b, NEW lo, NEW hi, lo \in a <=> lo \in b, hi \in a <=> hi \in b
  PROVE  Field(a, lo, hi) = Field(b, lo, hi)
  BY DEF Field

(* What a trap shifts in is what a return shifts out.                      *)
LEMMA FieldShifted ==
  ASSUME NEW p \in {U, S, M}, NEW lo, NEW hi, lo # hi, NEW b,
         lo \in b <=> lo \in Shifted(p, lo, hi), hi \in b <=> hi \in Shifted(p, lo, hi)
  PROVE  Field(b, lo, hi) = p
<1>1. CASE p = U
  BY <1>1 DEF Field, Shifted, U
<1>2. CASE p = S
  BY <1>2 DEF Field, Shifted, S
<1>3. CASE p = M
  BY <1>3 DEF Field, Shifted, M
<1> QED
  BY <1>1, <1>2, <1>3

(* SPP is one bit: no state that software can reach has the bit over it.   *)
LEMMA SppBits ==
  ASSUME NEW c \in CsrType
  PROVE  Spp(c) \in {U, S}
<1>1. VS0 \notin c.mstatus
  BY DEF CsrType, MStatusMask, SIE, MIE, SPIE, MPIE, SPP, VS0, MPP0, MPP1, FS0, FS1, MPRV
<1> QED
  BY <1>1 DEF Spp, Field, U, S

(* MPP never holds the reserved 2: it is then a privilege.                 *)
LEMMA MppBits ==
  ASSUME NEW c, Mpp(c) # 2
  PROVE  Mpp(c) \in {U, S, M}
  BY DEF Mpp, Field, U, S, M

(* updateMMUState reads satp, MPRV, MPP and priv.                          *)
LEMMA MmuAgrees ==
  ASSUME NEW p, NEW c, NEW d, d.satp = c.satp, MPRV \in d.mstatus <=> MPRV \in c.mstatus, Mpp(d) = Mpp(c)
  PROVE  UpdateMMUState(p, d) = UpdateMMUState(p, c)
  BY DEF UpdateMMUState

(* The cached MMU state is two Booleans.                                   *)
LEMMA MmuType ==
  ASSUME NEW p, NEW c
  PROVE  UpdateMMUState(p, c) \in [ifetch: BOOLEAN, data: BOOLEAN]
  BY DEF UpdateMMUState

-----------------------------------------------------------------------------
(* Decode.                                                                 *)

(* RiscvArch::decode leaves a typed DecodeInfo if the instruction does.    *)
LEMMA DecodedInfo ==
  ASSUME NEW x, Decoded(x), csr \in CsrType,
         x.irq \in BOOLEAN, x.exception \in Ints \cup Traps \cup {EXC_SRET, EXC_MRET, EXC_NONE},
         WriteOK(x.write), x.write # NoWrite => writes < MaxWrites
  PROVE  /\ info'.irq \in BOOLEAN
         /\ info'.exception \in Ints \cup Traps \cup {EXC_SRET, EXC_MRET, EXC_NONE}
         /\ WriteOK(info'.write)
         /\ info'.write # NoWrite => writes < MaxWrites
<1>1. CASE info' = x
  BY <1>1
<1>2. CASE \E n \in Pending : Highest(n) /\ info' = [exception |-> n, irq |-> TRUE, write |-> NoWrite]
  <2>1. Pending \subseteq Ints
    BY DEF Pending, CsrType
  <2>2. WriteOK(NoWrite)
    BY DEF WriteOK
  <2> QED
    BY <1>2, <2>1, <2>2
<1> QED
  BY <1>1, <1>2 DEF Decoded

(* A decoded instruction without a CSR write is typed.                     *)
LEMMA PlainInfo ==
  ASSUME NEW e \in Ints \cup Traps \cup {EXC_SRET, EXC_MRET, EXC_NONE}
  PROVE  /\ Plain(e).irq \in BOOLEAN
         /\ Plain(e).exception \in Ints \cup Traps \cup {EXC_SRET, EXC_MRET, EXC_NONE}
         /\ WriteOK(Plain(e).write)
         /\ Plain(e).write = NoWrite
  BY DEF Plain, WriteOK

(* The CSR functions: what a write may touch.                              *)
LEMMA CsrWriteOK ==
  ASSUME csr \in CsrType, NEW i \in CsrInsts, LegalMpp(CsrWrite(i, csr))
  PROVE  WriteOK(CsrWrite(i, csr))
<1> DEFINE reg == Reg(i.csr)
           mask == WriteMask(i.csr, csr)
<1>1. i.csr \in {"mstatus", "sstatus", "mideleg", "medeleg", "mie", "sie", "mip", "sip", "satp", "sepc", "mepc"}
  BY CsrInstsAssumption
<1>2. \/ reg = "mstatus" /\ mask \in {MStatusMask, SStatusMask}
      \/ reg \in {"mie", "mip", "mideleg"} /\ mask \subseteq Ints
      \/ reg = "medeleg" /\ mask \subseteq Traps
      \/ reg = "satp" /\ mask \subseteq {63}
      \/ reg \in {"sepc", "mepc"} /\ mask \subseteq PcBits
  BY <1>1 DEF Reg, WriteMask, Ints
<1>3. CASE reg \in {"mie", "mip", "mideleg"}
  <2>1. CsrWrite(i, csr).reg = reg /\ CsrWrite(i, csr).mask \subseteq mask
    BY <1>3 DEF CsrWrite
  <2> QED
    BY <1>2, <1>3, <2>1 DEF WriteOK
<1>4. CASE reg \notin {"mie", "mip", "mideleg"}
  <2>1. CsrWrite(i, csr) = NoWrite \/ (CsrWrite(i, csr).reg = reg /\ CsrWrite(i, csr).mask = mask)
    BY <1>4 DEF CsrWrite
  <2> QED
    BY <1>2, <1>4, <2>1 DEF WriteOK
<1> QED
  BY <1>3, <1>4

(* Whatever leaves the frames' bits of the CSRs alone, and commits nothing,
   keeps the invariant: decode, a discard and an interrupt line. *)
LEMMA QuietKeeps ==
  ASSUME HartInv, UNCHANGED << priv, pc, mmu, writes, frame >>,
         csr' \in CsrType, SameFrames(csr', csr),
         info' # NoInfo => /\ info'.irq \in BOOLEAN
                           /\ info'.exception \in Ints \cup Traps \cup {EXC_SRET, EXC_MRET, EXC_NONE}
                           /\ WriteOK(info'.write)
                           /\ info'.write # NoWrite => writes < MaxWrites
  PROVE  HartInv'
<1>1. Mpp(csr') = Mpp(csr) /\ Spp(csr') = Spp(csr)
  BY FieldAgrees DEF Mpp, Spp, SameFrames
<1>2. HartTypeOK'
  BY <1>1 DEF HartInv, HartTypeOK
<1>3. MmuStateFresh'
  <2>1. UpdateMMUState(priv, csr') = UpdateMMUState(priv, csr)
    BY <1>1, MmuAgrees DEF SameFrames
  <2> QED
    BY <2>1 DEF HartInv, MmuStateFresh
<1>4. FramesHeld'
  BY <1>1 DEF HartInv, FramesHeld, HeldS, HeldM, SameFrames
<1>5. InfoOK'
  BY DEF InfoOK
<1> QED
  BY <1>2, <1>3, <1>4, <1>5 DEF HartInv

(* A decode changes neither a frame nor, but for FS, a register.           *)
LEMMA DecodedKeeps ==
  ASSUME HartInv, NEW x, Decoded(x), csr' \in CsrType, SameFrames(csr', csr),
         x.irq \in BOOLEAN, x.exception \in Ints \cup Traps \cup {EXC_SRET, EXC_MRET, EXC_NONE},
         WriteOK(x.write), x.write # NoWrite => writes < MaxWrites
  PROVE  HartInv'
<1>1. csr \in CsrType
  BY DEF HartInv, HartTypeOK
<1>2. UNCHANGED << priv, pc, mmu, writes, frame >>
  BY DEF Decoded
<1> QED
  BY <1>1, <1>2, DecodedInfo, QuietKeeps

(* The same for an instruction without a CSR write.                        *)
LEMMA DecodePlainKeeps ==
  ASSUME HartInv, NEW e \in Ints \cup Traps \cup {EXC_SRET, EXC_MRET, EXC_NONE}, Decoded(Plain(e)),
         csr' \in CsrType, SameFrames(csr', csr)
  PROVE  HartInv'
  BY PlainInfo, DecodedKeeps

(* decode, whatever it finds.                                              *)
LEMMA DecodeKeeps ==
  ASSUME HartInv, HartDecode
  PROVE  HartInv'
<1> USE DEF HartInv
<1>1. csr \in CsrType /\ priv \in {U, S, M} /\ SameFrames(csr, csr)
  BY DEF HartTypeOK, SameFrames
<1>2. /\ {EXC_II, EXC_BP, EXC_IPF} \cup Misaligned \cup PageFaults \subseteq Traps
      /\ EXC_ECU + priv \in Traps
  BY <1>1 DEF Traps
<1>3. CASE DecodePlain
  BY <1>1, <1>3, DecodePlainKeeps DEF DecodePlain
<1>4. CASE DecodeIllegal
  BY <1>1, <1>2, <1>4, DecodePlainKeeps DEF DecodeIllegal
<1>5. CASE DecodeSret
  BY <1>1, <1>2, <1>5, DecodePlainKeeps DEF DecodeSret
<1>6. CASE DecodeMret
  BY <1>1, <1>2, <1>6, DecodePlainKeeps DEF DecodeMret
<1>7. CASE DecodeEcall
  BY <1>1, <1>2, <1>7, DecodePlainKeeps DEF DecodeEcall
<1>8. CASE DecodeEbreak
  BY <1>1, <1>2, <1>8, DecodePlainKeeps DEF DecodeEbreak
<1>9. CASE DecodeAccessFault
  <2>1. PICK e \in Misaligned \cup PageFaults : Decoded(Plain(e))
    BY <1>9 DEF DecodeAccessFault
  <2> QED
    BY <1>1, <1>2, <1>9, <2>1, DecodePlainKeeps DEF DecodeAccessFault
<1>10. CASE DecodeFp
  <2>1. csr' \in CsrType
    BY <1>1, <1>10 DEF DecodeFp, CsrType, MStatusMask
  <2>2. SameFrames(csr', csr)
    BY <1>1, <1>10 DEF DecodeFp, SameFrames, CsrType, SPIE, MPIE, SPP, VS0, MPP0, MPP1, MPRV, FS0, FS1
  <2>3. PICK e \in {EXC_NONE, EXC_II} : Decoded(Plain(e))
    BY <1>10 DEF DecodeFp
  <2> QED
    BY <1>2, <2>1, <2>2, <2>3, DecodePlainKeeps
<1>11. CASE FetchFault
  BY <1>1, <1>2, <1>11, PlainInfo, QuietKeeps DEF FetchFault
<1>12. ASSUME NEW i \in CsrInsts, DecodeCsr(i)
       PROVE  HartInv'
  <2> DEFINE x == [exception |-> EXC_NONE, irq |-> FALSE, write |-> CsrWrite(i, csr)]
  <2>1. Decoded(x) /\ csr' = csr /\ writes < MaxWrites /\ LegalMpp(CsrWrite(i, csr))
    BY <1>12 DEF DecodeCsr
  <2>2. WriteOK(x.write)
    BY <1>1, <2>1, CsrWriteOK
  <2>3. x.irq \in BOOLEAN /\ x.exception = EXC_NONE
    OBVIOUS
  <2> HIDE DEF x
  <2> QED
    BY <1>1, <2>1, <2>2, <2>3, DecodedKeeps
<1> QED
  BY <1>3, <1>4, <1>5, <1>6, <1>7, <1>8, <1>9, <1>10, <1>11, <1>12 DEF HartDecode

-----------------------------------------------------------------------------
(* Commit.                                                                 *)

(* updateEnv writes CSRs and privilege and refreshes the MMU state from both:
   what is left to show of each way through it is the frames. *)
LEMMA CommitKeeps ==
  ASSUME HartInv, NEW p \in {U, S, M}, NEW c \in CsrType, Commits(p, c), Mpp(c) # 2,
         pc' \in Pcs, writes' \in 0 .. MaxWrites,
         frame' \in [{"S", "M"} -> {NoFrame} \cup [pc: Pcs, priv: {U, S, M}, ie: BOOLEAN]],
         HeldS(c, frame'["S"]), HeldM(c, frame'["M"])
  PROVE  HartInv'
<1>1. HartTypeOK'
  BY MmuType DEF Commits, HartTypeOK
<1>2. MmuStateFresh'
  BY DEF Commits, MmuStateFresh
<1>3. FramesHeld'
  BY DEF Commits, FramesHeld
<1>4. InfoOK'
  BY DEF Commits, InfoOK
<1> QED
  BY <1>1, <1>2, <1>3, <1>4 DEF HartInv

(* A trap to S saves the frame of S and keeps that of M.                   *)
LEMMA TrapToSFrames ==
  ASSUME csr \in CsrType, priv \in {U, S}, pc \in Pcs
  PROVE  /\ TrapToS(csr) \in CsrType
         /\ Mpp(TrapToS(csr)) = Mpp(csr)
         /\ HeldS(TrapToS(csr), [pc |-> pc, priv |-> priv, ie |-> SIE \in csr.mstatus])
         /\ \A f : HeldM(csr, f) => HeldM(TrapToS(csr), f)
<1> DEFINE c == TrapToS(csr)
<1>1. Shifted(priv, SPP, VS0) \subseteq {SPP}
  BY DEF Shifted, U, S
<1>2. /\ c.mstatus = (csr.mstatus \ {SPP, SPIE, SIE}) \cup Shifted(priv, SPP, VS0) \cup Moved(csr.mstatus, SIE, SPIE)
      /\ c.sepc = pc /\ c.mepc = csr.mepc
      /\ csr.mstatus \subseteq MStatusMask
  BY DEF TrapToS, CsrType
<1>3. c \in CsrType
  <2>1. c.mstatus \subseteq MStatusMask
    BY <1>1, <1>2 DEF Moved, MStatusMask
  <2> QED
    BY <2>1 DEF TrapToS, CsrType
<1>4. \A b \in {MPP0, MPP1, MPIE} : b \in c.mstatus <=> b \in csr.mstatus
  BY <1>1, <1>2 DEF Moved, SIE, SPIE, SPP, MPP0, MPP1, MPIE
<1>5. Mpp(c) = Mpp(csr)
  BY <1>4, FieldAgrees DEF Mpp
<1>6. SPIE \in c.mstatus <=> SIE \in csr.mstatus
  BY <1>1, <1>2 DEF Moved, SIE, SPIE, SPP
<1>7. Spp(c) = priv
  <2>1. SPP \in c.mstatus <=> SPP \in Shifted(priv, SPP, VS0)
    BY <1>2 DEF Moved, SPIE, SPP
  <2>2. VS0 \notin c.mstatus
    BY <1>1, <1>2 DEF Moved, MStatusMask, SIE, MIE, SPIE, MPIE, SPP, VS0, MPP0, MPP1, FS0, FS1, MPRV
  <2>3. VS0 \notin Shifted(priv, SPP, VS0) /\ SPP # VS0
    BY <1>1 DEF SPP, VS0
  <2> QED
    BY <2>1, <2>2, <2>3, FieldShifted DEF Spp
<1>8. HeldS(c, [pc |-> pc, priv |-> priv, ie |-> SIE \in csr.mstatus])
  BY <1>2, <1>6, <1>7 DEF HeldS
<1>9. \A f : HeldM(csr, f) => HeldM(c, f)
  BY <1>2, <1>4, <1>5 DEF HeldM
<1> QED
  BY <1>3, <1>5, <1>8, <1>9

(* A trap to M saves the frame of M and keeps that of S.                   *)
LEMMA TrapToMFrames ==
  ASSUME csr \in CsrType, priv \in {U, S, M}, pc \in Pcs
  PROVE  /\ TrapToM(csr) \in CsrType
         /\ Mpp(TrapToM(csr)) # 2
         /\ HeldM(TrapToM(csr), [pc |-> pc, priv |-> priv, ie |-> MIE \in csr.mstatus])
         /\ \A f : HeldS(csr, f) => HeldS(TrapToM(csr), f)
<1> DEFINE c == TrapToM(csr)
<1>1. Shifted(priv, MPP0, MPP1) \subseteq {MPP0, MPP1}
  BY DEF Shifted
<1>2. /\ c.mstatus = (csr.mstatus \ {MPP0, MPP1, MPIE, MIE}) \cup Shifted(priv, MPP0, MPP1) \cup Moved(csr.mstatus, MIE, MPIE)
      /\ c.mepc = pc /\ c.sepc = csr.sepc
      /\ csr.mstatus \subseteq MStatusMask
  BY DEF TrapToM, CsrType
<1>3. c \in CsrType
  <2>1. c.mstatus \subseteq MStatusMask
    BY <1>1, <1>2 DEF Moved, MStatusMask
  <2> QED
    BY <2>1 DEF TrapToM, CsrType
<1>4. \A b \in {SPP, VS0, SPIE} : b \in c.mstatus <=> b \in csr.mstatus
  BY <1>1, <1>2 DEF Moved, MIE, SPIE, SPP, VS0, MPP0, MPP1, MPIE
<1>5. Spp(c) = Spp(csr)
  BY <1>4, FieldAgrees DEF Spp
<1>6. MPIE \in c.mstatus <=> MIE \in csr.mstatus
  BY <1>1, <1>2 DEF Moved, MIE, MPIE, MPP0, MPP1
<1>7. Mpp(c) = priv
  <2>1. MPP0 \in c.mstatus <=> MPP0 \in Shifted(priv, MPP0, MPP1)
    BY <1>2 DEF Moved, MPIE, MPP0
  <2>2. MPP1 \in c.mstatus <=> MPP1 \in Shifted(priv, MPP0, MPP1)
    BY <1>2 DEF Moved, MPIE, MPP1
  <2>3. MPP0 # MPP1
    BY DEF MPP0, MPP1
  <2> QED
    BY <2>1, <2>2, <2>3, FieldShifted DEF Mpp
<1>8. HeldM(c, [pc |-> pc, priv |-> priv, ie |-> MIE \in csr.mstatus])
  BY <1>2, <1>6, <1>7 DEF HeldM
<1>9. \A f : HeldS(csr, f) => HeldS(c, f)
  BY <1>2, <1>4, <1>5 DEF HeldS
<1> QED
  BY <1>3, <1>7, <1>8, <1>9 DEF U, S, M

(* updateEnv, one lemma for each way through it.                           *)
LEMMA UpdateTrapKeeps ==
  ASSUME HartInv, UpdateTrap
  PROVE  HartInv'
<1> DEFINE Frames == [pc: Pcs, priv: {U, S, M}, ie: BOOLEAN]
<1>1. /\ csr \in CsrType /\ priv \in {U, S, M} /\ pc \in Pcs /\ writes \in 0 .. MaxWrites
      /\ Mpp(csr) # 2 /\ frame \in [{"S", "M"} -> {NoFrame} \cup Frames]
      /\ HeldS(csr, frame["S"]) /\ HeldM(csr, frame["M"])
  BY DEF HartInv, HartTypeOK, FramesHeld
<1>2. pc' \in Pcs /\ writes' = writes
  BY DEF UpdateTrap
<1>3. CASE Edeleg
  <2> DEFINE r == [pc |-> pc, priv |-> priv, ie |-> SIE \in csr.mstatus]
  <2>1. priv \in {U, S}
    BY <1>1, <1>3 DEF Edeleg
  <2>2. Commits(S, TrapToS(csr)) /\ frame' = [frame EXCEPT !["S"] = r]
    BY <1>3 DEF UpdateTrap
  <2>3. r \in Frames
    BY <1>1
  <2>4. frame' \in [{"S", "M"} -> {NoFrame} \cup Frames] /\ frame'["S"] = r /\ frame'["M"] = frame["M"]
    BY <1>1, <2>2, <2>3
  <2> HIDE DEF r
  <2> QED
    BY <1>1, <1>2, <2>1, <2>2, <2>4, TrapToSFrames, CommitKeeps DEF r
<1>4. CASE ~Edeleg
  <2> DEFINE r == [pc |-> pc, priv |-> priv, ie |-> MIE \in csr.mstatus]
  <2>1. Commits(M, TrapToM(csr)) /\ frame' = [frame EXCEPT !["M"] = r]
    BY <1>4 DEF UpdateTrap
  <2>2. r \in Frames
    BY <1>1
  <2>3. frame' \in [{"S", "M"} -> {NoFrame} \cup Frames] /\ frame'["M"] = r /\ frame'["S"] = frame["S"]
    BY <1>1, <2>1, <2>2
  <2> HIDE DEF r
  <2> QED
    BY <1>1, <1>2, <2>1, <2>3, TrapToMFrames, CommitKeeps DEF r
<1> QED
  BY <1>3, <1>4

LEMMA UpdateSretKeeps ==
  ASSUME HartInv, UpdateSret
  PROVE  HartInv'
<1> DEFINE bits == (csr.mstatus \ {SPP, SIE, MPRV}) \cup Moved(csr.mstatus, SPIE, SIE) \cup {SPIE}
           c == [csr EXCEPT !.mstatus = bits]
<1>1. /\ csr \in CsrType /\ writes \in 0 .. MaxWrites /\ Mpp(csr) # 2
      /\ frame \in [{"S", "M"} -> {NoFrame} \cup [pc: Pcs, priv: {U, S, M}, ie: BOOLEAN]]
      /\ HeldM(csr, frame["M"])
  BY DEF HartInv, HartTypeOK, FramesHeld
<1>2. /\ Commits(Spp(csr), c) /\ pc' = csr.sepc /\ writes' = writes
      /\ frame' = [frame EXCEPT !["S"] = NoFrame]
  BY DEF UpdateSret
<1>3. bits \subseteq MStatusMask
  BY <1>1 DEF CsrType, Moved, MStatusMask
<1>4. c \in CsrType /\ c.mstatus = bits /\ c.mepc = csr.mepc /\ csr.sepc \in Pcs
  BY <1>1, <1>3 DEF CsrType
<1>5. \A b \in {MPP0, MPP1, MPIE} : b \in bits <=> b \in csr.mstatus
  BY DEF Moved, SIE, SPIE, SPP, MPP0, MPP1, MPIE, MPRV
<1> HIDE DEF bits, c
<1>6. Mpp(c) = Mpp(csr)
  BY <1>4, <1>5, FieldAgrees DEF Mpp
<1>7. HeldM(c, frame["M"])
  BY <1>1, <1>4, <1>5, <1>6 DEF HeldM
<1>8. /\ frame' \in [{"S", "M"} -> {NoFrame} \cup [pc: Pcs, priv: {U, S, M}, ie: BOOLEAN]]
      /\ frame'["S"] = NoFrame /\ frame'["M"] = frame["M"]
  BY <1>1, <1>2
<1>9. HeldS(c, NoFrame)
  BY DEF HeldS
<1>10. Spp(csr) \in {U, S, M}
  BY <1>1, SppBits
<1> QED
  BY <1>1, <1>2, <1>4, <1>6, <1>7, <1>8, <1>9, <1>10, CommitKeeps

LEMMA UpdateMretKeeps ==
  ASSUME HartInv, UpdateMret
  PROVE  HartInv'
<1> DEFINE bits == (csr.mstatus \ ({MPP0, MPP1, MIE} \cup (IF Mpp(csr) # M THEN {MPRV} ELSE {})))
                   \cup Moved(csr.mstatus, MPIE, MIE) \cup {MPIE}
           c == [csr EXCEPT !.mstatus = bits]
<1>1. /\ csr \in CsrType /\ writes \in 0 .. MaxWrites /\ Mpp(csr) # 2
      /\ frame \in [{"S", "M"} -> {NoFrame} \cup [pc: Pcs, priv: {U, S, M}, ie: BOOLEAN]]
      /\ HeldS(csr, frame["S"])
  BY DEF HartInv, HartTypeOK, FramesHeld
<1>2. /\ Commits(Mpp(csr), c) /\ pc' = csr.mepc /\ writes' = writes
      /\ frame' = [frame EXCEPT !["M"] = NoFrame]
  BY DEF UpdateMret
<1>3. bits \subseteq MStatusMask
  BY <1>1 DEF CsrType, Moved, MStatusMask
<1>4. c \in CsrType /\ c.mstatus = bits /\ c.sepc = csr.sepc /\ csr.mepc \in Pcs
  BY <1>1, <1>3 DEF CsrType
<1>5. \A b \in {SPP, VS0, SPIE} : b \in bits <=> b \in csr.mstatus
  BY DEF Moved, MIE, SPIE, SPP, VS0, MPP0, MPP1, MPIE, MPRV
<1>6. MPP1 \notin bits
  BY DEF Moved, MIE, MPIE, MPP1
<1> HIDE DEF bits, c
<1>7. Mpp(c) # 2
  BY <1>4, <1>6 DEF Mpp, Field
<1>8. Spp(c) = Spp(csr)
  BY <1>4, <1>5, FieldAgrees DEF Spp
<1>9. HeldS(c, frame["S"])
  BY <1>1, <1>4, <1>5, <1>8 DEF HeldS
<1>10. /\ frame' \in [{"S", "M"} -> {NoFrame} \cup [pc: Pcs, priv: {U, S, M}, ie: BOOLEAN]]
       /\ frame'["M"] = NoFrame /\ frame'["S"] = frame["S"]
  BY <1>1, <1>2
<1>11. HeldM(c, NoFrame)
  BY DEF HeldM
<1>12. Mpp(csr) \in {U, S, M}
  BY <1>1, MppBits
<1> QED
  BY <1>1, <1>2, <1>4, <1>7, <1>9, <1>10, <1>11, <1>12, CommitKeeps

(* A write within its mask leaves typed CSRs, and no MPP of 2.             *)
LEMMA WrittenType ==
  ASSUME csr \in CsrType, Mpp(csr) # 2, NEW w, WriteOK(w)
  PROVE  Written(w) \in CsrType /\ Mpp(Written(w)) # 2
<1> DEFINE c == Written(w)
<1>1. CASE w = NoWrite
  BY <1>1 DEF Written
<1>2. CASE w # NoWrite /\ w.reg = "mstatus" /\ w.mask \in {MStatusMask, SStatusMask} /\ LegalMpp(w)
  <2>1. c = [csr EXCEPT !.mstatus = (csr.mstatus \ w.mask) \cup (w.data \cap w.mask)]
    BY <1>2 DEF Written, CsrType
  <2>2. w.mask \subseteq MStatusMask
    BY <1>2 DEF MStatusMask, SStatusMask
  <2>3. c \in CsrType /\ c.mstatus = (csr.mstatus \ w.mask) \cup (w.data \cap w.mask)
    BY <2>1, <2>2 DEF CsrType
  <2> HIDE DEF c
  <2>4. ASSUME w.mask = MStatusMask
        PROVE  Mpp(c) # 2
    <3>1. MPP0 \in w.mask /\ MPP1 \in w.mask
      BY <2>4 DEF MStatusMask
    <3>2. MPP1 \in c.mstatus => MPP0 \in c.mstatus
      BY <1>2, <2>3, <3>1 DEF LegalMpp
    <3> QED
      BY <3>2 DEF Mpp, Field
  <2>5. ASSUME w.mask = SStatusMask
        PROVE  Mpp(c) # 2
    <3>1. MPP0 \notin w.mask /\ MPP1 \notin w.mask
      BY <2>5 DEF SStatusMask, SIE, SPIE, SPP, FS0, FS1, MPP0, MPP1
    <3>2. (MPP0 \in c.mstatus <=> MPP0 \in csr.mstatus) /\ (MPP1 \in c.mstatus <=> MPP1 \in csr.mstatus)
      BY <2>3, <3>1
    <3>3. Mpp(c) = Mpp(csr)
      BY <3>2, FieldAgrees DEF Mpp
    <3> QED
      BY <3>3
  <2> QED
    BY <1>2, <2>3, <2>4, <2>5 DEF c
<1>3. ASSUME w # NoWrite, WriteOK(w), w.reg # "mstatus"
      PROVE  c \in CsrType /\ c.mstatus = csr.mstatus
  <2>1. c = [csr EXCEPT ![w.reg] = (csr[w.reg] \ w.mask) \cup (w.data \cap w.mask)]
    BY <1>3 DEF Written
  <2>2. CASE w.reg \in {"mie", "mip", "mideleg"} /\ w.mask \subseteq Ints
    BY <2>1, <2>2 DEF CsrType
  <2>3. CASE w.reg = "medeleg" /\ w.mask \subseteq Traps
    BY <2>1, <2>3 DEF CsrType
  <2>4. CASE w.reg = "satp" /\ w.mask \subseteq {63}
    BY <2>1, <2>4 DEF CsrType
  <2>5. CASE w.reg \in {"sepc", "mepc"} /\ w.mask \subseteq PcBits
    BY <2>1, <2>5 DEF CsrType, Pcs
  <2> QED
    BY <1>3, <2>2, <2>3, <2>4, <2>5 DEF WriteOK
<1> QED
  BY <1>1, <1>2, <1>3 DEF WriteOK, Mpp

LEMMA UpdateNoneKeeps ==
  ASSUME HartInv, UpdateNone
  PROVE  HartInv'
<1> DEFINE c == Written(info.write)
           Kept(l) == Epc(c, l) = Epc(csr, l) /\ c.mstatus \cap FrameBits[l] = csr.mstatus \cap FrameBits[l]
<1>1. /\ csr \in CsrType /\ priv \in {U, S, M} /\ writes \in 0 .. MaxWrites /\ Mpp(csr) # 2
      /\ frame \in [{"S", "M"} -> {NoFrame} \cup [pc: Pcs, priv: {U, S, M}, ie: BOOLEAN]]
      /\ HeldS(csr, frame["S"]) /\ HeldM(csr, frame["M"])
  BY DEF HartInv, HartTypeOK, FramesHeld
<1>2. /\ WriteOK(info.write)
      /\ info.write # NoWrite => writes < MaxWrites
  BY DEF HartInv, InfoOK, UpdateNone
<1>3. /\ Commits(priv, c) /\ pc' \in Pcs
      /\ frame' = [l \in {"S", "M"} |-> IF Kept(l) THEN frame[l] ELSE NoFrame]
      /\ writes' = IF info.write = NoWrite THEN writes ELSE writes + 1
  BY DEF UpdateNone
<1>4. writes' \in 0 .. MaxWrites
  BY <1>1, <1>2, <1>3, BoundAssumption
<1>5. c \in CsrType /\ Mpp(c) # 2
  BY <1>1, <1>2, WrittenType
<1> HIDE DEF c
<1>6. frame' \in [{"S", "M"} -> {NoFrame} \cup [pc: Pcs, priv: {U, S, M}, ie: BOOLEAN]]
  BY <1>1, <1>3
<1>7. HeldS(c, frame'["S"])
  <2>1. CASE Kept("S")
    <3>1. c.sepc = csr.sepc /\ (\A b \in {SPP, VS0, SPIE} : b \in c.mstatus <=> b \in csr.mstatus)
      BY <2>1 DEF Epc, FrameBits
    <3>2. Spp(c) = Spp(csr)
      BY <3>1, FieldAgrees DEF Spp
    <3> QED
      BY <1>1, <1>3, <2>1, <3>1, <3>2 DEF HeldS
  <2>2. CASE ~Kept("S")
    BY <1>3, <2>2 DEF HeldS
  <2> QED
    BY <2>1, <2>2
<1>8. HeldM(c, frame'["M"])
  <2>1. CASE Kept("M")
    <3>1. c.mepc = csr.mepc /\ (\A b \in {MPP0, MPP1, MPIE} : b \in c.mstatus <=> b \in csr.mstatus)
      BY <2>1 DEF Epc, FrameBits
    <3>2. Mpp(c) = Mpp(csr)
      BY <3>1, FieldAgrees DEF Mpp
    <3> QED
      BY <1>1, <1>3, <2>1, <3>1, <3>2 DEF HeldM
  <2>2. CASE ~Kept("M")
    BY <1>3, <2>2 DEF HeldM
  <2> QED
    BY <2>1, <2>2
<1> QED
  BY <1>1, <1>3, <1>4, <1>5, <1>6, <1>7, <1>8, CommitKeeps

-----------------------------------------------------------------------------
(* The theorems.                                                           *)

(* Reset.                                                                  *)
LEMMA HartInitInv == HartInit => HartInv
<1> SUFFICES ASSUME HartInit
             PROVE  HartInv
  OBVIOUS
<1>1. csr \in CsrType /\ csr.mstatus = {} /\ csr.satp = {} /\ Mpp(csr) = 0
  BY DEF HartInit, CsrBits, CsrType, Pcs, Mpp, Field
<1>2. HartTypeOK
  <2>1. priv = M /\ pc \in Pcs /\ Mpp(csr) # 2 /\ info = NoInfo /\ writes \in 0 .. MaxWrites
    BY <1>1, BoundAssumption DEF HartInit, Pcs
  <2>2. mmu \in [ifetch: BOOLEAN, data: BOOLEAN]
    BY DEF HartInit
  <2>3. frame \in [{"S", "M"} -> {NoFrame} \cup [pc: Pcs, priv: {U, S, M}, ie: BOOLEAN]]
    BY DEF HartInit
  <2> QED
    BY <1>1, <2>1, <2>2, <2>3 DEF HartTypeOK
<1>3. MmuStateFresh
  BY <1>1 DEF HartInit, MmuStateFresh, UpdateMMUState
<1>4. FramesHeld /\ InfoOK
  BY DEF HartInit, FramesHeld, HeldS, HeldM, InfoOK
<1> QED
  BY <1>2, <1>3, <1>4 DEF HartInv

(* Every step keeps the invariant.                                         *)
LEMMA HartNextInv == HartInv /\ [HartNext]_hartVars => HartInv'
<1> SUFFICES ASSUME HartInv, [HartNext]_hartVars
             PROVE  HartInv'
  OBVIOUS
<1>1. /\ csr \in CsrType /\ SameFrames(csr, csr)
      /\ info # NoInfo => /\ info.irq \in BOOLEAN
                          /\ info.exception \in Ints \cup Traps \cup {EXC_SRET, EXC_MRET, EXC_NONE}
                          /\ WriteOK(info.write)
                          /\ info.write # NoWrite => writes < MaxWrites
  BY DEF HartInv, HartTypeOK, InfoOK, SameFrames
<1>2. CASE HartDecode
  BY <1>2, DecodeKeeps
<1>3. CASE Discard
  BY <1>1, <1>3, QuietKeeps DEF Discard
<1>4. ASSUME NEW irq \in SUBSET Ints, IrqListener(irq)
      PROVE  HartInv'
  <2>1. csr' \in CsrType /\ SameFrames(csr', csr)
    BY <1>1, <1>4 DEF IrqListener, CsrType, SameFrames
  <2>2. UNCHANGED << priv, pc, mmu, info, writes, frame >>
    BY <1>4 DEF IrqListener
  <2> QED
    BY <1>1, <2>1, <2>2, QuietKeeps
<1>5. CASE UpdateTrap
  BY <1>5, UpdateTrapKeeps
<1>6. CASE UpdateSret
  BY <1>6, UpdateSretKeeps
<1>7. CASE UpdateMret
  BY <1>7, UpdateMretKeeps
<1>8. CASE UpdateNone
  BY <1>8, UpdateNoneKeeps
<1>9. CASE UNCHANGED hartVars
  BY <1>1, <1>9, QuietKeeps DEF hartVars
<1> QED
  BY <1>2, <1>3, <1>4, <1>5, <1>6, <1>7, <1>8, <1>9 DEF HartNext

(* updateEnv and decode keep every register within the bits its mask leaves,
   and no trap, return or write leaves a privilege that does not exist. *)
THEOREM HartTypes == HartSpec => []HartTypeOK
<1>1. HartInv => HartTypeOK
  BY DEF HartInv
<1> QED
  BY <1>1, HartInitInv, HartNextInv, PTL DEF HartSpec

(* The MMU state cached by updateEnv is that of the state translateAddr would
   read, whatever decode, interrupt lines and discards do in between. *)
THEOREM MmuFresh == HartSpec => []MmuStateFresh
<1>1. HartInv => MmuStateFresh
  BY DEF HartInv
<1> QED
  BY <1>1, HartInitInv, HartNextInv, PTL DEF HartSpec

(* SRET and MRET in updateEnv undo the last trap to their level.           *)
THEOREM TrapsReturn == HartSpec => TrapReturns
<1> DEFINE Returns ==
      /\ UpdateSret /\ frame["S"] # NoFrame =>
           << pc', priv', SIE \in csr'.mstatus >> = << frame["S"].pc, frame["S"].priv, frame["S"].ie >>
      /\ UpdateMret /\ frame["M"] # NoFrame =>
           << pc', priv', MIE \in csr'.mstatus >> = << frame["M"].pc, frame["M"].priv, frame["M"].ie >>
<1>1. HartInv /\ [HartNext]_hartVars => [Returns]_hartVars
  <2> SUFFICES ASSUME HartInv
               PROVE  Returns
    OBVIOUS
  <2>1. csr \in CsrType /\ HeldS(csr, frame["S"]) /\ HeldM(csr, frame["M"])
        /\ frame \in [{"S", "M"} -> {NoFrame} \cup [pc: Pcs, priv: {U, S, M}, ie: BOOLEAN]]
    BY DEF HartInv, HartTypeOK, FramesHeld
  <2>2. ASSUME UpdateSret, frame["S"] # NoFrame
        PROVE  pc' = frame["S"].pc /\ priv' = frame["S"].priv /\ (SIE \in csr'.mstatus) = frame["S"].ie
    <3>1. pc' = csr.sepc /\ priv' = Spp(csr)
          /\ csr' = [csr EXCEPT !.mstatus = (@ \ {SPP, SIE, MPRV}) \cup Moved(@, SPIE, SIE) \cup {SPIE}]
      BY <2>2 DEF UpdateSret, Commits
    <3>2. csr'.mstatus = (csr.mstatus \ {SPP, SIE, MPRV}) \cup Moved(csr.mstatus, SPIE, SIE) \cup {SPIE}
      BY <2>1, <3>1 DEF CsrType
    <3>3. SIE \in csr'.mstatus <=> SPIE \in csr.mstatus
      BY <3>2 DEF Moved, SIE, SPIE
    <3> QED
      BY <2>1, <2>2, <3>1, <3>3 DEF HeldS
  <2>3. ASSUME UpdateMret, frame["M"] # NoFrame
        PROVE  pc' = frame["M"].pc /\ priv' = frame["M"].priv /\ (MIE \in csr'.mstatus) = frame["M"].ie
    <3> DEFINE gone == {MPP0, MPP1, MIE} \cup (IF Mpp(csr) # M THEN {MPRV} ELSE {})
    <3>1. pc' = csr.mepc /\ priv' = Mpp(csr)
          /\ csr' = [csr EXCEPT !.mstatus = (@ \ gone) \cup Moved(@, MPIE, MIE) \cup {MPIE}]
      BY <2>3 DEF UpdateMret, Commits
    <3>2. csr'.mstatus = (csr.mstatus \ gone) \cup Moved(csr.mstatus, MPIE, MIE) \cup {MPIE}
      BY <2>1, <3>1 DEF CsrType
    <3>3. MIE \in csr'.mstatus <=> MPIE \in csr.mstatus
      BY <3>2 DEF Moved, MIE, MPIE
    <3> QED
      BY <2>1, <2>3, <3>1, <3>3 DEF HeldM
  <2> QED
    BY <2>2, <2>3
<1> QED
  BY <1>1, HartInitInv, HartNextInv, PTL DEF HartSpec, TrapReturns
-----------------------------------------------------------------------------
(* Instructions: the records that instructions leave.                      *)

\* The record that decode and a trans_ function with these effects leave.
LeftBy(effect) == effect ++ Cleared ++ Stale

\* What predict and the test of the type need of the record g that h left.
PredictsFrom(h, g) ==
  /\ g.type \in {"COND", "DIRECT", "PUSH"} => g.data2 = "target"
  /\ g.type \in Types \/ h \in {"jalr", "no_match"} \/ (g.exception # "none" /\ h \in FpHandlers)

\* What EXE, updateEnv and a trap need of it.
StoreOf(g) == g.type \in {"STORE", "AMO"} \/ (g.type = "SC" /\ g.dst0 = "zero")
ExecutesFrom(h, g) ==
  g.exception = "none" =>
    /\ StoreOf(g) \/ g.type \in {"LOAD", "LR"} =>
         /\ g.exc_data = "vaddr" \/ h \in Handled(FpAccess)
         /\ g.idx2 = "size" \/ h \in Handled(LoadReserved)
    /\ g.type = "SC" /\ StoreOf(g) => g.data2 = "value"
    /\ g.type \in {"STORE", "AMO"} => g.data2 = "paddr" /\ g.data1 = "value"
    /\ g.type = "COND" => g.data1 = "taken" /\ g.data2 = "target"
    /\ g.type \in Jumps => g.data2 = "target"
TrapsFrom(h, g) ==
  /\ g.exception = "illegal" => g.exc_data = "inst" \/ h \in FpHandlers \cup Handled(CsrAccess)
  /\ g.exception = "access" => g.exc_data = "vaddr" \/ h \in Handled(FpAccess)

Readable(h, g) == PredictsFrom(h, g) /\ ExecutesFrom(h, g) /\ TrapsFrom(h, g)

(* The type of a handler is one of those of its region, and a known one.   *)
LEMMA RegionTypes ==
  /\ \A p \in Integer : p[2] \in {"INT", "MULT", "DIV"}
  /\ \A p \in Floating : p[2] \in {"FMISC_SIMPLE", "FMISC_COMPLEX", "FADD", "FMUL", "FDIV", "FMA"}
  /\ \A p \in Amos : p[2] = "AMO"
  /\ \A p \in Typed({Branches}) : p[2] = "COND"
  /\ \A p \in Typed({Loads}) : p[2] = "LOAD"
  /\ \A p \in Typed({Stores}) : p[2] = "STORE"
  /\ \A p \in Typed({FpAccess}) : p[2] \in {"LOAD", "STORE"}
  /\ \A p \in Typed({LoadReserved}) : p[2] = "LR"
  /\ \A p \in Typed({StoreConditional}) : p[2] = "SC"
  /\ \A p \in Typed({CsrAccess}) : p[2] = "CSRWR"
  /\ \A p \in Typed({Fences, Hints}) : p[2] \in {"FENCE", "IFENCE", "INT"}
<1>1. \A p \in Integer : p[2] \in {"INT", "MULT", "DIV"}
  BY DEF Integer, Typed, WordAndAdd, BitManip, MinMaxRotate, Logic, LeadingZeros,
         TrailingZeros, Multiply, ExtendAndShiftAdd, ShiftAndCompare, ZextH
<1>2. \A p \in Floating : p[2] \in {"FMISC_SIMPLE", "FMISC_COMPLEX", "FADD", "FMUL", "FDIV", "FMA"}
  BY DEF Floating, Typed, ToFloat, FromFloat, FpArithmetic, FpCompare, FpMinMove, FpSign
<1>3. \A p \in Amos : p[2] = "AMO"
  BY DEF Amos, Typed, AmoAddToMax, AmoMaxuToSwap
<1>4. /\ \A p \in Typed({Branches}) : p[2] = "COND"
      /\ \A p \in Typed({Loads}) : p[2] = "LOAD"
      /\ \A p \in Typed({Stores}) : p[2] = "STORE"
  BY DEF Typed, Branches, Loads, Stores
<1>5. /\ \A p \in Typed({FpAccess}) : p[2] \in {"LOAD", "STORE"}
      /\ \A p \in Typed({LoadReserved}) : p[2] = "LR"
      /\ \A p \in Typed({StoreConditional}) : p[2] = "SC"
      /\ \A p \in Typed({CsrAccess}) : p[2] = "CSRWR"
  BY DEF Typed, FpAccess, LoadReserved, StoreConditional, CsrAccess
<1>6. \A p \in Typed({Fences, Hints}) : p[2] \in {"FENCE", "IFENCE", "INT"}
  BY DEF Typed, Fences, Hints
<1> QED
  BY <1>1, <1>2, <1>3, <1>4, <1>5, <1>6

(* A handler of one region is one of any regions that include it.          *)
LEMMA TypedGrows ==
  ASSUME NEW R, NEW Q, R \subseteq Q
  PROVE  Typed(R) \subseteq Typed(Q)
  BY DEF Typed

(* Every type that a region sets is a known type.                          *)
LEMMA KnownTypes ==
  /\ \A p \in Integer \cup Floating \cup Amos : p[2] \in Types
  /\ \A r \in {Branches, CsrAccess, Fences, Hints, Loads, Stores, FpAccess, LoadReserved, StoreConditional} :
       \A p \in Typed({r}) : p[2] \in Types
  /\ \A p \in Typed({Fences, Hints}) : p[2] \in Types
  /\ Jumps \cup {"SRET", "MRET", "SFENCE", "CSRWR"} \subseteq Types
<1> DEFINE rest == {Branches, CsrAccess, Fences, Hints, Loads, Stores, FpAccess, LoadReserved, StoreConditional}
<1>1. \A p \in Typed(rest) : p[2] \in Types
  BY DEF Types
<1>2. \A r \in rest : Typed({r}) \subseteq Typed(rest)
  <2> SUFFICES ASSUME NEW r \in rest PROVE {r} \subseteq rest
    BY TypedGrows
  <2> QED
    OBVIOUS
<1>3. Typed({Fences, Hints}) \subseteq Typed(rest)
  BY TypedGrows
<1>4. << "csrrw", "CSRWR" >> \in Typed({CsrAccess})
  BY DEF Typed, CsrAccess
<1>5. "CSRWR" \in Types
  <2>1. << "csrrw", "CSRWR" >> \in Typed(rest)
    BY <1>2, <1>4
  <2>2. << "csrrw", "CSRWR" >>[2] = "CSRWR"
    OBVIOUS
  <2> QED
    BY <1>1, <2>1, <2>2
<1>6. Jumps \cup {"SRET", "MRET", "SFENCE"} \subseteq Types
  BY DEF Types
<1>7. \A p \in Integer \cup Floating \cup Amos : p[2] \in Types
  BY DEF Types
<1> QED
  BY <1>1, <1>2, <1>3, <1>5, <1>6, <1>7

(* An interrupt that takes the place of the exception leaves the rest.     *)
LEMMA Interrupted ==
  ASSUME NEW h, NEW e, Readable(h, LeftBy(e))
  PROVE  Readable(h, LeftBy([exception |-> "interrupt"] ++ e))
<1> DEFINE g == LeftBy(e)
           x == LeftBy([exception |-> "interrupt"] ++ e)
<1>1. x.exception = "interrupt" /\ x.type = g.type /\ x.data2 = g.data2
  BY DEF LeftBy, ++, Cleared, Stale, Fields
<1>2. Readable(h, g)
  OBVIOUS
<1> HIDE DEF x, g
<1>3. Readable(h, x)
  BY <1>1, <1>2 DEF Readable, PredictsFrom, ExecutesFrom, TrapsFrom
<1> QED
  BY <1>3 DEF x

(* The handlers that write their results and their type, or are refused    *)
(* before they write anything.                                             *)
LEMMA PlainReadable ==
  /\ \A p \in Integer : Readable(p[1], LeftBy(SetGpr ++ Leaves(p[2])))
  /\ \A p \in Floating : \A e \in {FpuOff, SetGpr ++ Leaves(p[2])} : Readable(p[1], LeftBy(e))
  /\ \A p \in Typed({Fences, Hints}) : Readable(p[1], LeftBy(Leaves(p[2])))
<1>1. ASSUME NEW h, NEW t, t \in {"INT", "MULT", "DIV", "FMISC_SIMPLE", "FMISC_COMPLEX", "FADD", "FMUL", "FDIV", "FMA"}, t \in Types
      PROVE  Readable(h, LeftBy(SetGpr ++ Leaves(t)))
  <2>1. PICK g : g = LeftBy(SetGpr ++ Leaves(t))
    OBVIOUS
  <2>2. g.type = t /\ g.exception = "none"
    BY <2>1 DEF LeftBy, ++, SetGpr, Leaves, Cleared, Stale, Fields
  <2>3. t \notin Jumps
    BY <1>1 DEF Jumps, JalrTypes
  <2> QED
    BY <1>1, <2>1, <2>2, <2>3 DEF Readable, PredictsFrom, ExecutesFrom, TrapsFrom, StoreOf
<1>2. ASSUME NEW h \in FpHandlers
      PROVE  Readable(h, LeftBy(FpuOff))
  <2>1. PICK g : g = LeftBy(FpuOff)
    OBVIOUS
  <2>2. g.type = "stale" /\ g.exception = "illegal"
    BY <2>1 DEF LeftBy, ++, FpuOff, Cleared, Stale, Fields
  <2> QED
    BY <2>1, <2>2 DEF Readable, PredictsFrom, ExecutesFrom, TrapsFrom
<1>3. ASSUME NEW h, NEW t \in {"FENCE", "IFENCE", "INT"}, t \in Types
      PROVE  Readable(h, LeftBy(Leaves(t)))
  <2>1. PICK g : g = LeftBy(Leaves(t))
    OBVIOUS
  <2>2. g.type = t /\ g.exception = "none"
    BY <2>1 DEF LeftBy, ++, Leaves, Cleared, Stale, Fields
  <2>3. t \notin Jumps
    BY <1>3 DEF Jumps, JalrTypes
  <2> QED
    BY <1>3, <2>1, <2>2, <2>3 DEF Readable, PredictsFrom, ExecutesFrom, TrapsFrom, StoreOf
<1>4. ASSUME NEW p \in Integer
      PROVE  Readable(p[1], LeftBy(SetGpr ++ Leaves(p[2])))
  BY <1>1, RegionTypes, KnownTypes
<1>5. ASSUME NEW p \in Floating, NEW e \in {FpuOff, SetGpr ++ Leaves(p[2])}
      PROVE  Readable(p[1], LeftBy(e))
  <2>1. p[1] \in FpHandlers
    BY DEF FpHandlers
  <2>2. CASE e = FpuOff
    BY <1>2, <2>1, <2>2
  <2>3. CASE e = SetGpr ++ Leaves(p[2])
    <3>1. Readable(p[1], LeftBy(SetGpr ++ Leaves(p[2])))
      BY <1>1, RegionTypes, KnownTypes
    <3> QED
      BY <2>3, <3>1
  <2> QED
    BY <2>2, <2>3
<1>6. ASSUME NEW p \in Typed({Fences, Hints})
      PROVE  Readable(p[1], LeftBy(Leaves(p[2])))
  BY <1>3, RegionTypes, KnownTypes
<1> QED
  BY <1>4, <1>5, <1>6

(* Branches and jumps write where they go; jalr may leave the type.        *)
LEMMA JumpsReadable ==
  /\ \A p \in Typed({Branches}) : Readable(p[1], LeftBy([data1 |-> "taken", data2 |-> "target"] ++ Leaves(p[2])))
  /\ \A e \in JumpEffects({"DIRECT", "PUSH"}) : Readable("jal", LeftBy(e))
  /\ \A e \in JalrEffects : Readable("jalr", LeftBy(e))
<1>1. ASSUME NEW h, NEW t \in Jumps
      PROVE  Readable(h, LeftBy(SetGpr ++ [data2 |-> "target"] ++ Leaves(t)))
  <2>1. PICK g : g = LeftBy(SetGpr ++ [data2 |-> "target"] ++ Leaves(t))
    OBVIOUS
  <2>2. g.type = t /\ g.exception = "none" /\ g.data2 = "target"
    BY <2>1 DEF LeftBy, ++, SetGpr, Leaves, Cleared, Stale, Fields
  <2>3. t \notin {"STORE", "AMO", "SC", "LOAD", "LR", "COND"} /\ t \in Types
    BY KnownTypes DEF Jumps, JalrTypes
  <2> QED
    BY <2>1, <2>2, <2>3 DEF Readable, PredictsFrom, ExecutesFrom, TrapsFrom, StoreOf
<1>2. Readable("jalr", LeftBy(SetGpr ++ [data2 |-> "target", exception |-> "none"]))
  <2>1. PICK g : g = LeftBy(SetGpr ++ [data2 |-> "target", exception |-> "none"])
    OBVIOUS
  <2>2. g.type = "stale" /\ g.exception = "none"
    BY <2>1 DEF LeftBy, ++, SetGpr, Cleared, Stale, Fields
  <2>3. "stale" \notin Jumps
    BY DEF Jumps, JalrTypes
  <2> QED
    BY <2>1, <2>2, <2>3 DEF Readable, PredictsFrom, ExecutesFrom, TrapsFrom, StoreOf
<1>3. ASSUME NEW h
      PROVE  Readable(h, LeftBy([data1 |-> "taken", data2 |-> "target"] ++ Leaves("COND")))
  <2>1. PICK g : g = LeftBy([data1 |-> "taken", data2 |-> "target"] ++ Leaves("COND"))
    OBVIOUS
  <2>2. g.type = "COND" /\ g.exception = "none" /\ g.data1 = "taken" /\ g.data2 = "target"
    BY <2>1 DEF LeftBy, ++, Leaves, Cleared, Stale, Fields
  <2>3. "COND" \in Types
    <3>1. << "beq", "COND" >> \in Typed({Branches}) /\ << "beq", "COND" >>[2] = "COND"
      BY DEF Typed, Branches
    <3> QED
      BY <3>1, KnownTypes
  <2>4. "COND" \notin Jumps
    BY DEF Jumps, JalrTypes
  <2> QED
    BY <2>1, <2>2, <2>3, <2>4 DEF Readable, PredictsFrom, ExecutesFrom, TrapsFrom, StoreOf
<1>4. {"DIRECT", "PUSH"} \cup JalrTypes = Jumps
  BY DEF Jumps
<1> QED
  BY <1>1, <1>2, <1>3, <1>4, RegionTypes DEF JumpEffects, JalrEffects

(* Loads and stores write what EXE and updateEnv read, or the address of   *)
(* their fault; a floating-point one keeps the address to itself.          *)
LEMMA AccessesReadable ==
  /\ \A p \in Typed({Loads}) : \A e \in LoadEffects(p[2]) : Readable(p[1], LeftBy(e))
  /\ \A p \in Typed({Stores}) : \A e \in StoreEffects(p[2]) : Readable(p[1], LeftBy(e))
  /\ \A p \in Amos : \A e \in AmoEffects(p[2]) : Readable(p[1], LeftBy(e))
  /\ \A p \in Typed({FpAccess}) :
       \A e \in (IF p[2] = "LOAD" THEN FpLoadEffects(p[2]) ELSE FpStoreEffects(p[2])) :
         Readable(p[1], LeftBy(e))
<1>1. "LOAD" \notin Jumps /\ "STORE" \notin Jumps /\ "AMO" \notin Jumps /\ "stale" \notin Jumps
  BY DEF Jumps, JalrTypes
<1>2. ASSUME NEW p \in Typed({Loads}), NEW e \in LoadEffects(p[2])
      PROVE  Readable(p[1], LeftBy(e))
  <2>1. PICK g : g = LeftBy(e)
    OBVIOUS
  <2>2. p[2] = "LOAD" /\ p[2] \in Types
    BY RegionTypes, KnownTypes
  <2>3. /\ g.type = p[2] /\ g.exc_data = "vaddr" /\ g.exception \in {"none", "access"}
        /\ g.exception = "none" => g.idx2 = "size"
    BY <2>1 DEF LeftBy, ++, LoadEffects, Address, SetGpr, LoadOk, Leaves, AccessFault,
                Cleared, Stale, Fields
  <2> QED
    BY <1>1, <2>1, <2>2, <2>3 DEF Readable, PredictsFrom, ExecutesFrom, TrapsFrom, StoreOf
<1>3. ASSUME NEW h, NEW t \in {"STORE", "AMO"}, t \in Types, NEW g,
             g.type = t, g.exc_data = "vaddr", g.exception \in {"none", "access"},
             g.exception = "none" => g.idx2 = "size" /\ g.data2 = "paddr" /\ g.data1 = "value"
      PROVE  Readable(h, g)
  BY <1>1, <1>3 DEF Readable, PredictsFrom, ExecutesFrom, TrapsFrom, StoreOf
<1>4. ASSUME NEW p \in Typed({Stores}), NEW e \in StoreEffects(p[2])
      PROVE  Readable(p[1], LeftBy(e))
  <2>1. PICK g : g = LeftBy(e)
    OBVIOUS
  <2>2. /\ g.type = p[2] /\ g.exc_data = "vaddr" /\ g.exception \in {"none", "access"}
        /\ g.exception = "none" => g.idx2 = "size" /\ g.data2 = "paddr" /\ g.data1 = "value"
    BY <2>1 DEF LeftBy, ++, StoreEffects, Address, StoreOk, Leaves, AccessFault, Cleared,
                Stale, Fields
  <2>3. p[2] \in {"STORE", "AMO"} /\ p[2] \in Types
    BY RegionTypes, KnownTypes
  <2> QED
    BY <1>3, <2>1, <2>2, <2>3
<1>5. ASSUME NEW p \in Amos, NEW e \in AmoEffects(p[2])
      PROVE  Readable(p[1], LeftBy(e))
  <2>1. PICK g : g = LeftBy(e)
    OBVIOUS
  <2>2. PICK b \in StoreEffects(p[2]) : e = SetGpr ++ b
    BY DEF AmoEffects
  <2>3. /\ g.type = p[2] /\ g.exc_data = "vaddr" /\ g.exception \in {"none", "access"}
        /\ g.exception = "none" => g.idx2 = "size" /\ g.data2 = "paddr" /\ g.data1 = "value"
    BY <2>1, <2>2 DEF LeftBy, ++, StoreEffects, Address, SetGpr, StoreOk, Leaves,
                      AccessFault, Cleared, Stale, Fields
  <2>4. p[2] \in {"STORE", "AMO"} /\ p[2] \in Types
    BY RegionTypes, KnownTypes
  <2> QED
    BY <1>3, <2>1, <2>3, <2>4
<1>6. ASSUME NEW p \in Typed({FpAccess})
      PROVE  /\ p[2] \in {"LOAD", "STORE"} /\ p[2] \in Types
             /\ p[1] \in Handled(FpAccess) /\ p[1] \in FpHandlers
  BY RegionTypes, KnownTypes DEF Handled, FpHandlers
<1>7. ASSUME NEW p \in Typed({FpAccess}), p[2] = "LOAD", NEW e \in FpLoadEffects(p[2])
      PROVE  Readable(p[1], LeftBy(e))
  <2>1. PICK g : g = LeftBy(e)
    OBVIOUS
  <2>2. /\ g.type = p[2] \/ (g.type = "stale" /\ g.exception = "illegal")
        /\ g.exception = "none" => g.idx2 = "size"
    BY <2>1 DEF LeftBy, ++, FpLoadEffects, FpuOff, SetGpr, LoadOk, Leaves, AccessFault,
                Cleared, Stale, Fields
  <2> QED
    BY <1>1, <1>6, <1>7, <2>1, <2>2 DEF Readable, PredictsFrom, ExecutesFrom, TrapsFrom, StoreOf
<1>8. ASSUME NEW p \in Typed({FpAccess}), p[2] # "LOAD", NEW e \in FpStoreEffects(p[2])
      PROVE  Readable(p[1], LeftBy(e))
  <2>1. PICK g : g = LeftBy(e)
    OBVIOUS
  <2>2. /\ g.type = p[2] /\ g.exception \in {"none", "access"}
        /\ g.exception = "none" => g.idx2 = "size" /\ g.data2 = "paddr" /\ g.data1 = "value"
    BY <2>1 DEF LeftBy, ++, FpStoreEffects, StoreOk, Leaves, AccessFault, Cleared, Stale, Fields
  <2>3. p[2] = "STORE"
    BY <1>6, <1>8
  <2> QED
    BY <1>1, <1>6, <2>1, <2>2, <2>3 DEF Readable, PredictsFrom, ExecutesFrom, TrapsFrom, StoreOf
<1> QED
  BY <1>2, <1>4, <1>5, <1>7, <1>8

(* LR, SC and the CSR instructions, which use the slots of the masks.      *)
LEMMA ReservationsReadable ==
  /\ \A p \in Typed({LoadReserved}) : \A e \in LrEffects(p[2]) : Readable(p[1], LeftBy(e))
  /\ \A p \in Typed({StoreConditional}) : \A e \in ScEffects(p[2]) : Readable(p[1], LeftBy(e))
  /\ \A p \in Typed({CsrAccess}) : \A e \in CsrEffects(p[2]) : Readable(p[1], LeftBy(e))
<1>1. "LR" \notin Jumps /\ "SC" \notin Jumps /\ "CSRWR" \notin Jumps
  BY DEF Jumps, JalrTypes
<1>2. ASSUME NEW p \in Typed({LoadReserved}), NEW e \in LrEffects(p[2])
      PROVE  Readable(p[1], LeftBy(e))
  <2>1. PICK g : g = LeftBy(e)
    OBVIOUS
  <2>2. p[2] = "LR" /\ p[2] \in Types /\ p[1] \in Handled(LoadReserved)
    BY RegionTypes, KnownTypes DEF Handled
  <2>3. g.type = p[2] /\ g.exc_data = "vaddr" /\ g.exception \in {"none", "access"}
    BY <2>1 DEF LeftBy, ++, LrEffects, Address, Leaves, AccessFault, Cleared, Stale, Fields
  <2> QED
    BY <1>1, <2>1, <2>2, <2>3 DEF Readable, PredictsFrom, ExecutesFrom, TrapsFrom, StoreOf
<1>3. ASSUME NEW p \in Typed({StoreConditional}), NEW e \in ScEffects(p[2])
      PROVE  Readable(p[1], LeftBy(e))
  <2>1. PICK g : g = LeftBy(e)
    OBVIOUS
  <2>2. p[2] = "SC" /\ p[2] \in Types
    BY RegionTypes, KnownTypes
  <2>3. /\ g.type = p[2] /\ g.exc_data = "vaddr" /\ g.exception \in {"none", "access"}
        /\ g.exception = "none" /\ g.dst0 = "zero" => g.idx2 = "size" /\ g.data2 = "value"
    BY <2>1 DEF LeftBy, ++, ScEffects, Address, LoadOk, Leaves, AccessFault, Cleared, Stale,
                Fields
  <2> QED
    BY <1>1, <2>1, <2>2, <2>3 DEF Readable, PredictsFrom, ExecutesFrom, TrapsFrom, StoreOf
<1>4. ASSUME NEW p \in Typed({CsrAccess}), NEW e \in CsrEffects(p[2])
      PROVE  Readable(p[1], LeftBy(e))
  <2>1. PICK g : g = LeftBy(e)
    OBVIOUS
  <2>2. p[2] = "CSRWR" /\ p[2] \in Types /\ p[1] \in Handled(CsrAccess)
    BY RegionTypes, KnownTypes DEF Handled
  <2>3. g.type = p[2] /\ g.exception \in {"none", "illegal"}
    BY <2>1 DEF LeftBy, ++, CsrEffects, SetGpr, Leaves, Cleared, Stale, Fields
  <2> QED
    BY <1>1, <2>1, <2>2, <2>3 DEF Readable, PredictsFrom, ExecutesFrom, TrapsFrom, StoreOf
<1> QED
  BY <1>2, <1>3, <1>4

(* Returns, calls, sfence.vma and a word that matches nothing.             *)
LEMMA SystemReadable ==
  /\ \A e \in ReturnEffects("SRET") : Readable("sret", LeftBy(e))
  /\ \A e \in ReturnEffects("MRET") : Readable("mret", LeftBy(e))
  /\ \A h : \A e \in CallEffects("CSRWR") : Readable(h, LeftBy(e))
  /\ Readable("sfence_vma", LeftBy([data1 |-> "value", data2 |-> "value"] ++ Leaves("SFENCE")))
  /\ Readable("no_match", LeftBy([exception |-> "none"]))
<1>1. \A t \in {"SRET", "MRET", "CSRWR", "SFENCE", "stale"} : t \notin Jumps
  BY DEF Jumps, JalrTypes
<1>2. ASSUME NEW h, NEW t \in {"SRET", "MRET"}, NEW e \in ReturnEffects(t)
      PROVE  Readable(h, LeftBy(e))
  <2>1. PICK g : g = LeftBy(e)
    OBVIOUS
  <2>2. /\ g.type = t /\ g.exception \in {"return", "illegal"}
        /\ g.exception = "illegal" => g.exc_data = "inst"
    BY <2>1 DEF LeftBy, ++, ReturnEffects, Leaves, Cleared, Stale, Fields
  <2> QED
    BY <1>1, <2>1, <2>2, KnownTypes DEF Readable, PredictsFrom, ExecutesFrom, TrapsFrom, StoreOf
<1>3. ASSUME NEW h, NEW e \in CallEffects("CSRWR")
      PROVE  Readable(h, LeftBy(e))
  <2>1. PICK g : g = LeftBy(e)
    OBVIOUS
  <2>2. g.type = "CSRWR" /\ g.exception = "call"
    BY <2>1 DEF LeftBy, ++, CallEffects, Leaves, Cleared, Stale, Fields
  <2> QED
    BY <1>1, <2>1, <2>2, KnownTypes DEF Readable, PredictsFrom, ExecutesFrom, TrapsFrom, StoreOf
<1>4. Readable("sfence_vma", LeftBy([data1 |-> "value", data2 |-> "value"] ++ Leaves("SFENCE")))
  <2>1. PICK g : g = LeftBy([data1 |-> "value", data2 |-> "value"] ++ Leaves("SFENCE"))
    OBVIOUS
  <2>2. g.type = "SFENCE" /\ g.exception = "none"
    BY <2>1 DEF LeftBy, ++, Leaves, Cleared, Stale, Fields
  <2> QED
    BY <1>1, <2>1, <2>2, KnownTypes DEF Readable, PredictsFrom, ExecutesFrom, TrapsFrom, StoreOf
<1>5. Readable("no_match", LeftBy([exception |-> "none"]))
  <2>1. PICK g : g = LeftBy([exception |-> "none"])
    OBVIOUS
  <2>2. g.type = "stale" /\ g.exception = "none"
    BY <2>1 DEF LeftBy, ++, Cleared, Stale, Fields
  <2> QED
    BY <1>1, <2>1, <2>2 DEF Readable, PredictsFrom, ExecutesFrom, TrapsFrom, StoreOf
<1> QED
  BY <1>2, <1>3, <1>4, <1>5

(* Every handler.                                                          *)
LEMMA HandlersReadable ==
  ASSUME NEW p \in Handlers, NEW e \in p[2]
  PROVE  Readable(p[1], LeftBy(e))
<1>1. CASE p \in {<< q[1], {SetGpr ++ Leaves(q[2])} >> : q \in Integer}
  BY <1>1, PlainReadable
<1>2. CASE p \in {<< q[1], {FpuOff, SetGpr ++ Leaves(q[2])} >> : q \in Floating}
  <2>1. PICK q \in Floating : p = << q[1], {FpuOff, SetGpr ++ Leaves(q[2])} >>
    BY <1>2
  <2>2. p[1] = q[1] /\ e \in {FpuOff, SetGpr ++ Leaves(q[2])}
    BY <2>1
  <2> QED
    BY <2>2, PlainReadable
<1>3. CASE p \in {<< q[1], {[data1 |-> "taken", data2 |-> "target"] ++ Leaves(q[2])} >> : q \in Typed({Branches})}
  BY <1>3, JumpsReadable
<1>4. CASE p \in {<< q[1], LoadEffects(q[2]) >> : q \in Typed({Loads})}
  <2>1. PICK q \in Typed({Loads}) : p = << q[1], LoadEffects(q[2]) >>
    BY <1>4
  <2>2. p[1] = q[1] /\ e \in LoadEffects(q[2])
    BY <2>1
  <2> QED
    BY <2>2, AccessesReadable
<1>5. CASE p \in {<< q[1], StoreEffects(q[2]) >> : q \in Typed({Stores})}
  <2>1. PICK q \in Typed({Stores}) : p = << q[1], StoreEffects(q[2]) >>
    BY <1>5
  <2>2. p[1] = q[1] /\ e \in StoreEffects(q[2])
    BY <2>1
  <2> QED
    BY <2>2, AccessesReadable
<1>6. CASE p \in {<< q[1], AmoEffects(q[2]) >> : q \in Amos}
  <2>1. PICK q \in Amos : p = << q[1], AmoEffects(q[2]) >>
    BY <1>6
  <2>2. p[1] = q[1] /\ e \in AmoEffects(q[2])
    BY <2>1
  <2> QED
    BY <2>2, AccessesReadable
<1>7. CASE p \in {<< q[1], IF q[2] = "LOAD" THEN FpLoadEffects(q[2]) ELSE FpStoreEffects(q[2]) >> : q \in Typed({FpAccess})}
  <2>1. PICK q \in Typed({FpAccess}) : p = << q[1], IF q[2] = "LOAD" THEN FpLoadEffects(q[2]) ELSE FpStoreEffects(q[2]) >>
    BY <1>7
  <2>2. p[1] = q[1] /\ e \in (IF q[2] = "LOAD" THEN FpLoadEffects(q[2]) ELSE FpStoreEffects(q[2]))
    BY <2>1
  <2> QED
    BY <2>2, AccessesReadable
<1>8. CASE p \in {<< q[1], LrEffects(q[2]) >> : q \in Typed({LoadReserved})}
  <2>1. PICK q \in Typed({LoadReserved}) : p = << q[1], LrEffects(q[2]) >>
    BY <1>8
  <2>2. p[1] = q[1] /\ e \in LrEffects(q[2])
    BY <2>1
  <2> QED
    BY <2>2, ReservationsReadable
<1>9. CASE p \in {<< q[1], ScEffects(q[2]) >> : q \in Typed({StoreConditional})}
  <2>1. PICK q \in Typed({StoreConditional}) : p = << q[1], ScEffects(q[2]) >>
    BY <1>9
  <2>2. p[1] = q[1] /\ e \in ScEffects(q[2])
    BY <2>1
  <2> QED
    BY <2>2, ReservationsReadable
<1>10. CASE p \in {<< q[1], CsrEffects(q[2]) >> : q \in Typed({CsrAccess})}
  <2>1. PICK q \in Typed({CsrAccess}) : p = << q[1], CsrEffects(q[2]) >>
    BY <1>10
  <2>2. p[1] = q[1] /\ e \in CsrEffects(q[2])
    BY <2>1
  <2> QED
    BY <2>2, ReservationsReadable
<1>11. CASE p \in {<< q[1], {Leaves(q[2])} >> : q \in Typed({Fences, Hints})}
  BY <1>11, PlainReadable
<1>12. CASE p = << "jal", JumpEffects({"DIRECT", "PUSH"}) >> \/ p = << "jalr", JalrEffects >>
  BY <1>12, JumpsReadable
<1>13. CASE \/ p = << "sret", ReturnEffects("SRET") >> \/ p = << "mret", ReturnEffects("MRET") >>
            \/ p = << "ebreak", CallEffects("CSRWR") >> \/ p = << "ecall", CallEffects("CSRWR") >>
            \/ p = << "sfence_vma", {[data1 |-> "value", data2 |-> "value"] ++ Leaves("SFENCE")} >>
            \/ p = << "no_match", {[exception |-> "none"]} >>
  BY <1>13, SystemReadable
<1> QED
  BY <1>1, <1>2, <1>3, <1>4, <1>5, <1>6, <1>7, <1>8, <1>9, <1>10, <1>11, <1>12, <1>13
     DEF Handlers

\* The record is that of a fetch that faulted, or Readable as what ran left it.
Left ==
  \/ inst = "none"
  \/ inst = "fetch_fault" /\ fields.exc_data = "vaddr" /\ fields.exception = "access"
  \/ Readable(inst, fields)

(* A step leaves a record that can be read.                                *)
LEMMA StepsLeave ==
  ASSUME InstNext
  PROVE  Left'
<1>1. CASE Recycle
  BY <1>1 DEF Recycle, Left
<1>2. CASE HandleException
  <2>1. inst' = "fetch_fault"
    BY <1>2 DEF HandleException
  <2>2. fields'.exc_data = "vaddr" /\ fields'.exception = "access"
    BY <1>2 DEF HandleException, ++, Stale, Fields
  <2> QED
    BY <2>1, <2>2 DEF Left
<1>3. ASSUME NEW p \in Handlers, NEW e \in p[2], Interpret(p[1], e)
      PROVE  Left'
  <2>1. Readable(p[1], LeftBy(e)) /\ Readable(p[1], LeftBy([exception |-> "interrupt"] ++ e))
    BY HandlersReadable, Interrupted
  <2>2. inst' = p[1] /\ (fields' = LeftBy(e) \/ fields' = LeftBy([exception |-> "interrupt"] ++ e))
    BY <1>3 DEF Interpret, LeftBy
  <2>3. Readable(inst', fields')
    BY <2>1, <2>2
  <2>4. Readable(inst, fields)'
    BY <2>3 DEF Readable, PredictsFrom, ExecutesFrom, TrapsFrom, StoreOf
  <2> QED
    BY <2>4 DEF Left
<1> QED
  BY <1>1, <1>2, <1>3 DEF InstNext

(* Who reads such a record misreads no more than what is known.            *)
LEMMA LeftNotStale == Left => NoStaleField
<1> SUFFICES ASSUME Left, inst # "none", NEW f \in Misreads
             PROVE  KnownMisread(f)
  BY DEF NoStaleField
<1>1. CASE inst = "fetch_fault" /\ fields.exc_data = "vaddr" /\ fields.exception = "access"
  <2>1. f \in Misread(PredictReads) \cup Misread(TrapReads)
    BY <1>1 DEF Misreads
  <2>2. Misread(PredictReads) = {}
    BY <1>1 DEF Misread, PredictReads
  <2>3. Misread(TrapReads) = {}
    BY <1>1 DEF Misread, TrapReads, Is
  <2> QED
    BY <2>1, <2>2, <2>3
<1>2. CASE Readable(inst, fields)
  <2>1. CASE f \in Misread(PredictReads)
    BY <1>2, <2>1 DEF Readable, PredictsFrom, Misread, PredictReads, Is
  <2>2. CASE fields.exception = "none" /\ f \in Misread(ExeReads)
    BY <1>2, <2>2 DEF Readable, ExecutesFrom, StoreOf, Misread, ExeReads, Stored, KnownMisread
  <2>3. CASE fields.exception = "none" /\ f \in Misread(CommitReads)
    BY <1>2, <2>3 DEF Readable, ExecutesFrom, StoreOf, Misread, CommitReads, Stored, Is, KnownMisread
  <2>4. CASE fields.exception # "none" /\ f \in Misread(TrapReads)
    <3>1. f = "exc_data" /\ fields.exc_data # TrapReads["exc_data"] /\ fields.exception \in {"illegal", "access"}
      BY <2>4 DEF Misread, TrapReads, Is
    <3> QED
      BY <1>2, <3>1 DEF Readable, TrapsFrom, TrapReads, Is, KnownMisread
  <2>5. CASE inst # "fetch_fault" /\ fields.type \notin Types /\ f = "type"
    BY <1>2, <2>5 DEF Readable, PredictsFrom, KnownMisread
  <2> QED
    BY <2>1, <2>2, <2>3, <2>4, <2>5 DEF Misreads
<1> QED
  BY <1>1, <1>2 DEF Left

(* Whatever had the record before, no stage reads a field that the         *)
(* instruction did not write, but for the known misreads (struct           *)
(* DecodeInfo, the trans_ functions, EXE, predict and updateEnv).          *)
THEOREM NoFieldIsStale == InstSpec => []NoStaleField
<1>1. InstInit => Left
  BY DEF InstInit, Left
<1>2. Left /\ [InstNext]_instVars => Left'
  <2> SUFFICES ASSUME Left, [InstNext]_instVars PROVE Left'
    OBVIOUS
  <2>1. CASE InstNext
    BY <2>1, StepsLeave
  <2>2. CASE UNCHANGED instVars
    BY <2>2 DEF instVars, Left, Readable, PredictsFrom, ExecutesFrom, TrapsFrom, StoreOf
  <2> QED
    BY <2>1, <2>2
<1> QED
  BY <1>1, <1>2, LeftNotStale, PTL DEF InstSpec

-----------------------------------------------------------------------------
(* The decoder: which registers an instruction names does not matter.      *)

\* Two words that differ only in the numbers of rs1 and rd, not in their being 0.
Alike(v, w) ==
  /\ v.op = w.op /\ v.f3 = w.f3 /\ v.f7 = w.f7 /\ v.rs2 = w.rs2
  /\ (v.rs1 = 0 <=> w.rs1 = 0) /\ (v.rd = 0 <=> w.rd = 0)

(* The opcodes, one by one; those of the vector extension end the program. *)
LEMMA OpcodesAlike ==
  ASSUME NEW v, NEW w, Alike(v, w)
  PROVE  /\ Op03(v) = Op03(w) /\ Op07(v) = Op07(w) /\ Op0F(v) = Op0F(w) /\ Op13(v) = Op13(w) /\ Op17(v) = Op17(w)
         /\ Op1B(v) = Op1B(w) /\ Op23(v) = Op23(w) /\ Op27(v) = Op27(w) /\ Op2F(v) = Op2F(w) /\ Op33(v) = Op33(w)
         /\ Op3B(v) = Op3B(w) /\ Fma(v) = Fma(w) /\ Op53(v) = Op53(w) /\ Op5B(v) = Op5B(w) /\ Op63(v) = Op63(w)
         /\ Op67(v) = Op67(w) /\ Op73(v) = Op73(w) /\ Op7B(v) = Op7B(w)
<1>1. Op03(v) = Op03(w) /\ Op23(v) = Op23(w) /\ Op63(v) = Op63(w) /\ Op67(v) = Op67(w)
  BY DEF Alike, Op03, Op23, Op63, Op67, Pick
<1>2. Op07(v) = Op07(w) /\ Op27(v) = Op27(w)
  BY DEF Alike, Op07, Op27, VectorMemory, Pick, StubIf
<1>3. Op0F(v) = Op0F(w) /\ Op17(v) = Op17(w)
  BY DEF Alike, Op0F, Op17, StubIf
<1>4. Op13(v) = Op13(w)
  BY DEF Alike, Op13, LeftShifts, RightShifts, Pick, StubIf
<1>5. Op1B(v) = Op1B(w) /\ Fma(v) = Fma(w)
  BY DEF Alike, Op1B, Fma, StubIf
<1>6. Op2F(v) = Op2F(w)
  BY DEF Alike, Op2F, AmoLow, AmoHigh, Sized, WordOrDouble, Pick, StubIf
<1>7. Op33(v) = Op33(w)
  BY DEF Alike, Op33, Base33, Multiply33, Pack33, MinMax33, Hash33, Rotate33, Crypto33, Pick, StubIf
<1>8. Op3B(v) = Op3B(w)
  BY DEF Alike, Op3B, Pick
<1>9. Op53(v) = Op53(w)
  BY DEF Alike, Op53, Arithmetic53, SignMinMax53, Convert53, Compare53, ToInteger53, FromInteger53, Move53, Pick, StubIf
<1>10. Op5B(v) = Op5B(w) /\ Op7B(v) = Op7B(w)
  BY DEF Alike, Op5B, Op7B, StubIf
<1>11. Op73(v) = Op73(w)
  BY DEF Alike, Op73, Privileged, Hypervisor, Csrs, Pick, StubIf
<1> QED
  BY <1>1, <1>2, <1>3, <1>4, <1>5, <1>6, <1>7, <1>8, <1>9, <1>10, <1>11

(* So decode_insn32 gives both to the same function, or ends the program.  *)
LEMMA DecodedAlike ==
  ASSUME NEW v, NEW w, Alike(v, w)
  PROVE  DecodeInsn32(v) = DecodeInsn32(w) \/ (w.op \in {87, 119} /\ DecodeInsn32(v) \in Ends /\ DecodeInsn32(w) \in Ends)
<1>1. v.op = w.op
  BY DEF Alike
<1>2. CASE w.op \in {87, 119}
  <2>1. \A x : Op57(x) \in Ends /\ Op77(x) \in Ends
    BY DEF Op57, Op77, StubIf, Ends
  <2>2. \A x : x.op = 87 => DecodeInsn32(x) = Op57(x)
    BY DEF DecodeInsn32
  <2>3. \A x : x.op = 119 => DecodeInsn32(x) = Op77(x)
    BY DEF DecodeInsn32
  <2> QED
    BY <1>1, <1>2, <2>1, <2>2, <2>3
<1>3. CASE w.op \notin {87, 119}
  BY <1>1, <1>3, OpcodesAlike DEF DecodeInsn32
<1> QED
  BY <1>2, <1>3

\* What the listing says of the registers of an instruction: nothing, 0, or not 0.
AnyRegisters(e) ==
  /\ e.op \notin {87, 119}
  /\ e.rs1 \in {{0}, 0 .. 31} /\ e.rd \in {{0}, 0 .. 31, 1 .. 31}

LEMMA EncodingAny ==
  ASSUME NEW n, NEW op, op \notin {87, 119}, NEW fixed, "op" \notin DOMAIN fixed,
         "rs1" \in DOMAIN fixed => fixed["rs1"] = {0},
         "rd" \in DOMAIN fixed => fixed["rd"] \in {{0}, 1 .. 31}
  PROVE  AnyRegisters(Encoding(n, op, fixed))
BY DEF AnyRegisters, Encoding, ++, AnyField

\* The opcodes of the families; the two left out are those of vectors.
FamilyOps == {3, 7, 15, 19, 27, 35, 39, 47, 51, 59, 83, 99, 103, 115}

(* Every family of the listing keeps to it.                                *)
LEMMA FamiliesAny ==
  ASSUME NEW op \in FamilyOps, NEW list
  PROVE  /\ \A e \in ByF3(op, list) : AnyRegisters(e)
         /\ \A e \in ByF7F3(op, list) : AnyRegisters(e)
         /\ \A e \in ByF7F3Rs2(op, list) : AnyRegisters(e)
         /\ \A e \in ByF5F3(op, list) : AnyRegisters(e)
         /\ \A e \in ByF7(list) \cup ByF7Rs2(list) \cup System(list) : AnyRegisters(e)
<1>0. op \notin {87, 119}
  BY DEF FamilyOps
<1>1. \A e \in ByF3(op, list) : AnyRegisters(e)
  <2>1. \A n \in DOMAIN list : AnyRegisters(Encoding(n, op, [f3 |-> {list[n]}]))
    BY <1>0, EncodingAny
  <2> QED
    BY <2>1 DEF ByF3
<1>2. \A e \in ByF7F3(op, list) : AnyRegisters(e)
  <2>1. \A n \in DOMAIN list : AnyRegisters(Encoding(n, op, [f7 |-> {list[n][1]}, f3 |-> {list[n][2]}]))
    BY <1>0, EncodingAny
  <2> QED
    BY <2>1 DEF ByF7F3
<1>3. \A e \in ByF7F3Rs2(op, list) : AnyRegisters(e)
  <2>1. \A n \in DOMAIN list :
          AnyRegisters(Encoding(n, op, [f7 |-> {list[n][1]}, f3 |-> {list[n][2]}, rs2 |-> {list[n][3]}]))
    BY <1>0, EncodingAny
  <2> QED
    BY <2>1 DEF ByF7F3Rs2
<1>4. \A e \in ByF5F3(op, list) : AnyRegisters(e)
  <2>1. \A n \in DOMAIN list :
          AnyRegisters(Encoding(n, op, [f7 |-> 4 * list[n][1] .. 4 * list[n][1] + 3, f3 |-> {list[n][2]}]))
    BY <1>0, EncodingAny
  <2> QED
    BY <2>1 DEF ByF5F3
<1>5. \A e \in ByF7(list) : AnyRegisters(e)
  <2>1. \A n \in DOMAIN list : AnyRegisters(Encoding(n, 83, [f7 |-> {list[n]}]))
    BY <1>0, EncodingAny
  <2> QED
    BY <2>1 DEF ByF7
<1>6. \A e \in ByF7Rs2(list) : AnyRegisters(e)
  <2>1. \A n \in DOMAIN list : AnyRegisters(Encoding(n, 83, [f7 |-> {list[n][1]}, rs2 |-> {list[n][2]}]))
    BY <1>0, EncodingAny
  <2> QED
    BY <2>1 DEF ByF7Rs2
<1>7. \A e \in System(list) : AnyRegisters(e)
  <2>1. \A n \in DOMAIN list :
          AnyRegisters(Encoding(n, 115, [f7 |-> {list[n][1]}, rs2 |-> {list[n][2]}, f3 |-> {0}, rs1 |-> {0}, rd |-> {0}]))
    BY <1>0, EncodingAny
  <2> QED
    BY <2>1 DEF System
<1> QED
  BY <1>1, <1>2, <1>3, <1>4, <1>5, <1>6, <1>7

(* What lr_w and pack change of their family is not a register of theirs.  *)
LEMMA Rs2Any ==
  ASSUME NEW e, AnyRegisters(e), NEW set, e = [x \in DOMAIN e |-> e[x]], {"op", "rs1", "rd"} \subseteq DOMAIN e
  PROVE  AnyRegisters([e EXCEPT !.rs2 = set])
  BY DEF AnyRegisters

(* An encoding is a record with all the fields.                            *)
LEMMA EncodingFields ==
  ASSUME NEW n, NEW op, NEW fixed
  PROVE  LET e == Encoding(n, op, fixed) IN e = [x \in DOMAIN e |-> e[x]] /\ {"op", "rs1", "rd"} \subseteq DOMAIN e
  BY DEF Encoding, ++, AnyField

(* The parts of the listing.                                               *)
LEMMA Rv64IAny == \A e \in Rv64I : AnyRegisters(e)
<1>1. \A op \in {103, 15, 99, 3, 35, 19, 27, 115} : \A list : \A e \in ByF3(op, list) : AnyRegisters(e)
  BY FamiliesAny DEF FamilyOps
<1>2. \A op \in {27, 51, 59} : \A list : \A e \in ByF7F3(op, list) : AnyRegisters(e)
  BY FamiliesAny DEF FamilyOps
<1>3. DOMAIN << >> = {}
  OBVIOUS
<1>4. \A e \in Transfers : AnyRegisters(e)
  <2>1. AnyRegisters(Encoding("jal", 111, << >>))
    BY <1>3, EncodingAny
  <2> QED
    BY <1>1, <2>1, Zenon DEF Transfers
<1>5. \A e \in Accesses : AnyRegisters(e)
  BY <1>1, Zenon DEF Accesses
<1>6. \A e \in Constants : AnyRegisters(e)
  <2>1. AnyRegisters(Encoding("lui", 55, << >>))
    BY <1>3, EncodingAny
  <2>2. AnyRegisters(Encoding("auipc", 23, [rd |-> 1 .. 31]))
    BY EncodingAny
  <2> QED
    BY <2>1, <2>2, Zenon DEF Constants
<1>7. \A e \in Immediates : AnyRegisters(e)
  <2>1. \A op \in {19} : \A list : \A e \in ByF5F3(op, list) : AnyRegisters(e)
    BY FamiliesAny DEF FamilyOps
  <2> QED
    BY <1>1, <1>2, <2>1, Zenon DEF Immediates
<1>8. \A e \in Registers : AnyRegisters(e)
  BY <1>2, Zenon DEF Registers
<1>9. \A e \in FencesAndCsrs : AnyRegisters(e)
  <2>1. AnyRegisters(Encoding("pause", 15, [f3 |-> {0}, f7 |-> {0}, rs2 |-> {16}, rs1 |-> {0}, rd |-> {0}]))
    BY EncodingAny
  <2> QED
    BY <1>1, <2>1, Zenon DEF FencesAndCsrs
<1>10. \A e \in SystemCalls : AnyRegisters(e)
  <2>1. AnyRegisters(Encoding("sfence_vma", 115, [f3 |-> {0}, f7 |-> {9}, rd |-> {0}]))
    BY EncodingAny
  <2>2. \A list : \A e \in System(list) : AnyRegisters(e)
    BY FamiliesAny DEF FamilyOps
  <2> QED
    BY <2>1, <2>2, Zenon DEF SystemCalls
<1> QED
  BY <1>4, <1>5, <1>6, <1>7, <1>8, <1>9, <1>10, Zenon DEF Rv64I

LEMMA Rv64AAny == \A e \in Rv64A : AnyRegisters(e)
<1> DEFINE reserved == ByF5F3(47, [lr_w |-> << 2, 2 >>, lr_d |-> << 2, 3 >>])
<1>1. \A op \in {47} : \A list : \A e \in ByF5F3(op, list) : AnyRegisters(e)
  BY FamiliesAny DEF FamilyOps
<1>2. \A e \in reserved : AnyRegisters([e EXCEPT !.rs2 = {0}])
  <2>1. \A e \in reserved : AnyRegisters(e)
    BY <1>1, Zenon
  <2>2. \A e \in reserved : e = [x \in DOMAIN e |-> e[x]] /\ {"op", "rs1", "rd"} \subseteq DOMAIN e
    BY EncodingFields DEF ByF5F3
  <2> HIDE DEF reserved
  <2> QED
    BY <2>1, <2>2, Rs2Any
<1> QED
  BY <1>1, <1>2, Zenon DEF Rv64A

LEMMA Rv64FDAny == \A e \in Rv64FD : AnyRegisters(e)
<1>1. \A op \in {7, 39} : \A list : \A e \in ByF3(op, list) : AnyRegisters(e)
  BY FamiliesAny DEF FamilyOps
<1>2. \A list : \A e \in ByF7(list) \cup ByF7Rs2(list) : AnyRegisters(e)
  BY FamiliesAny DEF FamilyOps
<1>3. \A e \in FpAccesses : AnyRegisters(e)
  BY <1>1, Zenon DEF FpAccesses
<1>4. \A e \in FpArithmetics : AnyRegisters(e)
  <2>1. AnyRegisters(Encoding("fmadd_d", 67, [f7 |-> {4 * i + 1 : i \in 0 .. 31}]))
    BY EncodingAny
  <2> QED
    BY <1>2, <2>1, Zenon DEF FpArithmetics
<1>5. \A e \in FpSignsAndCompares : AnyRegisters(e)
  <2>1. \A op \in {83} : \A list : \A e \in ByF7F3(op, list) : AnyRegisters(e)
    BY FamiliesAny DEF FamilyOps
  <2> QED
    BY <2>1, Zenon DEF FpSignsAndCompares
<1>6. \A e \in FpConversions : AnyRegisters(e)
  <2>1. \A op \in {83} : \A list : \A e \in ByF7F3Rs2(op, list) : AnyRegisters(e)
    BY FamiliesAny DEF FamilyOps
  <2> QED
    BY <1>2, <2>1, Zenon DEF FpConversions
<1> QED
  BY <1>3, <1>4, <1>5, <1>6, Zenon DEF Rv64FD

LEMMA Rv64BAny == \A e \in Rv64B : AnyRegisters(e)
<1> DEFINE packs == ByF7F3(51, [pack |-> << 4, 4 >>]) \cup ByF7F3(59, [packw |-> << 4, 4 >>])
<1>1. \A op \in {51, 59, 27} : \A list : \A e \in ByF7F3(op, list) : AnyRegisters(e)
  BY FamiliesAny DEF FamilyOps
<1>2. \A op \in {19, 27, 59} : \A list : \A e \in ByF7F3Rs2(op, list) : AnyRegisters(e)
  BY FamiliesAny DEF FamilyOps
<1>3. \A op \in {27, 19} : \A list : \A e \in ByF5F3(op, list) : AnyRegisters(e)
  BY FamiliesAny DEF FamilyOps
<1>4. \A e \in BitRegisters : AnyRegisters(e)
  BY <1>1, Zenon DEF BitRegisters
<1>5. \A e \in Packs : AnyRegisters(e)
  <2>1. \A e \in packs : AnyRegisters([e EXCEPT !.rs2 = 1 .. 31])
    <3>1. \A e \in packs : AnyRegisters(e)
      BY <1>1, Zenon
    <3>2. \A e \in packs : e = [x \in DOMAIN e |-> e[x]] /\ {"op", "rs1", "rd"} \subseteq DOMAIN e
      BY EncodingFields DEF ByF7F3
    <3> HIDE DEF packs
    <3> QED
      BY <3>1, <3>2, Rs2Any
  <2> QED
    BY <1>2, <2>1, Zenon DEF Packs
<1>6. \A e \in BitImmediates : AnyRegisters(e)
  BY <1>1, <1>3, Zenon DEF BitImmediates
<1>7. \A e \in CountsAndSwaps : AnyRegisters(e)
  BY <1>2, Zenon DEF CountsAndSwaps
<1> QED
  BY <1>4, <1>5, <1>6, <1>7, Zenon DEF Rv64B

(* The whole listing.                                                      *)
LEMMA ListingAny == \A e \in Listing : AnyRegisters(e)
<1>1. \A e \in Rv64M : AnyRegisters(e)
  BY FamiliesAny, Zenon DEF Rv64M, FamilyOps
<1> QED
  BY <1>1, Rv64IAny, Rv64AAny, Rv64FDAny, Rv64BAny DEF Listing

(* An instruction of the listing is either of two such words or neither.   *)
LEMMA MatchesAlike ==
  ASSUME NEW e \in Listing, NEW v, NEW w, Alike(v, w), {v.rs1, w.rs1, v.rd, w.rd} \subseteq 0 .. 31
  PROVE  Matches(e, v) <=> Matches(e, w)
<1>1. AnyRegisters(e)
  BY ListingAny
<1>2. v.rs1 \in e.rs1 <=> w.rs1 \in e.rs1
  BY <1>1 DEF AnyRegisters, Alike
<1>3. v.rd \in e.rd <=> w.rd \in e.rd
  BY <1>1 DEF AnyRegisters, Alike
<1> QED
  BY <1>2, <1>3 DEF Matches, Alike

AllWords32 ==
  [op: {insn.op}, f3: {insn.f3}, f7: 0 .. 127, rs2: 0 .. 31, rs1: 0 .. 31, rd: 0 .. 31]

(* The numbers of rs1 and rd decide nothing in decode_insn32 but by being 0: *)
(* DecodeMatches, which the run checks with 0 and 1 in both, is about every  *)
(* word of the class, all 32 bits of it.                                     *)
THEOREM EveryWordDecoded ==
  ASSUME DecodeMatches, insn # NoInsn, ~insn.rvc, NEW w \in AllWords32
  PROVE  DecodedAs(w, Near)
<1> DEFINE v == [op |-> w.op, f3 |-> w.f3, f7 |-> w.f7, rs2 |-> w.rs2,
                 rs1 |-> IF w.rs1 = 0 THEN 0 ELSE 1, rd |-> IF w.rd = 0 THEN 0 ELSE 1]
           names(x) == {e.trans : e \in {e \in Near : Matches(e, x)}}
<1>1. v \in Words32 /\ Alike(v, w) /\ {v.rs1, w.rs1, v.rd, w.rd} \subseteq 0 .. 31
  BY DEF AllWords32, Words32, Alike
<1> HIDE DEF v
<1>2. DecodedAs(v, Near)
  BY <1>1 DEF DecodeMatches
<1>3. \A e \in Near : e \in Listing /\ (Matches(e, v) <=> Matches(e, w))
  BY <1>1, MatchesAlike DEF Near
<1>4. names(v) = names(w)
  BY <1>3
<1>5. CASE DecodeInsn32(v) = DecodeInsn32(w)
  BY <1>2, <1>4, <1>5 DEF DecodedAs
<1>6. CASE w.op \in {87, 119} /\ DecodeInsn32(w) \in Ends
  <2>1. \A e \in Near : e.op = w.op /\ AnyRegisters(e)
    BY ListingAny DEF Near, AllWords32
  <2>2. names(w) = {}
    BY <1>6, <2>1 DEF AnyRegisters
  <2> QED
    BY <1>6, <2>2 DEF DecodedAs
<1> QED
  BY <1>1, <1>5, <1>6, DecodedAlike
=============================================================================
